--------------------------- MODULE MonitorStoreMC ---------------------------
(* MonitorStore on a small instance: one item, the replacement it may get  *)
(* and a third ID; an old and a stricter definition.                       *)
EXTENDS MonitorStore

Below(n) == [threshold |-> n, direction |-> "below"]
TestItems == {"ratio", "ratio_v2"}
TestProfiles == {[i \in {"ratio"} |-> Below(1)], [i \in {"ratio"} |-> Below(0)],
                 [i \in {"ratio_v2"} |-> Below(0)]}
=============================================================================
