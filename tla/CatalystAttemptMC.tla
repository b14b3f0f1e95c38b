-------------------------- MODULE CatalystAttemptMC --------------------------
(* CatalystAttempt on a small instance: two companies beside the target,   *)
(* one of them in the study plan.                                          *)
EXTENDS CatalystAttempt

Ask(kind, peers, plan) == [kind |-> kind, peers |-> peers, plan |-> plan]
TestRequests ==
  {Ask("study", {"p"}, "reviewed"), Ask("study", {"p"}, "check"), Ask("study", {"q"}, "none"),
   Ask("study", {"q"}, "reviewed"), Ask("study", AskModel, "reviewed"),
   Ask("live", {}, "none"), Ask("fixture", {}, "none")}
\* The provider offers more variety the first time.
TestFetches == [a \in Attempts |-> IF a = 1 THEN {"ok", "partial", "error"} ELSE {"ok", "excluded"}]
TestSamples ==
  [a \in Attempts |-> IF a = 1 THEN {"null", "marginal"} ELSE {"effect"}]
TestNews == {{}, {"clean"}, {"clean", "failing"}, {"failing"}, {"clean", "stale"}, {"flagged"}}
=============================================================================
