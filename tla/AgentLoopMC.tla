----------------------------- MODULE AgentLoopMC -----------------------------
(* AgentLoop on a small instance: the provider restates its figures once,  *)
(* and the restated ones lack the debt that an equity value needs.         *)
EXTENDS AgentLoop

TestFacts == <<Features, Features \ {"bridge"}>>
\* A whole analysis and one more fetch; and the tools of the longest chain of
\* computed figures in nearly any order.
Analysis == <<{"get_financials"}, {"get_prices"}, {"get_consensus"}, {"compute_ratios"},
              {"run_dcf"}, {"peer_outlier_check"}, Priced>>
Chain == {"get_financials", "get_prices", "run_dcf", "compute_derived"}
TestMenus == {Analysis, <<Priced, Priced, Chain, Chain, Chain>>}
\* A breach whose observation is doubtful, and a doubtful observation alone.
TestDiagnostics == [i \in {"i1", "i2"} |->
                      {"anomaly", "isolated"} \cup (IF i = "i2" THEN {"threshold"} ELSE {})]
=============================================================================
