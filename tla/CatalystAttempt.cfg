SPECIFICATION Spec
CONSTANTS
  NAttempts = 2
  Target = "t"
  Peers = {"p", "q"}
  PlanPeers = {"p"}
  Requests <- TestRequests
  Fetches <- TestFetches
  Samples <- TestSamples
  News <- TestNews
  MinIssuers = 2
  MaxFaults = 1
INVARIANTS SealedIsFinal IndexTruthful ShownIsEarned
CHECK_DEADLOCK FALSE
