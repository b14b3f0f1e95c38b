SPECIFICATION FairSpec
CONSTANTS
  MaxRetained = 2
  MaxPending = 2
  MaxRuns = 3
  Workers = {w1}
  Operators = {}
  Dataset = {1}
  NRestored = 2
  QueueOnly = FALSE
INVARIANTS
  AtMostOneDispatch
  HeldNotStarted
PROPERTIES
  AttemptEnds
  RestartPossible
  QueueServed
