SPECIFICATION Spec
CONSTANTS
  MaxRetained = 1
  MaxPending = 1
  MaxRuns = 3
  Workers = {w1}
  Operators = {o1}
  Dataset = {1}
  NRestored = 0
  QueueOnly = TRUE
INVARIANT SourceChangedBeforeProcessing
