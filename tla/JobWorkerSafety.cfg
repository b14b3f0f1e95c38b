SPECIFICATION Spec
CONSTANTS
  MaxRetained = 2
  MaxPending = 2
  MaxRuns = 3
  Workers = {w1}
  Operators = {o1}
  Dataset = {2}
  NRestored = 0
  QueueOnly = TRUE
INVARIANTS
  TypeOK
  OrphanExcluded
  AtMostOneRunning
  VisibleReport
  DeliveredIsListed
  DeliveryRecoverable
  RecordReadable
  CatalogWithinBound
PROPERTIES
  KeepsPromise
