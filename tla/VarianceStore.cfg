SPECIFICATION Spec
CONSTANTS
  Nodes <- TestNodes
  Root = "profit"
  Parent <- TestParent
  Sign <- TestSign
  Measure = "profit"
  NPeriods = 6
  PerYear = 3
  MinObs = 4
  Unit = 4
  ZLines = 46
  Threads = {t1, t2}
  Requests <- TestRequests
  MaxCalls = 3
  MaxFaults = 1
  Exported = {"r2", "r3"}
  MaxReceipts = 1
SYMMETRY Symmetric

CHECK_DEADLOCK FALSE
INVARIANTS SavedCloseStands OneLineOfCloses RecordsTruthful
