SPECIFICATION Spec
CONSTANTS
  Kinds = {"research", "triage"}
  MaxIters = 3
  MaxRequests = 3
  MaxBatches = 3
  MaxFaults = 1
  Menus <- TestMenus
  Facts <- TestFacts
  Flags = {"i1", "i2"}
  Diagnostics <- TestDiagnostics
INVARIANTS EvidenceCurrent SpendAudited ReportIsCurrent PublishedIsEarned
CHECK_DEADLOCK FALSE
