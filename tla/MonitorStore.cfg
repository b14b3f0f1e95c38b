SPECIFICATION Spec
CONSTANTS
  Items <- TestItems
  Profiles <- TestProfiles
  Values = {1, 2}
  MaxDay = 2
  MaxAge = 1
  MaxCycle = 3
  Procs = {p1, p2}
  Schedulers = {p2}
  Modes = {"yfinance", "bundled_fixtures"}
INVARIANTS HistoryAccounted DecisionsRespected TriageOnOwnEvidence
CHECK_DEADLOCK FALSE
