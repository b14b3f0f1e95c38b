SPECIFICATION Spec
CONSTANTS
  Tabs = {t1}
  Slots = {s1, s2}
  Requests = {a, b}
  MaxKeys = 2
  MaxRetained = 2
  MaxPending = 1
SYMMETRY RequestSymmetry
INVARIANTS IdentityNamesOneJob RetryFindsJob CapacityHeld IdentityKept
