SPECIFICATION Spec
CONSTANTS
  Tabs = {t1}
  Slots = {s1, s2}
  Requests = {a}
  MaxKeys = 1
  MaxRetained = 2
  MaxPending = 2
INVARIANTS RefusedBeforeAdmission
