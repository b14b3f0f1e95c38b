SPECIFICATION Spec
CONSTANTS
  Jobs = {c1}
INVARIANTS CommittedCloseRecoverable
