SPECIFICATION Spec
CONSTANTS
  Keys = {k1, k2}
  Packages <- TestPackages
  MaxTransfers = 2
  MaxVersions = 2
  MaxPending = 2
  MaxAttempts = 2
  MaxBytes = 9
SYMMETRY KeySymmetry
INVARIANTS VersionsTraced PreparedWhole OneListing
PROPERTIES NotAfterRevocation
CHECK_DEADLOCK FALSE
