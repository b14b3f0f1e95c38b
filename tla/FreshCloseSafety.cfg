SPECIFICATION Spec
CONSTANTS
  Jobs = {c1, c2, c3}
SYMMETRY CloseSymmetry
INVARIANTS CommitsFollowPins OneOpenIntent ResolutionTruthful
  ListedIsCommitted JournalHasOwner
