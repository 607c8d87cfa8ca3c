SPECIFICATION Spec
CONSTANTS
  k1 = k1
  k2 = k2
  Key = {k1, k2}
  Tx = {t1, t2, t3, t4}
  Configs <- MCSafety
SYMMETRY Symmetry
INVARIANTS TypeOK LaneOrder ActiveKeysAreOwned SlotsAccounted
           SetupAfterDependencies AnswersHold
PROPERTIES ImplementsKeyOrdering
CHECK_DEADLOCK FALSE
