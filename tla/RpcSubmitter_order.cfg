SPECIFICATION FairSpec
CONSTANTS
  Tx = {t1, t2, t3}
  Key = {k1, k2}
  k1 = k1
  k2 = k2
  KeyChoices <- MCKeyChoices
  MaxConcurrent = 1
INVARIANTS TypeOK KeyExclusion ActiveKeysAreOwned PermitsAreOwned
PROPERTIES ImplementsKeyOrdering EveryCallSettles
CHECK_DEADLOCK FALSE
