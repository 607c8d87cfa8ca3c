SPECIFICATION LocalFairSpec
CONSTANTS
  Tx = {t1, t2}
  k1 = k1
  k2 = k2
  Key = {k1, k2}
  KeyChoices <- MCDisjoint
  MaxConcurrent = 2
PROPERTIES DisjointKeysRunInParallel
CHECK_DEADLOCK FALSE
