SPECIFICATION FairSpec
CONSTANTS
  k1 = k1
  k2 = k2
  Key = {k1, k2}
  Tx = {t1, t2, t3}
  Configs <- MCLive
PROPERTIES CallsReturn
CHECK_DEADLOCK FALSE
