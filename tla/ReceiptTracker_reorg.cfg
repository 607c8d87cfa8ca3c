SPECIFICATION Spec
CONSTANTS
  Tx = {h1}
  Reg = {r1}
  Expiries = {0}
  BlocksPerScan = 1
  MaxRuns = 1
  MaxHeight = 3
  MaxRollbacks = 1
INVARIANTS NoMissedInclusion
CHECK_DEADLOCK FALSE
