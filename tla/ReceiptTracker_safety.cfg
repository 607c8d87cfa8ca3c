SPECIFICATION Spec
CONSTANTS
  Tx = {h1}
  Reg = {r1, r2}
  Expiries = {0, 3}
  BlocksPerScan = 2
  MaxRuns = 2
  MaxHeight = 3
  MaxRollbacks = 1
SYMMETRY Symmetry
INVARIANTS TypeOK ScannersServe InclusionsAreKept
CHECK_DEADLOCK FALSE
