SPECIFICATION Spec
CONSTANTS
  a = a
  b = b
  c = c
  d = d
  NoStep = NoStep
  l1 = l1
  l2 = l2
  Step = {a, b, c, d}
  Lane = {l1, l2}
  InstanceOf <- MCParallel
  Before <- MCForked
  Choices <- MCChoices
INVARIANTS TypeOK LanesAreServed NoncesAreInOrder NoncesAreKept
CHECK_DEADLOCK FALSE
