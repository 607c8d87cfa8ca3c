SPECIFICATION Spec
CONSTANTS
  a = a
  b = b
  c = c
  d = d
  NoStep = NoStep
  l1 = l1
  l2 = l2
  Step = {a, b}
  Lane = {l1, l2}
  InstanceOf <- MCPair
  Before <- MCPairUnordered
  Choices <- MCChoices
PROPERTIES ChainIsDisabled
CHECK_DEADLOCK FALSE
