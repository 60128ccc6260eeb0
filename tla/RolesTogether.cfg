SPECIFICATION FairSpec
CONSTANTS
  Node = {a, b}
  FifoDepth = 3
  Faults = {}
PROPERTIES
  NegotiationEnds
CHECK_DEADLOCK FALSE
