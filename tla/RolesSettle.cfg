SPECIFICATION FairSpec
CONSTANTS
  Node = {a, b}
  FifoDepth = 3
  Faults <- EveryFault
INVARIANTS
  TypeOK
  RolesDiffer
PROPERTIES
  HeardPairs
CHECK_DEADLOCK FALSE
