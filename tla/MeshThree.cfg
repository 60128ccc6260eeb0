SPECIFICATION Spec
CONSTANTS
  Node = {a, b, c}
  min_discovery_node_id = 4
  max_node_id = 6
  max_discovery_messages = 3
  kNeighborsInPacket = 3
  FifoDepth = 3
  MaxQueued = 3
  Faults = {}
INVARIANTS
  TypeOK
  NeighborsAreOthers
  KnowOneAnother
PROPERTIES
  TakenUnheard
SYMMETRY AnyOrder
