SPECIFICATION FairSpec
CONSTANTS
  Node = {a, b}
  min_discovery_node_id = 2
  max_node_id = 3
  max_discovery_messages = 1
  kNeighborsInPacket = 2
  FifoDepth = 2
  MaxQueued = 2
  Faults <- FlakyStarts
PROPERTIES
  AllRun
