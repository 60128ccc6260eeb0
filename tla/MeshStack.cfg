SPECIFICATION FairStackSpec
CONSTANTS
  a = a
  b = b
  c = c
  Node = {a, b, c}
  min_discovery_node_id = 3
  max_node_id = 3
  max_discovery_messages = 1
  kNeighborsInPacket = 3
  FifoDepth = 3
  MaxQueued = 3
  Faults <- LossyAndLate
  MaxNumberOfPackets = 1
  kMaxTimesSent = 1
  PACKET_PAYLOAD_SIZE = 2
  kMaxBufferedFrames = 0
  Value <- ZeroFilled
  FrameLengths <- LongAndShort
  Scenarios <- AllScenarios
INVARIANTS
  StackTypeOK
  DownstreamBound
  EndsKept
  InOrder
  Delivered
PROPERTIES
  AckedArrived
  StackDrained
