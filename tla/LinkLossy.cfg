SPECIFICATION Spec
CONSTANTS
  Faults <- PrimaryRestarts
  FrameLengths = {1, 2}
  MaxFrames = 2
  kIDMask = 3
  kMaxPayloadSize = 1
  UINT8_MAX = 2
  kMaxBufferedFrames = 0
  FifoDepth = 1
  PollInterval = 1
  ResetInterval = 2
  FailLimit = 1
INVARIANTS
  TypeOK
  OneInFlight
  IdsInStep
  FrameEndsKept
  BufferBound
  InFlightHasFrame
PROPERTIES
  ImplementsTunnel
