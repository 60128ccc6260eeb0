SPECIFICATION FairSpec
CONSTANTS
  Faults <- BothRestart
  FrameLengths = {2}
  MaxFrames = 1
  kIDMask = 3
  kMaxPayloadSize = 1
  UINT8_MAX = 2
  kMaxBufferedFrames = 1
  FifoDepth = 1
  PollInterval = 1
  ResetInterval = 2
  FailLimit = 1
PROPERTIES
  Drained
  LinkRecovers
