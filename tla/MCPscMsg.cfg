SPECIFICATION Spec
CONSTANTS
  PoolSize = 3
  HeadLen = 2
  MaxLen = 3
  SkipLen = 2
  Lens = {0, 3, 4, 9}
  MaxMsgs = 2
INVARIANTS WholeMessages ReplyBufKept
PROPERTY SilentPeerDropped
CHECK_DEADLOCK FALSE
