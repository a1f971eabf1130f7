SPECIFICATION Spec
CONSTANTS
  Threads = {t1}
  LoopThread = loop
  SharedLoop = FALSE
  ReadControl = {"startReadInLoop", "stopReadInLoop"}
  MsgLen = 2
  SndCap = 1
  highWaterMark_ = 3
  MaxSends = 3
  MaxToggles = 1
  MaxCalls = 3
INVARIANTS ChannelRegistered ByteStream ChannelFollows HighWaterTold UpThenDown
  GracefulShutdown
CHECK_DEADLOCK FALSE
