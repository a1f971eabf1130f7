SPECIFICATION Spec
CONSTANTS
  Threads = {t1}
  LoopThread = loop
  SharedLoop = TRUE
  ReadControl = {"stopReadInLoop"}
  MsgLen = 2
  SndCap = 1
  highWaterMark_ = 3
  MaxSends = 1
  MaxToggles = 1
  MaxCalls = 2
PROPERTIES OutputCompletes PeerCloseNoticed CloseCompletes
CHECK_DEADLOCK FALSE
