SPECIFICATION Spec
CONSTANTS
  kCheapPrepend = 2
  kInitialSize = 3
  kExtraSize = 3
  kHeaderLen = 2
  kChecksumLen = 1
  kMaxMessageLen = 3
  TagLen = 1
  SndCap = 3
  Payloads = {1, 2}
  MaxSends = 3
  MaxShrinks = 1
INVARIANTS AssertsHold StreamKept
PROPERTIES Decodes
CHECK_DEADLOCK FALSE
