SPECIFICATION Spec
CONSTANTS
  kInitRetryDelay = 1
  kMaxRetryDelay = 3
  MaxAttempts = 3
  MaxConnects = 2
INVARIANTS SocketsOwned FaultCauses
PROPERTIES StopIsFinal Connects
CHECK_DEADLOCK FALSE
