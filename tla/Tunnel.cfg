SPECIFICATION Spec
CONSTANTS
  kHighWaterMark = 2
  kFixed = 2
  kMaxRequest = 6
  MaxData = 2
INVARIANTS StreamsKept FlowControl FaultCauses
PROPERTIES Forwards
CHECK_DEADLOCK FALSE
