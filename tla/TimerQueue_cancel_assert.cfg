SPECIFICATION Spec
CONSTANTS
  Timers = {1, 2}
  MaxInterval = 1
  MaxNow = 3
  MaxQueue = 1
INVARIANTS CancelAssertHolds
CHECK_DEADLOCK FALSE
