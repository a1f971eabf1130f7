SPECIFICATION Spec
CONSTANTS
  Timers = {1, 2}
  MaxInterval = 1
  MaxNow = 4
  MaxQueue = 2
INVARIANTS TimerSetsAgree TimerfdArmed CancelIsFinal
PROPERTIES TimersExpire
CHECK_DEADLOCK FALSE
