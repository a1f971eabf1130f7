SPECIFICATION ThreadSpec
CONSTANTS
  Functors = {f1, f2}
  WakeupChannel = wc
  Owner = owner
INVARIANTS LoopExistsWhenStarted
PROPERTIES StartLoopReturns QuitEndsThread
CHECK_DEADLOCK FALSE
