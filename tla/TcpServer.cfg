SPECIFICATION Spec
CONSTANTS
  MaxThreads = 2
  MaxConns = 4
  MaxFds = 2
INVARIANTS Balanced RegisteredIsOwned FaultOnlyAfterDtor
PROPERTIES BacklogServed ClosedIsFreed
CHECK_DEADLOCK FALSE
