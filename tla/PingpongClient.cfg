SPECIFICATION Spec
CONSTANTS
  sessionCount_ = 3
  MaxThreads = 2
  MaxMessages = 1
INVARIANTS ReportRight
PROPERTIES TimeoutEnds
CHECK_DEADLOCK FALSE
