SPECIFICATION HttpSpec
CONSTANTS
  MaxRequests = 3
  FileChunks = 1
INVARIANTS AnswersInOrder AssertOnlyAfterBad
PROPERTIES Answers
CHECK_DEADLOCK FALSE
