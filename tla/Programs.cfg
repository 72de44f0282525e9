\* Four programs, one at a time.
SPECIFICATION Spec
CONSTANTS
  W = 4
  NLines = 3
  MaxLines = 2
  MaxAttrs = 1
  BufSize = 2
  MaxFile = 7
  Clients = {c1, c2}
  MaxRequests = 2
  Room = 1
  LOOP = 3
INVARIANTS
  ExactlyAsAsked
  NothingLeaks
  AnswersInOrder
  CommCounts
  ShowsDigit
PROPERTY
  Answered
\* A program may have ended.
CHECK_DEADLOCK FALSE
