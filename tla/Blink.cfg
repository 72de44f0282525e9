SPECIFICATION FairSpec
CONSTANTS
  MaxLines = 4
  MaxFlips = 11
INVARIANTS
  RightLines
  CountsPresses
  LedOffAtEnd
PROPERTIES
  StopsAfterSigint
CHECK_DEADLOCK FALSE
