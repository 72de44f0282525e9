SPECIFICATION FairSpec
CONSTANTS
  Tries = 2
  MaxKills = 2
  MaxObj = 4
INVARIANTS
  SameObject
  OneInside
  NobodyGivesUp
PROPERTIES
  UserServed
CHECK_DEADLOCK FALSE
