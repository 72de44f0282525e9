SPECIFICATION FairShmSpec
CONSTANTS
  Writers = {a, b, c}
  NoOne = NoOne
INVARIANTS
  OneLocker
PROPERTIES
  EveryoneEnters
CHECK_DEADLOCK FALSE
