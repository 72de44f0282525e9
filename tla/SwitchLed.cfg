SPECIFICATION FairSpec
CONSTANTS
  MaxEdges = 4
INVARIANTS
  FlagHasOwner
  NoDoubleArm
  NoGhostToggle
  QuietAfterRemove
PROPERTIES
  HeldIsSeen
CHECK_DEADLOCK FALSE
