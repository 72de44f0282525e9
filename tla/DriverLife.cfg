SPECIFICATION Spec
INVARIANTS
  NothingLeft
  UsesWhatItHolds
  ReleasesOnlyHeld
  AddedOnce
CHECK_DEADLOCK FALSE
