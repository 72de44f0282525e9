SPECIFICATION Spec
CONSTANTS
  Callbacks = {f, g}
  NoCallback = NoCallback
  Threads = {1, 2}
  MaxCreate = 3
INVARIANTS
  RightCallback
CHECK_DEADLOCK FALSE
