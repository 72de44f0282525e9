SPECIFICATION ShmSpec
CONSTANTS
  Writers = {a, b, c}
  NoOne = NoOne
SYMMETRY Symmetry
INVARIANTS
  Exclusive
CHECK_DEADLOCK FALSE
