CONSTANTS
  Items = {p, q, r, s}
  Null = null
  Lent = lent
  Names = {a}
  MaxStrings = 2
  MaxShared = 1
  Budgets = {1, 3}
  CircularLimit = 2
  MaxLength = 2
SPECIFICATION Spec
INVARIANTS ListShape StringsOwned NothingLost NoDangling
PROPERTIES KeepsItsLists
SYMMETRY Swaps
CHECK_DEADLOCK FALSE
