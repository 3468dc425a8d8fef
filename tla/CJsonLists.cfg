CONSTANTS
  Items = {p, q, r, s, t, u}
  Null = null
  Lent = lent
  Names = {a}
  MaxStrings = 2
  MaxShared = 1
  Budgets = {9}
  CircularLimit = 2
  MaxLength = 3
SPECIFICATION CopySpec
INVARIANTS CopyIsEqual
PROPERTIES KeepsItsLists
SYMMETRY Swaps
CONSTRAINT FewItems
CHECK_DEADLOCK FALSE
