CONSTANTS
  Objects = {x, y}
  Values = {0, 1}
  Blocks = {p, q}
  Garbage = garbage
  M = 1
  MaxRank = 3
  Lists <- MCLists
  Failing = {TRUE}
SPECIFICATION Spec
INVARIANT StorageOwned
SYMMETRY Symmetry
