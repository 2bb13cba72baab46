SPECIFICATION Spec
CONSTANTS
  VecSize = 3
  VecFixed = 1
  Vectors = {v1, v2}
  Elems = {1, 2}
  Raw = Raw
  ListSize = 3
  ListFixed = 1
  Lists = {l1, l2}
  Values = {1, 2}
  NoValue = 0
  NODE_COUNT = 3
  Keys = {1, 2, 3, 4}
  Mapped = {0, 1}
  Default = 0
  HashOf <- HashDef
  WORD = 64
  MaxId = 5
  Bases = {0, 2}
  Longs = {1, 2, 5}
  CHUNKS = 4
SYMMETRY Symmetry
INVARIANTS  ListSound MapSound ForeachSound PoolWhole
CHECK_DEADLOCK FALSE
