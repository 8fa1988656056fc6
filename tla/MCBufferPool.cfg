CONSTANTS
  BUFFER_SIZE = 2
  RegularPage = {p1, p2, p3}
  SystemPage = {s1}
  InitPages = {}
  MaxVersion = 1
SPECIFICATION Spec
SYMMETRY RegularSymmetry
INVARIANTS
  PoolInv
PROPERTIES
  ImplementsPageStore
CHECK_DEADLOCK FALSE
