CONSTANTS
  Capacity = 2
  MaxPage = 1
  MaxXid = 2
  MaxLsn = 6
SPECIFICATION Spec
INVARIANTS
  HeapInv
  CommittedVisible
CHECK_DEADLOCK FALSE
