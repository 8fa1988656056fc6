CONSTANTS
  MaxXid = 3
  MaxCid = 2
  MaxRows = 4
  InitRows = 1
  Kinds = {"insert", "delete", "update", "for_update", "select", "share"}
  LockModes = {"S", "X"}
  Table = {t1}
  NoLock = NoLock
SPECIFICATION Spec
INVARIANTS
  MvccInv
  ReadCommittedExact
  SnapshotExact
PROPERTIES
  WritesAreExclusive
CHECK_DEADLOCK FALSE
