CONSTANTS
  MaxXid = 2
  MaxCid = 1
  Table = {t1}
  Rid = {r1}
  NoLock = NoLock
SPECIFICATION Spec
INVARIANTS
  TypeOK
  LocksOfActiveOnly
  SnapshotsSeparate
PROPERTIES
  LockUntilEnd
  LocksRefine
  XidNotReused
CHECK_DEADLOCK FALSE
