CONSTANTS
  Xid = {x1, x2, x3}
  Table = {t1}
  Rid = {r1}
  NoLock = NoLock
SPECIFICATION Spec
SYMMETRY Symmetry
INVARIANTS
  TypeOK
  GrantedStaysRecorded
  GrantedCompatible
  TableLockCoversRows
