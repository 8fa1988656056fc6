CONSTANTS
  Capacity = 2
  MaxPage = 1
  MaxXid = 2
  MaxLsn = 6
SPECIFICATION Spec
PROPERTIES
  RecoveryExact
CHECK_DEADLOCK FALSE
