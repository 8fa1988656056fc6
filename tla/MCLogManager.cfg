CONSTANTS
  MaxLsn = 5
  MaxXid = 2
  MaxPage = 1
SPECIFICATION Spec
INVARIANTS
  LogInv
  RollbackVisitsAll
  WriteAhead
  RedoCovers
PROPERTIES
  CommitSurvives
  RecoverFindsLosers
CHECK_DEADLOCK FALSE
