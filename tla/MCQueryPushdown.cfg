SPECIFICATION Spec
CONSTANTS
  Columns <- MCColumns
  Strings <- MCStrings
  Settings <- MCSettings
  MaxInt = 2
  StableUpTo = 2
  MaxRows = 2
INVARIANTS
  PredicatesKept
CHECK_DEADLOCK FALSE
