SPECIFICATION Spec
CONSTANTS
  Columns <- MCColumns
  Strings <- MCStrings
  Settings <- MCSettings
  MaxInt = 2
  StableUpTo = 2
  MaxRows = 2
INVARIANTS
  TypeOK AnswerExact MergeAgrees OptimizerKeepsAnswer ModificationExact StoredTyped BatchExact
CHECK_DEADLOCK FALSE
