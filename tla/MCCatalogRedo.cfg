CONSTANTS
  UserDb = {"d"}
  UserTable = {"t"}
  Droppable = {"d", "t"}
  MaxOids = 4
  MaxRows = 2
SPECIFICATION Spec
INVARIANTS
  RedoReachesAllTables
CHECK_DEADLOCK FALSE
