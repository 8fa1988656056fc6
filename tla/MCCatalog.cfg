CONSTANTS
  UserDb = {"d"}
  UserTable = {"t"}
  Droppable = {"d", "t"}
  MaxOids = 4
  MaxRows = 2
SPECIFICATION Spec
INVARIANTS
  CatalogInv
  OidsFresh
  FilesMatchRows
  StatisticsExact
  CommittedRowsSurvive
  OpensAfterCrash
CHECK_DEADLOCK FALSE
