------------------------------ MODULE Catalog ------------------------------
(***************************************************************************)
(* The catalog (catalog/system_catalog.cpp over catalog/oid_manager.cpp)   *)
(* as the engine drives it: databases and tables, the system tables that   *)
(* describe them, the files they live in, statistics, shutdown, crash and  *)
(* reopening with recovery.                                                *)
(*                                                                         *)
(* A system table is the set of its rows, in the buffer pool (meta) and in *)
(* its file (saved): system pages are neither logged nor evicted, so only  *)
(* a full flush saves them.  A user table is the number of its rows, seen  *)
(* through the buffer pool (data) and in its file (files, which a flush    *)
(* writes).  An operation that throws before it has changed anything is no *)
(* step.                                                                   *)
(*                                                                         *)
(* After a crash the next oid goes back to that of the last shutdown.  The *)
(* model follows the engine up to the first oid given out while still in   *)
(* use (collided), where the maps keyed by oid stop meaning anything, and  *)
(* only CREATE and the change of database after a crash that undid DDL.    *)
(* It ends with a recovery that does not give a table its rows back        *)
(* (damaged).  Which recoveries these are is a matter of the table's pages *)
(* and so left to TableHeap, whose gaps they are; here any may be one.     *)
(***************************************************************************)
EXTENDS Integers, FiniteSets, Functions

CONSTANTS
  UserDb,      \* names of databases clients create
  UserTable,   \* names of tables clients create
  Droppable,   \* names clients pass to DROP
  MaxOids,     \* bound on the oids given out
  MaxRows      \* bound on the rows inserted into a table

ASSUME CatalogBounds == MaxOids \in Nat \ {0} /\ MaxRows \in Nat

INVALID_OID == -1
PRESERVED_OID == 10000
SYSTEM_DATABASE_OID == 1
TABLE_META_OID == 501
DATABASE_META_OID == 502
STATISTIC_META_OID == 503
SYSTEM_DATABASE_NAME == "system"
DEFAULT_DATABASE_NAME == "huadb"
INVALID_CARDINALITY == -1
NoName == "none"

\* CreateSystemTables and LoadSystemTables create the same three tables.
SystemTable ==
  [huadb_table |-> TABLE_META_OID, huadb_database |-> DATABASE_META_OID,
   huadb_statistic |-> STATISTIC_META_OID]

TableName == DOMAIN SystemTable \cup UserTable
DbName == {SYSTEM_DATABASE_NAME, DEFAULT_DATABASE_NAME} \cup UserDb

\* OidManager::GetEntryPrefix keeps the names of tables and databases apart.
Key == ({"TABLE"} \X TableName) \cup ({"DATABASE"} \X DbName)

\* Clients' names are apart from the engine's own.
ASSUME NameAssumption ==
  /\ UserTable \cap (DOMAIN SystemTable \cup {NoName}) = {}
  /\ UserDb \cap {SYSTEM_DATABASE_NAME, DEFAULT_DATABASE_NAME, NoName} = {}

Oid == {SYSTEM_DATABASE_OID} \cup Range(SystemTable)
         \cup PRESERVED_OID .. PRESERVED_OID + MaxOids - 1

VARIABLES
  name2oid_, oid2name_, next_oid_,       \* the oid manager
  oid2table_,                            \* loaded tables, with their db_oid_
  current_database_oid_,                 \* of the catalog
  current_db_,                           \* of the engine
  table2cardinality_, col2distinct_,     \* statistics the optimizer reads
  meta,                                  \* rows of the system tables
  saved,                                 \* ... in their files
  data,                                  \* rows of the user tables
  files,                                 \* ... in their files, by <<db_oid, oid>>
  dirs,                                  \* directories, one per database
  logged,                                \* rows of each table the log can redo
  control,                               \* next oid in the control file
  normal_shutdown,                       \* ... and how the engine ended
  status,                                \* "up", "down", or "dead": opening throws
  committed,                             \* history: rows inserted, by oid
  ghosts,                                \* history: names a failed CREATE TABLE left
  born,                                  \* history: oids each table name has had
  lost,                                  \* history: a crash has undone DDL
  collided,                              \* history: an oid in use was given out
  damaged                                \* history: tables whose rows a recovery did not restore

memory == <<name2oid_, oid2name_, next_oid_, oid2table_, current_database_oid_, current_db_,
            table2cardinality_, col2distinct_>>
disk == <<saved, files, dirs, control, normal_shutdown>>
history == <<committed, ghosts, born, lost, collided>>
vars == <<memory, meta, data, logged, status, disk, history, damaged>>

----------------------------------------------------------------------------
(* OidManager.                                                             *)

EntryExists(key) == name2oid_[key] # INVALID_OID
OidExists(names, oid) == names[oid] # NoName

SetEntryOid(key, oid) ==
  /\ name2oid_' = [name2oid_ EXCEPT ![key] = oid]
  /\ oid2name_' = [oid2name_ EXCEPT ![oid] = key[2]]

\* An oid some object still has.
InUse(oid) ==
  \/ \E r \in meta.tables : r.oid = oid
  \/ \E r \in meta.databases : r.oid = oid

CreateEntry(key) ==
  /\ next_oid_ \in Oid
  /\ SetEntryOid(key, next_oid_)
  /\ next_oid_' = next_oid_ + 1
  /\ collided' = InUse(next_oid_)

DropEntry(key) ==
  /\ oid2name_' = [oid2name_ EXCEPT ![name2oid_[key]] = NoName]
  /\ name2oid_' = [name2oid_ EXCEPT ![key] = INVALID_OID]

----------------------------------------------------------------------------

TableRow(oid, db_oid, name, cardinality) ==
  [oid |-> oid, db_oid |-> db_oid, name |-> name, cardinality |-> cardinality]
DatabaseRow(oid, name) == [oid |-> oid, name |-> name]
StatisticRow(name, db_oid, n_distinct) ==
  [name |-> name, db_oid |-> db_oid, n_distinct |-> n_distinct]

NoMeta == [tables |-> {}, databases |-> {}, statistics |-> {}]

\* The oid manager with the system tables and the databases of rows.
LoadedNames(databases) ==
  [key \in Key |->
     IF key[1] = "TABLE"
       THEN IF key[2] \in DOMAIN SystemTable THEN SystemTable[key[2]] ELSE INVALID_OID
       ELSE IF \E r \in databases : r.name = key[2]
              THEN (CHOOSE r \in databases : r.name = key[2]).oid
              ELSE INVALID_OID]

LoadedOids(names) ==
  [oid \in Oid |->
     IF \E key \in Key : names[key] = oid THEN (CHOOSE key \in Key : names[key] = oid)[2]
                                          ELSE NoName]

SystemTables ==
  [oid \in Oid |-> IF oid \in Range(SystemTable) THEN SYSTEM_DATABASE_OID ELSE INVALID_OID]

\* CreateSystemTables of a new engine: the rows are in the buffer pool only.
NewMeta ==
  [tables |-> {TableRow(SystemTable[n], SYSTEM_DATABASE_OID, n, INVALID_CARDINALITY) :
                 n \in DOMAIN SystemTable},
   databases |-> {DatabaseRow(SYSTEM_DATABASE_OID, SYSTEM_DATABASE_NAME),
                  DatabaseRow(PRESERVED_OID, DEFAULT_DATABASE_NAME)},
   statistics |-> {}]

\* The map f with x entered as v.
Put(f, x, v) == [y \in DOMAIN f \cup {x} |-> IF y = x THEN v ELSE f[y]]

NoStatistics == [n \in TableName |-> INVALID_CARDINALITY]

Init ==
  /\ meta = NewMeta /\ saved = NoMeta
  /\ name2oid_ = LoadedNames(meta.databases)
  /\ oid2name_ = LoadedOids(name2oid_)
  /\ next_oid_ = PRESERVED_OID + 1
  /\ oid2table_ = SystemTables
  /\ current_database_oid_ = PRESERVED_OID /\ current_db_ = DEFAULT_DATABASE_NAME
  /\ table2cardinality_ = NoStatistics /\ col2distinct_ = NoStatistics
  /\ data = <<>> /\ files = <<>> /\ dirs = {SYSTEM_DATABASE_OID, PRESERVED_OID}
  /\ logged = <<>> /\ committed = <<>>
  /\ control = PRESERVED_OID /\ normal_shutdown = FALSE
  /\ status = "up"
  /\ ghosts = {} /\ born = [n \in UserTable |-> {}]
  /\ lost = FALSE /\ collided = FALSE
  /\ damaged = {}

Running == status = "up" /\ ~collided /\ damaged = {}

\* Statements other than CREATE and \c are followed up to the first crash that
\* undoes DDL.
Whole == Running /\ ~lost

DatabaseExists(name) == EntryExists(<<"DATABASE", name>>)

\* CREATE DATABASE, which throws if the name exists.
CreateDatabase(name) ==
  /\ Running /\ ~DatabaseExists(name)
  /\ CreateEntry(<<"DATABASE", name>>)
  /\ meta' = [meta EXCEPT !.databases = @ \cup {DatabaseRow(next_oid_, name)}]
  /\ dirs' = dirs \cup {next_oid_}
  /\ UNCHANGED <<oid2table_, current_database_oid_, current_db_, table2cardinality_,
                 col2distinct_, data, logged, status, saved, files, control, normal_shutdown,
                 committed, ghosts, born, lost, damaged>>

\* DROP DATABASE of a database that is not the current one: its rows and its
\* directory with the files in it.  Its tables are not loaded.
DropDatabase(name) ==
  LET db_oid == name2oid_[<<"DATABASE", name>>] IN
  /\ Whole /\ name # current_db_ /\ DatabaseExists(name) /\ db_oid # current_database_oid_
  /\ meta' = [meta EXCEPT !.tables = {r \in @ : r.db_oid # db_oid},
                          !.databases = {r \in @ : r.oid # db_oid}]
  /\ DropEntry(<<"DATABASE", name>>)
  /\ dirs' = dirs \ {db_oid}
  /\ files' = Restrict(files, {p \in DOMAIN files : p[1] # db_oid})
  /\ data' = Restrict(data, {p \in DOMAIN data : p[1] # db_oid})
  /\ UNCHANGED <<next_oid_, oid2table_, current_database_oid_, current_db_, table2cardinality_,
                 col2distinct_, logged, status, saved, control, normal_shutdown, history, damaged>>

\* CREATE TABLE.  The name is entered before the table is known to be
\* possible: in the system database, and where the directory is missing and
\* the file cannot be created, the statement throws and leaves a ghost.
CreateTable(name) ==
  LET db_oid == current_database_oid_
      place == <<db_oid, next_oid_>>
      refused == (next_oid_ > PRESERVED_OID /\ db_oid = SYSTEM_DATABASE_OID) \/ db_oid \notin dirs
  IN
  /\ Running /\ ~EntryExists(<<"TABLE", name>>)
  /\ CreateEntry(<<"TABLE", name>>)
  /\ IF refused
       THEN /\ ghosts' = ghosts \cup {name}
            /\ UNCHANGED <<oid2table_, meta, data, files, committed, born>>
       ELSE /\ oid2table_' = [oid2table_ EXCEPT ![next_oid_] = db_oid]
            /\ meta' = [meta EXCEPT !.tables =
                          @ \cup {TableRow(next_oid_, db_oid, name, INVALID_CARDINALITY)}]
            /\ data' = Put(data, place, 0)
            /\ files' = Put(files, place, 0)
            /\ committed' = Put(committed, next_oid_, 0)
            /\ born' = [born EXCEPT ![name] = @ \cup {next_oid_}]
            /\ UNCHANGED ghosts
  /\ UNCHANGED <<current_database_oid_, current_db_, table2cardinality_, col2distinct_, logged,
                 status, saved, dirs, control, normal_shutdown, lost, damaged>>

\* Mutant of Unload: the loaded table is kept.
UnloadNothing(oid) == UNCHANGED oid2table_

Unload(oid) == oid2table_' = [oid2table_ EXCEPT ![oid] = INVALID_OID]

\* Mutant of DropTable: the row is found by the table's name.
DropTableByName(name) ==
  LET oid == name2oid_[<<"TABLE", name>>]
      place == <<current_database_oid_, oid>>
      rows == {r \in meta.tables : r.name = name}
  IN
  /\ Whole /\ current_database_oid_ # SYSTEM_DATABASE_OID /\ EntryExists(<<"TABLE", name>>)
  /\ files' = Restrict(files, DOMAIN files \ {place})
  /\ data' = Restrict(data, DOMAIN data \ {place})
  /\ Unload(oid)
  /\ DropEntry(<<"TABLE", name>>)
  /\ IF rows = {} \/ oid = TABLE_META_OID
       THEN UNCHANGED meta
       ELSE \E r \in rows : meta' = [meta EXCEPT !.tables = @ \ {r}]
  /\ UNCHANGED <<next_oid_, current_database_oid_, current_db_, table2cardinality_,
                 col2distinct_, logged, status, saved, dirs, control, normal_shutdown, history, damaged>>

\* DROP TABLE: the file, the loaded table, the name, and last the row of
\* table_meta with the table's oid; without such a row, or without table_meta,
\* the statement throws at that point.
DropTable(name) ==
  LET oid == name2oid_[<<"TABLE", name>>]
      place == <<current_database_oid_, oid>>
      rows == {r \in meta.tables : r.oid = oid}
  IN
  /\ Whole /\ current_database_oid_ # SYSTEM_DATABASE_OID /\ EntryExists(<<"TABLE", name>>)
  /\ files' = Restrict(files, DOMAIN files \ {place})
  /\ data' = Restrict(data, DOMAIN data \ {place})
  /\ Unload(oid)
  /\ DropEntry(<<"TABLE", name>>)
  /\ IF rows = {} \/ oid = TABLE_META_OID
       THEN UNCHANGED meta
       ELSE \E r \in rows : meta' = [meta EXCEPT !.tables = @ \ {r}]
  /\ UNCHANGED <<next_oid_, current_database_oid_, current_db_, table2cardinality_,
                 col2distinct_, logged, status, saved, dirs, control, normal_shutdown, history, damaged>>

----------------------------------------------------------------------------
(* Changing the database.                                                  *)

\* The tables ExitDatabase unloads.
Leaving ==
  IF current_database_oid_ = SYSTEM_DATABASE_OID
    THEN {}
    ELSE {oid \in Oid : oid > PRESERVED_OID /\ oid2table_[oid] # INVALID_OID}

LeftKeys == {<<"TABLE", oid2name_[oid]>> : oid \in Leaving}

\* Mutant of ExitNames: the tables' names are kept.
ExitNamesKept == name2oid_

ExitNames == [key \in Key |-> IF key \in LeftKeys THEN INVALID_OID ELSE name2oid_[key]]
ExitOids ==
  [oid \in Oid |-> IF \E key \in LeftKeys : name2oid_[key] = oid THEN NoName ELSE oid2name_[oid]]
ExitTables == [oid \in Oid |-> IF oid \in Leaving THEN INVALID_OID ELSE oid2table_[oid]]

RowsOf(m, db_oid) == {r \in m.tables : r.db_oid = db_oid}
Unopenable(m, db_oid) == {r \in RowsOf(m, db_oid) : <<db_oid, r.oid>> \notin DOMAIN files}

\* LoadTableMeta of the rows entered, of which loaded have a file, on top of
\* the maps a database leaves behind; the cardinalities of the tables loaded.
LoadTableMeta(names, oids, tables, entered, loaded) ==
  /\ name2oid_' = [key \in Key |->
       IF key[1] = "TABLE" /\ \E r \in entered : r.name = key[2]
         THEN (CHOOSE r \in entered : r.name = key[2]).oid ELSE names[key]]
  /\ oid2name_' = [oid \in Oid |->
       IF \E r \in entered : r.oid = oid THEN (CHOOSE r \in entered : r.oid = oid).name
                                         ELSE oids[oid]]
  /\ oid2table_' = [oid \in Oid |->
       IF \E r \in loaded : r.oid = oid THEN (CHOOSE r \in loaded : r.oid = oid).db_oid
                                        ELSE tables[oid]]

LoadCardinalities(old, loaded) ==
  [n \in TableName |->
     IF \E r \in loaded : r.name = n THEN (CHOOSE r \in loaded : r.name = n).cardinality
                                     ELSE old[n]]

LoadStatistics(old, m, db_oid) ==
  [n \in TableName |->
     IF \E r \in m.statistics : r.db_oid = db_oid /\ r.name = n
       THEN (CHOOSE r \in m.statistics : r.db_oid = db_oid /\ r.name = n).n_distinct
       ELSE old[n]]

\* Mutant of SetCurrent: the system database, whose tables are always loaded,
\* is entered without being made current.
SetCurrentUnlessSystem(db_oid) ==
  current_database_oid_' = IF db_oid = SYSTEM_DATABASE_OID THEN current_database_oid_ ELSE db_oid

SetCurrent(db_oid) == current_database_oid_' = db_oid

\* DatabaseEngine::ChangeDatabase to another database than the engine's
\* current one.  The catalog has changed its current database before it loads
\* the tables; a table without its file makes it throw, after the tables that
\* the scan met before, and the engine keeps its current database.
ChangeDatabase(name) ==
  LET db_oid == name2oid_[<<"DATABASE", name>>]
      rows == RowsOf(meta, db_oid)
      missing == Unopenable(meta, db_oid)
  IN
  /\ Running /\ name # current_db_ /\ DatabaseExists(name)
  /\ SetCurrent(db_oid)
  /\ IF db_oid = current_database_oid_
       THEN /\ current_db_' = name
            /\ UNCHANGED <<name2oid_, oid2name_, oid2table_, table2cardinality_, col2distinct_,
                           files>>
       ELSE
       /\ files' = IF current_database_oid_ = SYSTEM_DATABASE_OID THEN files ELSE data
       /\ \/ /\ db_oid = SYSTEM_DATABASE_OID
             /\ LoadTableMeta(ExitNames, ExitOids, ExitTables, {}, {})
             /\ current_db_' = name
             /\ UNCHANGED <<table2cardinality_, col2distinct_>>
          \/ /\ db_oid # SYSTEM_DATABASE_OID /\ missing = {}
             /\ LoadTableMeta(ExitNames, ExitOids, ExitTables, rows, rows)
             /\ table2cardinality_' = LoadCardinalities(table2cardinality_, rows)
             /\ col2distinct_' = LoadStatistics(col2distinct_, meta, db_oid)
             /\ current_db_' = name
          \/ \E bad \in missing, done \in SUBSET (rows \ missing) :
               /\ db_oid # SYSTEM_DATABASE_OID
               /\ LoadTableMeta(ExitNames, ExitOids, ExitTables, done \cup {bad}, done)
               /\ table2cardinality_' = LoadCardinalities(table2cardinality_, done)
               /\ UNCHANGED <<col2distinct_, current_db_>>
  /\ UNCHANGED <<next_oid_, meta, data, logged, status, saved, dirs, control, normal_shutdown,
                 history, damaged>>

----------------------------------------------------------------------------
(* Rows and statistics.                                                    *)

\* A table the binder resolves by name.
Loaded(name) ==
  EntryExists(<<"TABLE", name>>) /\ oid2table_[name2oid_[<<"TABLE", name>>]] # INVALID_OID

\* A committed INSERT of one row, as the log and the buffer pool see it.
Insert(name) ==
  LET oid == name2oid_[<<"TABLE", name>>]
      place == <<oid2table_[oid], oid>>
  IN
  /\ Whole /\ Loaded(name) /\ committed[oid] < MaxRows
  /\ data' = [data EXCEPT ![place] = @ + 1]
  /\ logged' = Put(logged, oid, data[place] + 1)
  /\ committed' = [committed EXCEPT ![oid] = @ + 1]
  /\ UNCHANGED <<memory, meta, status, disk, ghosts, born, lost, collided, damaged>>

\* The row of a table of the current database in table_meta.
RowOf(name) == {r \in meta.tables : r.db_oid = current_database_oid_ /\ r.name = name}

\* Mutant of SetCardinality: the row is updated, the map is not.
SetCardinalityRowOnly(name, cardinality) == UNCHANGED table2cardinality_

\* SetCardinality and SetDistinct: the maps, and the rows they update in place
\* or, for a column without statistics, add.
SetCardinality(name, cardinality) ==
  table2cardinality_' = [table2cardinality_ EXCEPT ![name] = cardinality]

CardinalityRows(name, cardinality) ==
  (meta.tables \ RowOf(name)) \cup {[r EXCEPT !.cardinality = cardinality] : r \in RowOf(name)}

SetDistinct(name, distinct) ==
  col2distinct_' = [col2distinct_ EXCEPT ![name] = distinct]

DistinctRows(name, distinct) ==
  {r \in meta.statistics : ~(r.db_oid = current_database_oid_ /\ r.name = name)}
    \cup {StatisticRow(name, current_database_oid_, distinct)}

\* ANALYZE of a table with one column whose values are distinct.  ANALYZE
\* without a table does this for each table of the current database.
Analyze(name) ==
  LET oid == name2oid_[<<"TABLE", name>>]
      count == data[<<oid2table_[oid], oid>>]
  IN
  /\ Whole /\ Loaded(name) /\ RowOf(name) # {}
  /\ SetCardinality(name, count)
  /\ SetDistinct(name, count)
  /\ meta' = [meta EXCEPT !.tables = CardinalityRows(name, count),
                          !.statistics = DistinctRows(name, count)]
  /\ UNCHANGED <<name2oid_, oid2name_, next_oid_, oid2table_, current_database_oid_, current_db_,
                 data, logged, status, disk, history, damaged>>

----------------------------------------------------------------------------
(* Shutdown, crash and start.                                              *)

\* The shell's flush command: every page, those of the system tables too.
Flush ==
  /\ Whole
  /\ files' = data /\ saved' = meta
  /\ UNCHANGED <<memory, meta, data, logged, status, dirs, control, normal_shutdown, history, damaged>>

\* The process is gone, and with it what it had in memory.
Gone ==
  /\ status' = "down"
  /\ name2oid_' = LoadedNames({}) /\ oid2name_' = LoadedOids(name2oid_')
  /\ oid2table_' = SystemTables /\ next_oid_' = PRESERVED_OID
  /\ current_database_oid_' = INVALID_OID /\ current_db_' = NoName
  /\ table2cardinality_' = NoStatistics /\ col2distinct_' = NoStatistics
  /\ meta' = NoMeta
  /\ data' = files'

\* Mutant of CloseDatabase: the control file keeps the oid it was opened with.
CloseDatabaseOldOid ==
  /\ Whole
  /\ files' = data /\ saved' = meta
  /\ logged' = <<>>
  /\ normal_shutdown' = TRUE
  /\ Gone
  /\ UNCHANGED <<control, dirs, history, damaged>>

\* CloseDatabase: flush, checkpoint with nothing dirty, control file.
CloseDatabase ==
  /\ Whole
  /\ files' = data /\ saved' = meta
  /\ logged' = <<>>
  /\ control' = next_oid_ /\ normal_shutdown' = TRUE
  /\ Gone
  /\ UNCHANGED <<dirs, history, damaged>>

Identity(m) == {<<r.oid, r.db_oid, r.name>> : r \in m.tables}

\* The process dies.  DDL since the last shutdown is lost, or half lost: files
\* are created and removed at once, rows are saved by a flush, the next oid by
\* CloseDatabase only.
Crash ==
  /\ Running
  /\ lost' = (lost \/ Identity(saved) # Identity(meta) \/ saved.databases # meta.databases
                   \/ control # next_oid_)
  /\ UNCHANGED <<logged, disk, committed, ghosts, born, collided, damaged>>
  /\ Gone

\* Mutant of DatabaseOid: every table is in the current database.
DatabaseOidCurrent(tables, db_oid, oid) == db_oid

\* SystemCatalog::GetDatabaseOid in an engine that has just loaded tables: a
\* loaded table is in the current database, another one where its row says.
DatabaseOid(tables, db_oid, oid) ==
  IF tables[oid] # INVALID_OID THEN db_oid
  ELSE IF \E r \in saved.tables : r.oid = oid
    THEN (CHOOSE r \in saved.tables : r.oid = oid).db_oid
    ELSE INVALID_OID

\* Redo looks up the page of every record: it throws if the table has no row,
\* or if the file is gone or still empty.
RedoThrows(tables, db_oid) ==
  \E oid \in DOMAIN logged :
    LET place == <<DatabaseOid(tables, db_oid, oid), oid>>
    IN  place \notin DOMAIN files \/ files[place] = 0

\* The Redo of a log record does nothing unless the oid manager knows the oid.
\* A NewPageLog then leaves its page out, and a record of that page reads past
\* the end of the file: that depends on where the rows not in the file went.
RedoMayThrow(tables, db_oid, oids) ==
  \E oid \in DOMAIN logged :
    LET place == <<DatabaseOid(tables, db_oid, oid), oid>>
    IN  ~OidExists(oids, oid) /\ place \in DOMAIN files /\ files[place] < logged[oid]

Redoable(oids) == {oid \in DOMAIN logged : OidExists(oids, oid)}

\* Mutant of Redone: no table is redone.
RedoneNothing(oids, garbled) == files

\* The rows after redo: those of the log, except where garbled says otherwise.
Redone(oids, garbled) ==
  [p \in DOMAIN files |->
     IF p[2] \in DOMAIN garbled THEN garbled[p[2]]
     ELSE IF p[2] \in Redoable(oids) THEN logged[p[2]] ELSE files[p]]

\* LogManager::Recover.  Tables it redoes may come out wrong: redo sets no page
\* lsn and adds once more what it added before (table_page.cpp:121), it passes
\* over the records of a page it has itself pushed out (log_manager.cpp:176,
\* 462), and it links a page to itself if the link to it is in the file already
\* (new_page_log.cpp:67).
Recover(oids) ==
  /\ damaged' \in SUBSET Redoable(oids)
  /\ \E garbled \in [damaged' -> 0 .. 2 * MaxRows] : data' = Redone(oids, garbled)

\* DatabaseEngine::DatabaseEngine over existing files: LoadSystemTables, which
\* enters the default database, and recovery after anything but a shutdown.
Open ==
  LET names == LoadedNames(saved.databases)
      db_oid == names[<<"DATABASE", DEFAULT_DATABASE_NAME>>]
      rows == RowsOf(saved, db_oid)
      dies == status' = "dead" /\ data' = files /\ UNCHANGED damaged
  IN
  /\ status = "down"
  /\ next_oid_' = control /\ normal_shutdown' = FALSE
  /\ meta' = saved
  /\ ghosts' = {}
  /\ current_database_oid_' = db_oid /\ current_db_' = DEFAULT_DATABASE_NAME
  /\ LoadTableMeta(names, LoadedOids(names), SystemTables, rows, rows)
  /\ table2cardinality_' = LoadCardinalities(NoStatistics, rows)
  /\ col2distinct_' = LoadStatistics(NoStatistics, saved, db_oid)
  /\ IF \/ db_oid = INVALID_OID
        \/ Unopenable(saved, db_oid) # {}
        \/ SYSTEM_DATABASE_OID \notin dirs
        \/ ~normal_shutdown /\ RedoThrows(oid2table_', db_oid)
       THEN dies
       ELSE \/ ~normal_shutdown /\ RedoMayThrow(oid2table_', db_oid, oid2name_') /\ dies
            \/ ~normal_shutdown /\ status' = "up" /\ Recover(oid2name_')
            \/ normal_shutdown /\ status' = "up" /\ data' = files /\ UNCHANGED damaged
  /\ UNCHANGED <<logged, saved, files, dirs, control, committed, born, lost, collided>>

Next ==
  \/ \E name \in UserDb : CreateDatabase(name)
  \/ \E name \in DbName \cap Droppable : DropDatabase(name)
  \/ \E name \in DbName : ChangeDatabase(name)
  \/ \E name \in UserTable : CreateTable(name) \/ Insert(name) \/ Analyze(name)
  \/ \E name \in TableName \cap Droppable : DropTable(name)
  \/ Flush \/ CloseDatabase \/ Crash \/ Open

Spec == Init /\ [][Next]_vars

----------------------------------------------------------------------------

\* The maps are over the known names and oids, and every user table that is
\* loaded has its file.
TypeOK ==
  /\ name2oid_ \in [Key -> Oid \cup {INVALID_OID}]
  /\ oid2table_ \in [Oid -> Oid \cup {INVALID_OID}]
  /\ status \in {"up", "down", "dead"} /\ DOMAIN data = DOMAIN files
  /\ status = "up" /\ ~collided =>
       \A oid \in Oid : oid > PRESERVED_OID /\ oid2table_[oid] # INVALID_OID =>
         <<oid2table_[oid], oid>> \in DOMAIN data

Sound == status = "up" /\ ~lost /\ ~collided

\* Whatever was created, dropped, left, entered, shut down and reopened, a name
\* resolves to a table exactly if table_meta has it in the current database,
\* and then to that table; a name resolves to a database exactly if
\* database_meta has it.  Names that a refused CREATE TABLE left are excepted.
CatalogExact ==
  Sound =>
    /\ \A n \in UserTable \ ghosts, oid \in Oid :
         name2oid_[<<"TABLE", n>>] = oid <=>
           /\ \E r \in meta.tables :
                r.oid = oid /\ r.db_oid = current_database_oid_ /\ r.name = n
           /\ oid2table_[oid] = current_database_oid_ /\ oid2name_[oid] = n
    /\ \A n \in DbName, oid \in Oid :
         name2oid_[<<"DATABASE", n>>] = oid <=> DatabaseRow(oid, n) \in meta.databases

\* No oid is given out while a table or a database has it, through shutdowns
\* and crashes, unless a crash has undone DDL.
OidsFresh == collided => lost

\* The engine's current database, which it compares with to skip a change and
\* to refuse a drop, is the one the catalog creates and looks up tables in.
CurrentAgrees ==
  Sound => name2oid_[<<"DATABASE", current_db_>>] = current_database_oid_

\* Names, oids, loaded tables and the current database agree with the rows of
\* the system tables and with each other.
CatalogInv == TypeOK /\ CatalogExact /\ CurrentAgrees

\* Each table of every database has its own file and each file is some
\* table's: no drop in one database touches a table of the same name in
\* another, and none leaves anything behind.
FilesMatchRows ==
  Sound =>
    DOMAIN files = {<<r.db_oid, r.oid>> : r \in {r \in meta.tables : r.oid > PRESERVED_OID}}

\* For a name that has meant one table only, the statistics the optimizer reads
\* are those ANALYZE last wrote to the system tables, through every change of
\* database and restart.
StatisticsExact ==
  Sound =>
    \A n \in UserTable \ ghosts : \A r \in meta.tables :
      r.name = n /\ r.db_oid = current_database_oid_ /\ born[n] = {r.oid} =>
        /\ table2cardinality_[n] = r.cardinality
        /\ LET rows == {s \in meta.statistics : s.name = n /\ s.db_oid = r.db_oid}
           IN  IF rows = {} THEN col2distinct_[n] = INVALID_CARDINALITY
                            ELSE \E s \in rows : rows = {s} /\ col2distinct_[n] = s.n_distinct

\* A committed row of a table of the default database is there, and once only,
\* through every change of database, shutdown, crash and recovery, up to the
\* first recovery that redoes the pages of a table wrongly (TableHeap.gaps);
\* after that one it holds for the tables it does not so damage.
CommittedRowsSurvive ==
  Sound =>
    \A r \in RowsOf(meta, PRESERVED_OID) :
      r.oid \notin damaged => data[<<PRESERVED_OID, r.oid>>] = committed[r.oid]

\* A crash that loses no DDL leaves a database that opens again, unless a table
\* with log records was dropped, or got its first page, since the last
\* shutdown, or is in another database and not all of its rows are in its file.
OpensAfterCrash ==
  status = "dead" /\ ~lost /\ ~collided =>
    \E oid \in DOMAIN logged :
      \/ ~\E r \in saved.tables : r.oid = oid
      \/ \E p \in DOMAIN files :
           p[2] = oid /\ (files[p] = 0 \/ (p[1] # PRESERVED_OID /\ files[p] < logged[oid]))

\* Redo recovers the committed rows of every table that has not been dropped:
\* "a missing oid means that the table has been dropped" (insert_log.cpp:84).
RedoReachesAllTables ==
  Sound =>
    \A r \in meta.tables :
      r.oid > PRESERVED_OID /\ r.oid \notin damaged =>
        data[<<r.db_oid, r.oid>>] = committed[r.oid]
============================================================================
