--------------------------- MODULE CatalogProofs ---------------------------
(***************************************************************************)
(* Proofs about Catalog for any databases, tables, oids and rows, through  *)
(* any sequence of statements, shutdowns and crashes.                      *)
(*                                                                         *)
(* The argument: an oid below next_oid_ is never given out again, so the   *)
(* rows of the system tables have different oids (Shape, Below) and every  *)
(* map keyed by oid speaks of one object.  A row of the current database   *)
(* is loaded under its name, a name leads to a row of the current database *)
(* or, left by a refused CREATE TABLE, to none (NamesExact).  A crash that *)
(* loses no DDL has left the same rows, files and next oid on disk, from   *)
(* which Open restores the maps (OnDisk).                                  *)
(***************************************************************************)
EXTENDS Catalog, TLAPS

----------------------------------------------------------------------------
(* The inductive invariant.                                                *)

Cardinal == Nat \cup {INVALID_CARDINALITY}

Meta ==
  [tables : SUBSET [oid : Oid, db_oid : Oid, name : TableName, cardinality : Cardinal],
   databases : SUBSET [oid : Oid, name : DbName],
   statistics : SUBSET [name : TableName, db_oid : Oid, n_distinct : Cardinal]]

NextOid == PRESERVED_OID .. PRESERVED_OID + MaxOids

\* f counts the rows of the elements of S.
Counts(f, S) == f \in [DOMAIN f -> Nat] /\ DOMAIN f \subseteq S

\* The state keeps its types.
Typed ==
  /\ name2oid_ \in [Key -> Oid \cup {INVALID_OID}]
  /\ oid2name_ \in [Oid -> TableName \cup DbName \cup {NoName}]
  /\ next_oid_ \in NextOid /\ control \in NextOid
  /\ oid2table_ \in [Oid -> Oid \cup {INVALID_OID}]
  /\ current_database_oid_ \in Oid \cup {INVALID_OID}
  /\ current_db_ \in DbName \cup {NoName}
  /\ table2cardinality_ \in [TableName -> Cardinal]
  /\ col2distinct_ \in [TableName -> Cardinal]
  /\ meta \in Meta /\ saved \in Meta
  /\ Counts(data, Oid \X Oid) /\ Counts(files, Oid \X Oid)
  /\ Counts(logged, Oid) /\ Counts(committed, Oid)
  /\ normal_shutdown \in BOOLEAN /\ lost \in BOOLEAN /\ collided \in BOOLEAN
  /\ status \in {"up", "down", "dead"}
  /\ ghosts \subseteq UserTable
  /\ born \in [UserTable -> SUBSET Oid]

\* The rows of the system tables m are keyed as the catalog takes them to be,
\* and those of user tables are apart from its own.
Shape(m) ==
  /\ \A q, r \in m.tables : q.oid = r.oid => q = r
  /\ \A q, r \in m.tables : q.db_oid = r.db_oid /\ q.name = r.name => q = r
  /\ \A q, r \in m.databases : q.name = r.name => q = r
  /\ \A q, r \in m.databases : q.oid = r.oid => q = r
  /\ \A q \in m.tables, r \in m.databases : q.oid # r.oid
  /\ \A r \in m.tables :
       IF r.oid > PRESERVED_OID
         THEN r.db_oid # SYSTEM_DATABASE_OID /\ r.name \in UserTable
         ELSE r.db_oid = SYSTEM_DATABASE_OID /\ r.name \notin UserTable

\* The oids of m are used up when next is the next one.
Below(m, next) ==
  /\ next > PRESERVED_OID
  /\ \A r \in m.tables : r.oid < next
  /\ \A r \in m.databases : r.oid < next

UserRows(m) == {r \in m.tables : r.oid > PRESERVED_OID}

FilesOf(m) == DOMAIN files = {<<r.db_oid, r.oid>> : r \in UserRows(m)}

\* Statistics are those of a table that was created under the name; while it is
\* the only one of the name, they are filed under its database.
StatRows(m) ==
  /\ \A r \in UserRows(m) : r.oid \in born[r.name]
  /\ \A s \in m.statistics : s.name \in UserTable /\ born[s.name] # {}
  /\ \A s \in m.statistics, r \in UserRows(m) :
       s.name = r.name /\ born[r.name] = {r.oid} => s.db_oid = r.db_oid
  /\ \A s, t \in m.statistics : s.name = t.name /\ s.db_oid = t.db_oid => s = t

\* The log, or the file, has every committed row of the tables of the default
\* database, and next is above every oid that has a history.
Durable(m, next) ==
  /\ \A r \in UserRows(m) : r.oid \in DOMAIN committed
  /\ \A r \in RowsOf(m, PRESERVED_OID) :
       IF r.oid \in DOMAIN logged
         THEN logged[r.oid] = committed[r.oid]
         ELSE files[<<PRESERVED_OID, r.oid>>] = committed[r.oid]
  /\ \A oid \in DOMAIN logged : PRESERVED_OID < oid /\ oid < next
  /\ \A n \in UserTable : \A oid \in born[n] : oid < next

\* The default and the system database are there unless they may be dropped.
HomeSafe == {DEFAULT_DATABASE_NAME, SYSTEM_DATABASE_NAME} \cap Droppable = {}
Home(m) ==
  HomeSafe => /\ SYSTEM_DATABASE_OID \in dirs
              /\ DatabaseRow(SYSTEM_DATABASE_OID, SYSTEM_DATABASE_NAME) \in m.databases
              /\ \E r \in m.databases : r.name = DEFAULT_DATABASE_NAME

\* What the disk holds at any time.
SavedOK ==
  /\ Shape(saved) /\ StatRows(saved)
  /\ normal_shutdown => status = "down" /\ logged = <<>>
  /\ \A r \in meta.databases \cup saved.databases :
       r.name = DEFAULT_DATABASE_NAME => r.oid = PRESERVED_OID
  /\ DOMAIN data = DOMAIN files
  /\ collided => lost /\ status = "up"

\* After a crash or a shutdown that has lost no DDL, the disk has it all.
OnDisk ==
  status = "down" /\ ~lost =>
    Below(saved, control) /\ FilesOf(saved) /\ Durable(saved, control) /\ Home(saved)

\* Loaded user tables are those of the current database, which is not the
\* system's, and have a file; an oid that was the default database's is still.
LoadedOK ==
  status = "up" /\ ~collided =>
    /\ \A oid \in Oid : oid > PRESERVED_OID /\ oid2table_[oid] # INVALID_OID =>
         /\ oid2table_[oid] = current_database_oid_
         /\ current_database_oid_ # SYSTEM_DATABASE_OID
         /\ <<current_database_oid_, oid>> \in DOMAIN data
    /\ next_oid_ > PRESERVED_OID \/ \E r \in meta.databases : r.oid = PRESERVED_OID
    /\ current_database_oid_ \in Oid

TableOid(n) == name2oid_[<<"TABLE", n>>]
DatabaseOidOf(n) == name2oid_[<<"DATABASE", n>>]

\* Rows of the current database are loaded under their names; a name leads to
\* no row or to one of the current database; what is loaded has a row.
NamesExact ==
  /\ current_db_ \in DbName /\ DatabaseOidOf(current_db_) = current_database_oid_
  /\ \A n \in DbName, oid \in Oid :
       DatabaseOidOf(n) = oid <=> DatabaseRow(oid, n) \in meta.databases
  /\ \A r \in UserRows(meta) : r.db_oid = current_database_oid_ =>
       /\ TableOid(r.name) = r.oid
       /\ oid2table_[r.oid] = current_database_oid_
       /\ oid2name_[r.oid] = r.name
  /\ \A n \in UserTable : TableOid(n) # INVALID_OID =>
       /\ PRESERVED_OID < TableOid(n) /\ TableOid(n) < next_oid_
       /\ \A r \in meta.tables : r.oid = TableOid(n) =>
            r.db_oid = current_database_oid_ /\ r.name = n
       /\ n \notin ghosts => \E r \in meta.tables : r.oid = TableOid(n)
  /\ \A oid \in Oid : oid > PRESERVED_OID /\ oid2table_[oid] # INVALID_OID =>
       \E r \in meta.tables : r.oid = oid
  /\ \A n \in TableName \ UserTable : TableOid(n) < PRESERVED_OID

\* The cached statistics of a name that has meant one table only.
StatsExact ==
  /\ \A r \in UserRows(meta) : r.db_oid = current_database_oid_ /\ born[r.name] = {r.oid} =>
       table2cardinality_[r.name] = r.cardinality
  /\ \A n \in UserTable : born[n] = {} => table2cardinality_[n] = INVALID_CARDINALITY
  /\ \A n \in UserTable : (\A s \in meta.statistics : s.name # n) =>
       col2distinct_[n] = INVALID_CARDINALITY
  /\ \A s \in meta.statistics, r \in UserRows(meta) :
       /\ s.name = r.name /\ born[r.name] = {r.oid}
       /\ s.db_oid = current_database_oid_ /\ r.db_oid = current_database_oid_
       => col2distinct_[s.name] = s.n_distinct

\* While no crash has lost DDL, memory and disk agree with the rows.
SoundOK ==
  Sound =>
    /\ Shape(meta) /\ Below(meta, next_oid_) /\ FilesOf(meta) /\ Durable(meta, next_oid_)
    /\ Home(meta) /\ StatRows(meta) /\ NamesExact /\ StatsExact /\ CommittedRowsSurvive
    /\ \A r \in saved.tables : r.oid < next_oid_

Inv == Typed /\ SavedOK /\ OnDisk /\ LoadedOK /\ SoundOK /\ (HomeSafe => OpensAfterCrash)

----------------------------------------------------------------------------
(* The constants, and the operators on functions.                          *)

LEMMA SystemNames ==
  /\ DOMAIN SystemTable = {"huadb_table", "huadb_database", "huadb_statistic"}
  /\ SystemTable["huadb_table"] = 501 /\ SystemTable["huadb_database"] = 502
  /\ SystemTable["huadb_statistic"] = 503
  /\ Range(SystemTable) = {501, 502, 503}
<1>1. /\ DOMAIN SystemTable = {"huadb_table", "huadb_database", "huadb_statistic"}
      /\ SystemTable["huadb_table"] = 501 /\ SystemTable["huadb_database"] = 502
      /\ SystemTable["huadb_statistic"] = 503
  BY DEF SystemTable, TABLE_META_OID, DATABASE_META_OID, STATISTIC_META_OID
<1>2. Range(SystemTable) = {501, 502, 503}
  BY <1>1 DEF Range
<1> QED BY <1>1, <1>2

LEMMA Oids ==
  /\ MaxOids \in Nat \ {0}
  /\ \A oid \in Oid : oid \in Nat /\ oid < PRESERVED_OID + MaxOids
                      /\ (oid \in {1, 501, 502, 503} \/ oid >= PRESERVED_OID)
  /\ {1, 501, 502, 503, PRESERVED_OID} \subseteq Oid
  /\ \A oid \in NextOid : oid \in Nat /\ oid >= PRESERVED_OID
                          /\ (oid < PRESERVED_OID + MaxOids <=> oid \in Oid)
  /\ INVALID_OID \notin Oid
BY CatalogBounds, SystemNames DEF Oid, NextOid, PRESERVED_OID, INVALID_OID, SYSTEM_DATABASE_OID

LEMMA Names ==
  /\ UserTable \subseteq TableName /\ UserDb \subseteq DbName
  /\ DOMAIN SystemTable \subseteq TableName
  /\ \A n \in TableName : n \in UserTable <=> n \notin DOMAIN SystemTable
  /\ SYSTEM_DATABASE_NAME \in DbName /\ DEFAULT_DATABASE_NAME \in DbName
  /\ \A n \in UserDb : n # SYSTEM_DATABASE_NAME /\ n # DEFAULT_DATABASE_NAME
  /\ NoName \notin TableName /\ NoName \notin DbName
  /\ SYSTEM_DATABASE_NAME # DEFAULT_DATABASE_NAME
BY NameAssumption, SystemNames
   DEF TableName, DbName, SYSTEM_DATABASE_NAME, DEFAULT_DATABASE_NAME, NoName

LEMMA Keys ==
  /\ \A n \in TableName : <<"TABLE", n>> \in Key
  /\ \A n \in DbName : <<"DATABASE", n>> \in Key
  /\ \A k \in Key : \/ k[1] = "TABLE" /\ k[2] \in TableName /\ k = <<"TABLE", k[2]>>
                    \/ k[1] = "DATABASE" /\ k[2] \in DbName /\ k = <<"DATABASE", k[2]>>
  /\ \A m, n : <<"TABLE", m>> # <<"DATABASE", n>>
BY DEF Key

\* A function with one more argument.
LEMMA Extended ==
  ASSUME NEW S, NEW f, Counts(f, S), NEW x \in S, NEW v \in Nat
  PROVE  /\ Counts(Put(f, x, v), S)
         /\ DOMAIN Put(f, x, v) = DOMAIN f \cup {x}
         /\ Put(f, x, v)[x] = v
         /\ \A y \in DOMAIN f : y # x => Put(f, x, v)[y] = f[y]
BY DEF Put, Counts

\* A function with fewer.
LEMMA Restricted ==
  ASSUME NEW S, NEW f, Counts(f, S), NEW T, T \subseteq DOMAIN f
  PROVE  /\ Counts(Restrict(f, T), S)
         /\ DOMAIN Restrict(f, T) = T
         /\ \A y \in T : Restrict(f, T)[y] = f[y]
BY DEF Counts, Restrict

\* The rows of the system tables.
LEMMA MetaRows ==
  ASSUME NEW m \in Meta
  PROVE  /\ \A r \in m.tables : /\ r \in [oid : Oid, db_oid : Oid, name : TableName,
                                          cardinality : Cardinal]
                                /\ r.oid \in Oid /\ r.db_oid \in Oid /\ r.name \in TableName
                                /\ r.oid \in Nat /\ r.cardinality \in Cardinal
         /\ \A r \in m.databases : /\ r.oid \in Oid /\ r.name \in DbName /\ r.oid \in Nat
                                   /\ r = DatabaseRow(r.oid, r.name)
         /\ \A s \in m.statistics : s.name \in TableName /\ s.db_oid \in Oid
                                    /\ s.n_distinct \in Cardinal
BY Oids DEF Meta, DatabaseRow

\* A row of the user tables in a set of rows with the right shape.
LEMMA UserRow ==
  ASSUME NEW m \in Meta, Shape(m), NEW r \in m.tables
  PROVE  /\ r \in UserRows(m) <=> r.oid > PRESERVED_OID
         /\ r \in UserRows(m) <=> r.name \in UserTable
         /\ r \in UserRows(m) <=> r.db_oid # SYSTEM_DATABASE_OID
BY MetaRows DEF Shape, UserRows

LEMMA NewMetaTyped == NewMeta \in Meta /\ NoMeta \in Meta
<1>1. ASSUME NEW n \in DOMAIN SystemTable
      PROVE  TableRow(SystemTable[n], SYSTEM_DATABASE_OID, n, INVALID_CARDINALITY)
               \in [oid : Oid, db_oid : Oid, name : TableName, cardinality : Cardinal]
  BY SystemNames, Oids, Names DEF TableRow, SYSTEM_DATABASE_OID, Cardinal
<1>2. DatabaseRow(SYSTEM_DATABASE_OID, SYSTEM_DATABASE_NAME) \in [oid : Oid, name : DbName]
  BY Oids, Names DEF DatabaseRow, SYSTEM_DATABASE_OID
<1>3. DatabaseRow(PRESERVED_OID, DEFAULT_DATABASE_NAME) \in [oid : Oid, name : DbName]
  BY Oids, Names DEF DatabaseRow
<1> QED BY <1>1, <1>2, <1>3 DEF NewMeta, NoMeta, Meta

\* What LoadedNames, LoadedOids and SystemTables hold.
LEMMA LoadedTyped ==
  ASSUME NEW D \in SUBSET [oid : Oid, name : DbName]
  PROVE  /\ LoadedNames(D) \in [Key -> Oid \cup {INVALID_OID}]
         /\ \A n \in UserTable : LoadedNames(D)[<<"TABLE", n>>] = INVALID_OID
         /\ \A n \in TableName \ UserTable : LoadedNames(D)[<<"TABLE", n>>] < PRESERVED_OID
         /\ \A n \in DbName :
              \/ \E r \in D : r.name = n /\ LoadedNames(D)[<<"DATABASE", n>>] = r.oid
              \/ (\A r \in D : r.name # n) /\ LoadedNames(D)[<<"DATABASE", n>>] = INVALID_OID
<1> DEFINE Value(key) ==
      IF key[1] = "TABLE"
        THEN IF key[2] \in DOMAIN SystemTable THEN SystemTable[key[2]] ELSE INVALID_OID
        ELSE IF \E r \in D : r.name = key[2] THEN (CHOOSE r \in D : r.name = key[2]).oid
                                             ELSE INVALID_OID
<1>0. LoadedNames(D) = [key \in Key |-> Value(key)]
  BY DEF LoadedNames
<1>1. \A n \in DOMAIN SystemTable : SystemTable[n] \in Oid
  BY SystemNames, Oids
<1>2. ASSUME NEW key \in Key PROVE Value(key) \in Oid \cup {INVALID_OID}
  BY <1>1
<1>3. ASSUME NEW n \in UserTable PROVE Value(<<"TABLE", n>>) = INVALID_OID
  BY Names
<1>4. ASSUME NEW n \in TableName \ UserTable PROVE Value(<<"TABLE", n>>) < PRESERVED_OID
  <2>1. Value(<<"TABLE", n>>) = SystemTable[n]
    BY Names
  <2>2. SystemTable[n] \in {501, 502, 503}
    BY Names, SystemNames
  <2> QED BY <2>1, <2>2 DEF PRESERVED_OID
<1>5. ASSUME NEW n \in DbName
      PROVE  \/ \E r \in D : r.name = n /\ Value(<<"DATABASE", n>>) = r.oid
             \/ (\A r \in D : r.name # n) /\ Value(<<"DATABASE", n>>) = INVALID_OID
  <2>1. Value(<<"DATABASE", n>>) = IF \E r \in D : r.name = n
                                     THEN (CHOOSE r \in D : r.name = n).oid ELSE INVALID_OID
    OBVIOUS
  <2> HIDE DEF Value
  <2> QED BY <2>1
<1> HIDE DEF Value
<1> QED BY <1>0, <1>2, <1>3, <1>4, <1>5, Keys, Names

LEMMA LoadedOidsTyped ==
  ASSUME NEW names \in [Key -> Oid \cup {INVALID_OID}]
  PROVE  LoadedOids(names) \in [Oid -> TableName \cup DbName \cup {NoName}]
<1>1. ASSUME NEW oid \in Oid, \E key \in Key : names[key] = oid
      PROVE  (CHOOSE key \in Key : names[key] = oid)[2] \in TableName \cup DbName
  <2>1. (CHOOSE key \in Key : names[key] = oid) \in Key
    BY <1>1
  <2> QED BY <2>1, Keys
<1> QED BY <1>1 DEF LoadedOids

LEMMA SystemTablesTyped ==
  /\ SystemTables \in [Oid -> Oid \cup {INVALID_OID}]
  /\ \A oid \in Oid : oid >= PRESERVED_OID => SystemTables[oid] = INVALID_OID
BY SystemNames, Oids DEF SystemTables, SYSTEM_DATABASE_OID, PRESERVED_OID

LEMMA NoStatisticsTyped ==
  /\ NoStatistics \in [TableName -> Cardinal]
  /\ \A n \in TableName : NoStatistics[n] = INVALID_CARDINALITY
BY DEF NoStatistics, Cardinal

----------------------------------------------------------------------------
(* The initial state.                                                      *)

\* The map without entries.
LEMMA NoCounts ==
  ASSUME NEW S PROVE Counts(<<>>, S) /\ DOMAIN <<>> = {}
BY DEF Counts

LEMMA InitInv ==
  ASSUME Init PROVE Inv
<1> DEFINE S == DatabaseRow(SYSTEM_DATABASE_OID, SYSTEM_DATABASE_NAME)
           H == DatabaseRow(PRESERVED_OID, DEFAULT_DATABASE_NAME)
<1>1. meta.databases = {S, H} /\ meta.statistics = {} /\ meta = NewMeta
  BY DEF Init, NewMeta
<1>2. ASSUME NEW r \in meta.tables
      PROVE  \E n \in DOMAIN SystemTable :
               r.oid = SystemTable[n] /\ r.name = n /\ r.db_oid = SYSTEM_DATABASE_OID
                 /\ r = TableRow(SystemTable[n], SYSTEM_DATABASE_OID, n, INVALID_CARDINALITY)
  BY <1>1 DEF NewMeta, TableRow
<1>3. /\ S.oid = SYSTEM_DATABASE_OID /\ S.name = SYSTEM_DATABASE_NAME
      /\ H.oid = PRESERVED_OID /\ H.name = DEFAULT_DATABASE_NAME
  BY DEF DatabaseRow
<1>4. /\ \A n \in DOMAIN SystemTable : SystemTable[n] \in {501, 502, 503}
      /\ \A m, n \in DOMAIN SystemTable : SystemTable[m] = SystemTable[n] => m = n
  BY SystemNames
<1>5. meta \in Meta /\ saved \in Meta
  BY NewMetaTyped DEF Init
<1>6. {S, H} \in SUBSET [oid : Oid, name : DbName]
  BY <1>1, <1>5 DEF Meta
<1>7. /\ name2oid_ \in [Key -> Oid \cup {INVALID_OID}]
      /\ \A n \in UserTable : name2oid_[<<"TABLE", n>>] = INVALID_OID
      /\ \A n \in TableName \ UserTable : name2oid_[<<"TABLE", n>>] < PRESERVED_OID
      /\ \A n \in DbName :
           \/ \E r \in {S, H} : r.name = n /\ name2oid_[<<"DATABASE", n>>] = r.oid
           \/ (\A r \in {S, H} : r.name # n) /\ name2oid_[<<"DATABASE", n>>] = INVALID_OID
  BY <1>1, <1>6, LoadedTyped DEF Init
<1> HIDE DEF S, H
<1>8. Typed
  <2>1. oid2name_ \in [Oid -> TableName \cup DbName \cup {NoName}]
    BY <1>7, LoadedOidsTyped DEF Init
  <2>2. next_oid_ \in NextOid /\ control \in NextOid /\ PRESERVED_OID \in Oid
    BY Oids DEF Init, NextOid, PRESERVED_OID
  <2>3. /\ Counts(data, Oid \X Oid) /\ Counts(files, Oid \X Oid)
        /\ Counts(logged, Oid) /\ Counts(committed, Oid)
    BY NoCounts DEF Init
  <2>4. born \in [UserTable -> SUBSET Oid]
    BY DEF Init
  <2> QED BY <1>5, <1>7, <2>1, <2>2, <2>3, <2>4, SystemTablesTyped, NoStatisticsTyped, Names
          DEF Typed, Init
<1>9. Shape(meta)
  <2>1. \A q, r \in meta.tables : q.oid = r.oid => q = r
    BY <1>2, <1>4
  <2>2. \A q, r \in meta.tables : q.name = r.name => q = r
    BY <1>2
  <2>3. \A r \in meta.tables : r.oid \in {501, 502, 503} /\ r.db_oid = SYSTEM_DATABASE_OID
                               /\ r.name \notin UserTable
    BY <1>2, <1>4, Names
  <2>4. \A q \in meta.tables, r \in meta.databases : q.oid # r.oid
    BY <2>3, <1>1, <1>3 DEF PRESERVED_OID, SYSTEM_DATABASE_OID
  <2>5. \A r \in meta.tables : ~(r.oid > PRESERVED_OID)
    BY <2>3 DEF PRESERVED_OID
  <2>6. /\ \A q, r \in meta.databases : q.name = r.name => q = r
        /\ \A q, r \in meta.databases : q.oid = r.oid => q = r
    BY <1>1, <1>3, Names DEF PRESERVED_OID, SYSTEM_DATABASE_OID
  <2> QED BY <2>1, <2>2, <2>3, <2>4, <2>5, <2>6 DEF Shape
<1>10. UserRows(meta) = {} /\ RowsOf(meta, PRESERVED_OID) = {}
  BY <1>2, <1>4 DEF UserRows, RowsOf, PRESERVED_OID, SYSTEM_DATABASE_OID
<1>11. saved.tables = {} /\ saved.databases = {} /\ saved.statistics = {} /\ UserRows(saved) = {}
  BY DEF Init, NoMeta, UserRows
<1>12. SavedOK
  BY <1>1, <1>3, <1>11, Names DEF SavedOK, Shape, StatRows, Init
<1>13. LoadedOK
  BY SystemTablesTyped, Oids DEF LoadedOK, Init, PRESERVED_OID
<1>14. Below(meta, next_oid_)
  BY <1>1, <1>2, <1>3, <1>4 DEF Below, Init, PRESERVED_OID, SYSTEM_DATABASE_OID
<1>15. FilesOf(meta) /\ Durable(meta, next_oid_) /\ StatRows(meta) /\ CommittedRowsSurvive
  BY <1>1, <1>10 DEF FilesOf, Durable, StatRows, CommittedRowsSurvive, Init
<1>16. Home(meta)
  BY <1>1, <1>3 DEF Home, Init, S
<1>17. NamesExact
  <2>1. \A n \in DbName, oid \in Oid : DatabaseRow(oid, n) \in meta.databases <=>
          \/ oid = SYSTEM_DATABASE_OID /\ n = SYSTEM_DATABASE_NAME
          \/ oid = PRESERVED_OID /\ n = DEFAULT_DATABASE_NAME
    BY <1>1 DEF S, H, DatabaseRow
  <2>2. \A n \in DbName :
          name2oid_[<<"DATABASE", n>>] = IF n = SYSTEM_DATABASE_NAME THEN SYSTEM_DATABASE_OID
                                         ELSE IF n = DEFAULT_DATABASE_NAME THEN PRESERVED_OID
                                         ELSE INVALID_OID
    BY <1>3, <1>7, Names
  <2>3. \A oid \in Oid : oid # INVALID_OID
    BY Oids
  <2>4. \A n \in DbName, oid \in Oid :
          DatabaseOidOf(n) = oid <=> DatabaseRow(oid, n) \in meta.databases
    BY <2>1, <2>2, <2>3, Names DEF DatabaseOidOf
  <2>5. current_db_ \in DbName /\ DatabaseOidOf(current_db_) = current_database_oid_
    BY <2>2, Names DEF DatabaseOidOf, Init
  <2>6. \A oid \in Oid : oid > PRESERVED_OID => oid2table_[oid] = INVALID_OID
    BY SystemTablesTyped, Oids DEF Init, PRESERVED_OID
  <2> QED BY <1>7, <1>10, <2>4, <2>5, <2>6 DEF NamesExact, TableOid
<1>18. StatsExact
  BY <1>1, <1>10, NoStatisticsTyped, Names DEF StatsExact, Init
<1>19. SoundOK
  BY <1>9, <1>11, <1>14, <1>15, <1>16, <1>17, <1>18 DEF SoundOK
<1> QED BY <1>8, <1>12, <1>13, <1>19 DEF Inv, OnDisk, OpensAfterCrash, Init

----------------------------------------------------------------------------
(* What the parts of the invariant give, for the steps.                    *)

LEMMA Types ==
  ASSUME Inv
  PROVE  /\ Typed /\ SavedOK /\ LoadedOK /\ meta \in Meta /\ saved \in Meta
         /\ \A n \in TableName : TableOid(n) \in Oid \cup {INVALID_OID}
         /\ \A n \in DbName : DatabaseOidOf(n) \in Oid \cup {INVALID_OID}
         /\ \A oid \in Oid : oid \in Nat /\ oid # INVALID_OID
         /\ next_oid_ \in Nat
         /\ \A oid \in DOMAIN logged : oid \in Nat
         /\ \A n \in UserTable : \A oid \in born[n] : oid \in Nat
<1>1. Typed /\ SavedOK /\ LoadedOK
  BY DEF Inv
<1> QED BY <1>1, Oids, Keys DEF Typed, TableOid, DatabaseOidOf, Counts

LEMMA SoundParts ==
  ASSUME Inv, Sound
  PROVE  /\ Shape(meta) /\ Below(meta, next_oid_) /\ FilesOf(meta) /\ Durable(meta, next_oid_)
         /\ Home(meta) /\ StatRows(meta) /\ NamesExact /\ StatsExact /\ CommittedRowsSurvive
         /\ \A r \in saved.tables : r.oid < next_oid_ /\ r.oid \in Nat
         /\ \A r \in meta.tables : /\ r.oid \in Nat /\ r.oid < next_oid_ /\ r.oid \in Oid
                                   /\ r.db_oid \in Oid /\ r.name \in TableName
         /\ \A r \in meta.databases : r.oid \in Nat /\ r.oid < next_oid_
         /\ current_database_oid_ \in Oid
<1>1. Typed /\ LoadedOK /\ SoundOK
  BY DEF Inv
<1>2. meta \in Meta /\ saved \in Meta
  BY <1>1 DEF Typed
<1> QED BY <1>1, <1>2, MetaRows DEF SoundOK, Below, LoadedOK, Sound

----------------------------------------------------------------------------
(* CREATE.                                                                 *)

\* A step of a running engine is neither on disk only nor a failed Open.
LEMMA StaysUp ==
  ASSUME status' = "up"
  PROVE  OnDisk' /\ (HomeSafe => OpensAfterCrash)'
BY DEF OnDisk, OpensAfterCrash

\* A new entry gets the next oid, which is free unless DDL was lost.
LEMMA CreateEntryEffect ==
  ASSUME Inv, status = "up", ~collided, NEW key \in Key, CreateEntry(key)
  PROVE  /\ next_oid_ \in Oid /\ next_oid_ \in Nat /\ next_oid_ >= PRESERVED_OID
         /\ next_oid_' = next_oid_ + 1 /\ next_oid_' \in NextOid
         /\ name2oid_' \in [Key -> Oid \cup {INVALID_OID}]
         /\ \A k \in Key : name2oid_'[k] = IF k = key THEN next_oid_ ELSE name2oid_[k]
         /\ oid2name_' \in [Oid -> TableName \cup DbName \cup {NoName}]
         /\ \A oid \in Oid : oid2name_'[oid] = IF oid = next_oid_ THEN key[2] ELSE oid2name_[oid]
         /\ collided' \in BOOLEAN
         /\ ~lost => ~collided'
         /\ next_oid_ = PRESERVED_OID => collided'
<1>1. next_oid_ \in Oid /\ next_oid_ \in NextOid /\ next_oid_ \in Nat
  BY Oids DEF CreateEntry, Inv, Typed
<1>2. next_oid_' = next_oid_ + 1 /\ next_oid_' \in NextOid /\ next_oid_ >= PRESERVED_OID
  BY <1>1, Oids DEF CreateEntry, NextOid, PRESERVED_OID
<1>3. /\ name2oid_' \in [Key -> Oid \cup {INVALID_OID}]
      /\ \A k \in Key : name2oid_'[k] = IF k = key THEN next_oid_ ELSE name2oid_[k]
  BY <1>1 DEF CreateEntry, SetEntryOid, Inv, Typed
<1>4. key[2] \in TableName \cup DbName
  BY Keys
<1>5. /\ oid2name_' \in [Oid -> TableName \cup DbName \cup {NoName}]
      /\ \A oid \in Oid : oid2name_'[oid] = IF oid = next_oid_ THEN key[2] ELSE oid2name_[oid]
  BY <1>1, <1>4 DEF CreateEntry, SetEntryOid, Inv, Typed
<1>6. collided' = InUse(next_oid_)
  BY DEF CreateEntry
<1>7. ASSUME ~lost PROVE ~InUse(next_oid_)
  <2>1. Below(meta, next_oid_)
    BY <1>7 DEF Inv, SoundOK, Sound
  <2>2. meta \in Meta
    BY DEF Inv, Typed
  <2> QED BY <2>1, <2>2, <1>1, MetaRows DEF Below, InUse
<1>8. ASSUME next_oid_ = PRESERVED_OID PROVE InUse(next_oid_)
  <2>1. \E r \in meta.databases : r.oid = PRESERVED_OID
    BY <1>1, <1>8 DEF Inv, LoadedOK, PRESERVED_OID
  <2> QED BY <1>8, <2>1 DEF InUse
<1> QED BY <1>1, <1>2, <1>3, <1>5, <1>6, <1>7, <1>8 DEF InUse

LEMMA CreateDatabaseStep ==
  ASSUME Inv, NEW name \in UserDb, CreateDatabase(name)
  PROVE  Inv'
<1> DEFINE key == <<"DATABASE", name>>
           row == DatabaseRow(next_oid_, name)
<1>1. /\ status = "up" /\ ~collided /\ damaged = {} /\ DatabaseOidOf(name) = INVALID_OID
      /\ CreateEntry(key)
      /\ meta' = [meta EXCEPT !.databases = @ \cup {row}]
      /\ dirs' = dirs \cup {next_oid_}
      /\ UNCHANGED <<oid2table_, current_database_oid_, current_db_, table2cardinality_,
                     col2distinct_, data, logged, status, saved, files, control,
                     normal_shutdown, committed, ghosts, born, lost, damaged>>
  BY DEF CreateDatabase, Running, DatabaseExists, EntryExists, DatabaseOidOf
<1>2. name \in DbName /\ key \in Key /\ name # DEFAULT_DATABASE_NAME
  BY Names, Keys
<1>3. /\ next_oid_ \in Oid /\ next_oid_ \in Nat /\ next_oid_ >= PRESERVED_OID
      /\ next_oid_' = next_oid_ + 1 /\ next_oid_' \in NextOid
      /\ name2oid_' \in [Key -> Oid \cup {INVALID_OID}]
      /\ \A k \in Key : name2oid_'[k] = IF k = key THEN next_oid_ ELSE name2oid_[k]
      /\ oid2name_' \in [Oid -> TableName \cup DbName \cup {NoName}]
      /\ \A oid \in Oid : oid2name_'[oid] = IF oid = next_oid_ THEN name ELSE oid2name_[oid]
      /\ collided' \in BOOLEAN
      /\ ~lost => ~collided'
  BY <1>1, <1>2, CreateEntryEffect
<1>4. Typed /\ meta \in Meta /\ SavedOK /\ LoadedOK
  BY DEF Inv, Typed
<1>5. row \in [oid : Oid, name : DbName] /\ row.oid = next_oid_ /\ row.name = name
  BY <1>2, <1>3 DEF DatabaseRow
<1>6. /\ meta' \in Meta /\ meta'.tables = meta.tables /\ meta'.statistics = meta.statistics
      /\ meta'.databases = meta.databases \cup {row}
  BY <1>1, <1>4, <1>5 DEF Meta
<1> HIDE DEF row, key
<1>7. Typed'
  BY <1>1, <1>3, <1>4, <1>6 DEF Typed, Counts
<1>8. SavedOK'
  <2>1. Shape(saved)' /\ StatRows(saved)'
    BY <1>1, <1>4 DEF SavedOK, Shape, StatRows, UserRows
  <2> QED BY <2>1, <1>1, <1>2, <1>3, <1>4, <1>5, <1>6 DEF SavedOK
<1>9. LoadedOK'
  BY <1>1, <1>3, <1>4 DEF LoadedOK, PRESERVED_OID
<1>10. ASSUME Sound'
       PROVE  SoundOK'
  <2>1. /\ Shape(meta) /\ Below(meta, next_oid_) /\ FilesOf(meta) /\ Durable(meta, next_oid_)
        /\ Home(meta) /\ StatRows(meta) /\ NamesExact /\ StatsExact /\ CommittedRowsSurvive
        /\ \A r \in saved.tables : r.oid < next_oid_
    BY <1>1, <1>10 DEF Sound, Inv, SoundOK
  <2>2. /\ \A r \in meta.tables : r.oid \in Nat /\ r.oid < next_oid_ /\ r.name \in TableName
        /\ \A r \in meta.databases : r.oid \in Nat /\ r.oid < next_oid_
    BY <2>1, <1>4, MetaRows DEF Below
  <2>3. \A r \in meta.databases : r.name # name
    <3> SUFFICES ASSUME NEW r \in meta.databases, r.name = name PROVE FALSE
      OBVIOUS
    <3>1. r = DatabaseRow(r.oid, name) /\ r.oid \in Oid
      BY <1>4, MetaRows
    <3>2. DatabaseOidOf(name) = r.oid
      BY <3>1, <2>1, <1>2 DEF NamesExact
    <3> QED BY <3>1, <3>2, <1>1, Oids
  <2>4. Shape(meta)'
    BY <2>1, <2>2, <2>3, <1>3, <1>5, <1>6 DEF Shape
  <2>5. Below(meta, next_oid_)'
    BY <2>1, <2>2, <1>3, <1>5, <1>6 DEF Below, PRESERVED_OID
  <2>6. UserRows(meta)' = UserRows(meta) /\ RowsOf(meta, PRESERVED_OID)' = RowsOf(meta, PRESERVED_OID)
    BY <1>6 DEF UserRows, RowsOf
  <2>7. FilesOf(meta)' /\ StatRows(meta)' /\ Home(meta)'
    BY <2>1, <2>6, <1>1, <1>6 DEF FilesOf, StatRows, Home
  <2>8. Durable(meta, next_oid_)'
    <3>1. /\ \A oid \in DOMAIN logged : oid \in Nat
          /\ \A n \in UserTable : \A oid \in born[n] : oid \in Nat
      BY <1>4, Oids DEF Typed, Counts
    <3> QED BY <2>1, <2>6, <3>1, <1>1, <1>3 DEF Durable
  <2>9. StatsExact' /\ CommittedRowsSurvive'
    BY <2>1, <2>6, <1>1, <1>6, <1>10 DEF StatsExact, CommittedRowsSurvive, Sound
  <2>10. /\ \A n \in TableName : TableOid(n)' = TableOid(n)
         /\ \A n \in DbName :
              DatabaseOidOf(n)' = IF n = name THEN next_oid_ ELSE DatabaseOidOf(n)
    BY <1>3, Keys DEF TableOid, DatabaseOidOf, key
  <2>11. NamesExact'
    <3>1. current_db_' \in DbName /\ DatabaseOidOf(current_db_)' = current_database_oid_'
      <4>1. current_db_ \in DbName /\ DatabaseOidOf(current_db_) = current_database_oid_
            /\ current_database_oid_ \in Oid
        BY <2>1, <1>1, <1>4 DEF NamesExact, LoadedOK
      <4>2. current_db_ # name
        BY <4>1, <1>1, Oids
      <4> QED BY <4>1, <4>2, <2>10, <1>1 DEF DatabaseOidOf
    <3>2. ASSUME NEW n \in DbName, NEW oid \in Oid
          PROVE  DatabaseOidOf(n)' = oid <=> DatabaseRow(oid, n) \in meta'.databases
      <4>1. DatabaseRow(oid, n) = row <=> oid = next_oid_ /\ n = name
        BY DEF DatabaseRow, row
      <4>2. DatabaseOidOf(n) = oid <=> DatabaseRow(oid, n) \in meta.databases
        BY <2>1 DEF NamesExact
      <4>3. DatabaseOidOf(name) # oid
        BY <1>1, Oids
      <4> QED BY <4>1, <4>2, <4>3, <2>10, <1>6
    <3>3. \A r \in UserRows(meta) : r.db_oid = current_database_oid_ =>
            oid2name_'[r.oid] = oid2name_[r.oid] /\ r.name \in TableName
      BY <2>2, <1>3, <1>4, MetaRows DEF UserRows
    <3>4. \A r \in UserRows(meta)' : r.db_oid = current_database_oid_' =>
            /\ TableOid(r.name)' = r.oid
            /\ oid2table_'[r.oid] = current_database_oid_'
            /\ oid2name_'[r.oid] = r.name
      BY <2>1, <2>6, <2>10, <3>3, <1>1 DEF NamesExact
    <3>5. ASSUME NEW n \in UserTable, TableOid(n)' # INVALID_OID
          PROVE  /\ PRESERVED_OID < TableOid(n)' /\ TableOid(n)' < next_oid_'
                 /\ \A r \in meta'.tables : r.oid = TableOid(n)' =>
                      r.db_oid = current_database_oid_' /\ r.name = n
                 /\ n \notin ghosts' => \E r \in meta'.tables : r.oid = TableOid(n)'
      <4>1. TableOid(n)' = TableOid(n) /\ TableOid(n) \in Oid /\ TableOid(n) \in Nat
        BY <2>10, <3>5, <1>4, Names, Keys, Oids DEF Typed, TableOid
      <4> QED BY <4>1, <3>5, <2>1, <1>1, <1>3, <1>6 DEF NamesExact
    <3>6. \A oid \in Oid : oid > PRESERVED_OID /\ oid2table_'[oid] # INVALID_OID =>
            \E r \in meta'.tables : r.oid = oid
      BY <2>1, <1>1, <1>6 DEF NamesExact
    <3>7. \A n \in TableName \ UserTable : TableOid(n)' < PRESERVED_OID
      BY <2>1, <2>10 DEF NamesExact
    <3> QED BY <3>1, <3>2, <3>4, <3>5, <3>6, <3>7 DEF NamesExact
  <2>12. \A r \in saved'.tables : r.oid < next_oid_'
    BY <2>1, <1>1, <1>3, <1>4, MetaRows DEF Typed
  <2> QED BY <2>4, <2>5, <2>7, <2>8, <2>9, <2>11, <2>12 DEF SoundOK
<1>11. SoundOK'
  BY <1>10 DEF SoundOK
<1> QED BY <1>1, <1>7, <1>8, <1>9, <1>11, StaysUp DEF Inv

LEMMA CreateTableStep ==
  ASSUME Inv, NEW name \in UserTable, CreateTable(name)
  PROVE  Inv'
<1> DEFINE key == <<"TABLE", name>>
           cur == current_database_oid_
           place == <<cur, next_oid_>>
           row == TableRow(next_oid_, cur, name, INVALID_CARDINALITY)
           refused == (next_oid_ > PRESERVED_OID /\ cur = SYSTEM_DATABASE_OID) \/ cur \notin dirs
<1>1. /\ status = "up" /\ ~collided /\ damaged = {} /\ TableOid(name) = INVALID_OID
      /\ CreateEntry(key)
      /\ UNCHANGED <<current_database_oid_, current_db_, table2cardinality_, col2distinct_,
                     logged, status, saved, dirs, control, normal_shutdown, lost,
                     damaged>>
  BY DEF CreateTable, Running, EntryExists, TableOid
<1>2. \/ /\ ghosts' = ghosts \cup {name}
         /\ UNCHANGED <<oid2table_, meta, data, files, committed, born>>
      \/ /\ ~refused
         /\ oid2table_' = [oid2table_ EXCEPT ![next_oid_] = cur]
         /\ meta' = [meta EXCEPT !.tables = @ \cup {row}]
         /\ data' = Put(data, place, 0)
         /\ files' = Put(files, place, 0)
         /\ committed' = Put(committed, next_oid_, 0)
         /\ born' = [born EXCEPT ![name] = @ \cup {next_oid_}]
         /\ UNCHANGED ghosts
  BY DEF CreateTable
<1>3. name \in TableName /\ key \in Key
  BY Names, Keys
<1>4. /\ next_oid_ \in Oid /\ next_oid_ \in Nat /\ next_oid_ >= PRESERVED_OID
      /\ next_oid_' = next_oid_ + 1 /\ next_oid_' \in NextOid
      /\ name2oid_' \in [Key -> Oid \cup {INVALID_OID}]
      /\ \A k \in Key : name2oid_'[k] = IF k = key THEN next_oid_ ELSE name2oid_[k]
      /\ oid2name_' \in [Oid -> TableName \cup DbName \cup {NoName}]
      /\ \A oid \in Oid : oid2name_'[oid] = IF oid = next_oid_ THEN name ELSE oid2name_[oid]
      /\ collided' \in BOOLEAN
      /\ ~lost => ~collided'
      /\ next_oid_ = PRESERVED_OID => collided'
  BY <1>1, <1>3, CreateEntryEffect
<1>5. /\ \A n \in TableName : TableOid(n)' = IF n = name THEN next_oid_ ELSE TableOid(n)
      /\ \A n \in DbName : DatabaseOidOf(n)' = DatabaseOidOf(n)
  BY <1>4, Keys DEF TableOid, DatabaseOidOf
<1>6. Typed /\ meta \in Meta /\ SavedOK /\ LoadedOK /\ saved \in Meta
  BY Types
<1>7. cur \in Oid
  BY <1>1, <1>6 DEF LoadedOK
<1> HIDE DEF key
<1>8. ASSUME Sound'
      PROVE  /\ Sound
             /\ \A r \in UserRows(meta) : r.db_oid = cur => r.name # name
             /\ \A r \in meta.tables : r.db_oid = cur => r.name # name
             /\ current_db_' \in DbName /\ DatabaseOidOf(current_db_)' = current_database_oid_'
  <2>1. Sound
    BY <1>1, <1>8 DEF Sound
  <2>2. ASSUME NEW r \in UserRows(meta), r.db_oid = cur PROVE r.name # name
    <3>1. TableOid(r.name) = r.oid /\ r.oid \in Oid
      BY <2>1, <2>2, SoundParts DEF NamesExact, UserRows
    <3> QED BY <3>1, <1>1, Types
  <2>3. ASSUME NEW r \in meta.tables, r.db_oid = cur PROVE r.name # name
    BY <2>1, <2>2, <2>3, <1>6, UserRow, SoundParts
  <2>4. current_db_ \in DbName /\ DatabaseOidOf(current_db_) = cur
    BY <2>1, SoundParts DEF NamesExact
  <2>5. current_db_' = current_db_ /\ current_database_oid_' = cur
    BY <1>1
  <2>6. DatabaseOidOf(current_db_)' = DatabaseOidOf(current_db_)
    BY <2>4, <2>5, <1>5 DEF DatabaseOidOf
  <2> QED BY <2>1, <2>2, <2>3, <2>4, <2>5, <2>6
<1>9. CASE ghosts' = ghosts \cup {name} /\ UNCHANGED <<oid2table_, meta, data, files, committed, born>>
  <2>1. Typed'
    BY <1>1, <1>4, <1>6, <1>9 DEF Typed, Counts
  <2>2. SavedOK'
    BY <1>1, <1>4, <1>6, <1>9 DEF SavedOK, Shape, StatRows, UserRows
  <2>3. LoadedOK'
    BY <1>1, <1>4, <1>6, <1>9 DEF LoadedOK, PRESERVED_OID
  <2>4. ASSUME Sound' PROVE SoundOK'
    <3>1. /\ Shape(meta)' /\ FilesOf(meta)' /\ Home(meta)' /\ StatRows(meta)' /\ StatsExact'
          /\ CommittedRowsSurvive' /\ \A r \in saved'.tables : r.oid < next_oid_'
      BY <1>1, <1>4, <1>8, <1>9, <2>4, SoundParts, Types
         DEF Shape, FilesOf, Home, StatRows, StatsExact, CommittedRowsSurvive, UserRows, RowsOf
    <3>2. Below(meta, next_oid_)' /\ Durable(meta, next_oid_)'
      BY <1>1, <1>4, <1>8, <1>9, <2>4, SoundParts, Types DEF Below, Durable, UserRows, RowsOf,
         PRESERVED_OID
    <3>3. \A n \in DbName, oid \in Oid :
            DatabaseOidOf(n)' = oid <=> DatabaseRow(oid, n) \in meta'.databases
      BY <1>5, <1>8, <1>9, <2>4, SoundParts DEF NamesExact
    <3>4. ASSUME NEW r \in UserRows(meta)', r.db_oid = current_database_oid_'
          PROVE  /\ TableOid(r.name)' = r.oid
                 /\ oid2table_'[r.oid] = current_database_oid_'
                 /\ oid2name_'[r.oid] = r.name
      <4>1. r \in UserRows(meta) /\ r.db_oid = cur /\ r \in meta.tables
        BY <3>4, <1>1, <1>9 DEF UserRows
      <4>2. r.name # name /\ r.oid # next_oid_ /\ r.name \in TableName /\ r.oid \in Oid
        BY <4>1, <1>4, <1>8, <2>4, SoundParts
      <4>3. TableOid(r.name) = r.oid /\ oid2table_[r.oid] = cur /\ oid2name_[r.oid] = r.name
        BY <4>1, <1>8, <2>4, SoundParts DEF NamesExact
      <4> QED BY <4>2, <4>3, <1>1, <1>4, <1>5, <1>9
    <3>5. ASSUME NEW n \in UserTable, TableOid(n)' # INVALID_OID
          PROVE  /\ PRESERVED_OID < TableOid(n)' /\ TableOid(n)' < next_oid_'
                 /\ \A r \in meta'.tables : r.oid = TableOid(n)' =>
                      r.db_oid = current_database_oid_' /\ r.name = n
                 /\ n \notin ghosts' => \E r \in meta'.tables : r.oid = TableOid(n)'
      <4>1. CASE n = name
        <5>1. TableOid(n)' = next_oid_ /\ n \in ghosts'
          BY <4>1, <1>3, <1>5, <1>9
        <5>2. PRESERVED_OID < next_oid_ /\ \A r \in meta'.tables : r.oid # next_oid_
          BY <1>8, <1>9, <2>4, <1>4, SoundParts DEF Below
        <5> QED BY <5>1, <5>2, <1>4
      <4>2. CASE n # name
        <5>1. TableOid(n)' = TableOid(n) /\ TableOid(n) \in Nat
          BY <4>2, <3>5, <1>5, Names, Types
        <5> QED BY <5>1, <3>5, <1>1, <1>4, <1>8, <1>9, <2>4, SoundParts DEF NamesExact
      <4> QED BY <4>1, <4>2
    <3>6. \A oid \in Oid : oid > PRESERVED_OID /\ oid2table_'[oid] # INVALID_OID =>
            \E r \in meta'.tables : r.oid = oid
      BY <1>8, <1>9, <2>4, SoundParts DEF NamesExact
    <3>7. \A n \in TableName \ UserTable : TableOid(n)' < PRESERVED_OID
      BY <1>5, <1>8, <2>4, SoundParts DEF NamesExact
    <3>8. NamesExact'
      BY <1>8, <2>4, <3>3, <3>4, <3>5, <3>6, <3>7 DEF NamesExact
    <3> QED BY <3>1, <3>2, <3>8 DEF SoundOK
  <2>5. SoundOK'
    BY <2>4 DEF SoundOK
  <2> QED BY <1>1, <2>1, <2>2, <2>3, <2>5, StaysUp DEF Inv
<1>10. CASE /\ ~refused
            /\ oid2table_' = [oid2table_ EXCEPT ![next_oid_] = cur]
            /\ meta' = [meta EXCEPT !.tables = @ \cup {row}]
            /\ data' = Put(data, place, 0)
            /\ files' = Put(files, place, 0)
            /\ committed' = Put(committed, next_oid_, 0)
            /\ born' = [born EXCEPT ![name] = @ \cup {next_oid_}]
            /\ UNCHANGED ghosts
  <2>1. /\ row \in [oid : Oid, db_oid : Oid, name : TableName, cardinality : Cardinal]
        /\ row.oid = next_oid_ /\ row.db_oid = cur /\ row.name = name
        /\ row.cardinality = INVALID_CARDINALITY
    BY <1>3, <1>4, <1>7 DEF TableRow, Cardinal
  <2>2. /\ meta' \in Meta /\ meta'.tables = meta.tables \cup {row}
        /\ meta'.databases = meta.databases /\ meta'.statistics = meta.statistics
    BY <1>6, <1>10, <2>1 DEF Meta
  <2>3. place \in Oid \X Oid
    BY <1>4, <1>7
  <2>4. /\ Counts(data', Oid \X Oid) /\ DOMAIN data' = DOMAIN data \cup {place}
        /\ data'[place] = 0 /\ \A p \in DOMAIN data : p # place => data'[p] = data[p]
    <3>1. Counts(data, Oid \X Oid) /\ data' = Put(data, place, 0)
      BY <1>6, <1>10 DEF Typed
    <3> HIDE DEF place
    <3> QED BY <2>3, <3>1 DEF Put, Counts
  <2>5. /\ Counts(files', Oid \X Oid) /\ DOMAIN files' = DOMAIN files \cup {place}
        /\ files'[place] = 0 /\ \A p \in DOMAIN files : p # place => files'[p] = files[p]
    <3>1. Counts(files, Oid \X Oid) /\ files' = Put(files, place, 0)
      BY <1>6, <1>10 DEF Typed
    <3> HIDE DEF place
    <3> QED BY <2>3, <3>1 DEF Put, Counts
  <2>6. /\ Counts(committed', Oid) /\ DOMAIN committed' = DOMAIN committed \cup {next_oid_}
        /\ committed'[next_oid_] = 0
        /\ \A o \in DOMAIN committed : o # next_oid_ => committed'[o] = committed[o]
    <3>1. Counts(committed, Oid) /\ committed' = Put(committed, next_oid_, 0)
      BY <1>6, <1>10 DEF Typed
    <3> QED BY <1>4, <3>1 DEF Put, Counts
  <2>7. /\ born' \in [UserTable -> SUBSET Oid]
        /\ \A n \in UserTable : born'[n] = IF n = name THEN born[n] \cup {next_oid_} ELSE born[n]
    BY <1>4, <1>6, <1>10 DEF Typed
  <2>8. /\ oid2table_' \in [Oid -> Oid \cup {INVALID_OID}]
        /\ \A oid \in Oid : oid2table_'[oid] = IF oid = next_oid_ THEN cur ELSE oid2table_[oid]
    BY <1>4, <1>6, <1>7, <1>10 DEF Typed
  <2>9. next_oid_ > PRESERVED_OID => cur # SYSTEM_DATABASE_OID
    BY <1>10
  <2> HIDE DEF row, refused
  <2>10. Typed'
    BY <1>1, <1>4, <1>6, <1>10, <2>2, <2>4, <2>5, <2>6, <2>7, <2>8 DEF Typed, Counts
  <2>11. SavedOK'
    <3>1. Shape(saved)' /\ UserRows(saved)' = UserRows(saved)
      BY <1>1, <1>6 DEF SavedOK, Shape, UserRows
    <3>2. \A r \in UserRows(saved) : r.name \in UserTable
      BY <1>6, UserRow DEF UserRows, SavedOK
    <3>3. StatRows(saved)'
      BY <1>1, <1>6, <2>7, <3>1, <3>2 DEF SavedOK, StatRows
    <3> QED BY <1>1, <1>4, <1>6, <2>2, <2>4, <2>5, <3>1, <3>3 DEF SavedOK
  <2>12. LoadedOK'
    <3> SUFFICES ASSUME ~collided' PROVE LoadedOK'
      BY DEF LoadedOK
    <3>1. next_oid_ > PRESERVED_OID /\ cur # SYSTEM_DATABASE_OID
      BY <1>4, <2>9 DEF PRESERVED_OID
    <3>2. ASSUME NEW oid \in Oid, oid > PRESERVED_OID, oid2table_'[oid] # INVALID_OID
          PROVE  oid2table_'[oid] = cur /\ <<cur, oid>> \in DOMAIN data'
      BY <3>2, <2>4, <2>8, <1>1, <1>6 DEF LoadedOK
    <3> QED BY <1>1, <1>4, <1>7, <3>1, <3>2 DEF LoadedOK, PRESERVED_OID
  <2>13. ASSUME Sound' PROVE SoundOK'
    <3>1. /\ Shape(meta) /\ Below(meta, next_oid_) /\ FilesOf(meta)
          /\ Durable(meta, next_oid_) /\ StatRows(meta) /\ NamesExact /\ StatsExact
          /\ CommittedRowsSurvive
          /\ \A r \in meta.tables : /\ r.oid \in Nat /\ r.oid < next_oid_ /\ r.oid \in Oid
                                    /\ r.db_oid \in Oid /\ r.name \in TableName
          /\ \A r \in meta.databases : r.oid \in Nat /\ r.oid < next_oid_
      BY <1>8, <2>13, SoundParts
    <3>2. next_oid_ > PRESERVED_OID /\ cur # SYSTEM_DATABASE_OID
      BY <3>1, <2>9 DEF Below
    <3>3. \A r \in meta.tables : r.db_oid = cur => r.name # name
      BY <1>8, <2>13
    <3>4. Shape(meta)'
      <4>1. \A q, r \in meta'.tables : q.oid = r.oid => q = r
        BY <3>1, <1>4, <2>1, <2>2 DEF Shape
      <4>2. \A q, r \in meta'.tables : q.db_oid = r.db_oid /\ q.name = r.name => q = r
        BY <3>1, <3>3, <2>1, <2>2 DEF Shape
      <4>3. \A q \in meta'.tables, r \in meta'.databases : q.oid # r.oid
        BY <3>1, <1>4, <2>1, <2>2 DEF Shape
      <4> QED BY <3>1, <3>2, <4>1, <4>2, <4>3, <2>1, <2>2 DEF Shape
    <3>5. Below(meta, next_oid_)'
      BY <3>1, <1>4, <2>1, <2>2 DEF Below, PRESERVED_OID
    <3>6. UserRows(meta)' = UserRows(meta) \cup {row}
      BY <3>2, <2>1, <2>2 DEF UserRows
    <3>7. FilesOf(meta)'
      BY <3>1, <3>6, <2>1, <2>5 DEF FilesOf
    <3>8. next_oid_ \notin born[name]
      BY <3>1, <1>4, Types DEF Durable
    <3>9. \A r \in UserRows(meta) : r.name \in UserTable
      BY <3>1, <1>6, UserRow DEF UserRows
    <3>10. StatRows(meta)'
      <4>1. \A r \in UserRows(meta)' : r.oid \in born'[r.name]
        BY <3>1, <3>6, <3>9, <2>1, <2>7 DEF StatRows
      <4>2. \A s \in meta'.statistics : s.name \in UserTable /\ born'[s.name] # {}
        BY <3>1, <2>2, <2>7 DEF StatRows
      <4>3. ASSUME NEW s \in meta'.statistics, NEW r \in UserRows(meta)',
                   s.name = r.name, born'[r.name] = {r.oid}
            PROVE  s.db_oid = r.db_oid
        <5>1. CASE r = row
          <6>1. born[name] # {}
            BY <4>3, <5>1, <3>1, <2>1, <2>2 DEF StatRows
          <6> QED BY <6>1, <5>1, <4>3, <3>8, <2>1, <2>7
        <5>2. CASE r \in UserRows(meta)
          <6>1. r.oid \in born[r.name] /\ r.name \in UserTable /\ r.oid # next_oid_
            BY <5>2, <3>1, <3>9, <1>4 DEF StatRows, UserRows
          <6>2. born[r.name] = {r.oid}
            BY <6>1, <4>3, <2>7
          <6> QED BY <6>2, <4>3, <5>2, <3>1, <2>2 DEF StatRows
        <5> QED BY <5>1, <5>2, <3>6
      <4>4. \A s, t \in meta'.statistics : s.name = t.name /\ s.db_oid = t.db_oid => s = t
        BY <3>1, <2>2 DEF StatRows
      <4> QED BY <4>1, <4>2, <4>3, <4>4 DEF StatRows
    <3>11. \A r \in RowsOf(meta, PRESERVED_OID)' :
             \/ r = row /\ cur = PRESERVED_OID
             \/ r \in RowsOf(meta, PRESERVED_OID) /\ r \in UserRows(meta) /\ r.oid # next_oid_
      BY <1>4, <1>6, <3>1, <2>1, <2>2, UserRow DEF RowsOf, PRESERVED_OID, SYSTEM_DATABASE_OID
    <3>12. \A r \in RowsOf(meta, PRESERVED_OID) : r \in UserRows(meta) =>
             <<PRESERVED_OID, r.oid>> \in DOMAIN files /\ <<PRESERVED_OID, r.oid>> \in DOMAIN data
      BY <3>1, <1>6 DEF FilesOf, SavedOK, RowsOf
    <3>13. CommittedRowsSurvive'
      <4> SUFFICES ASSUME NEW r \in RowsOf(meta, PRESERVED_OID)'
                   PROVE  data'[<<PRESERVED_OID, r.oid>>] = committed'[r.oid]
        BY DEF CommittedRowsSurvive
      <4>1. CASE r = row /\ cur = PRESERVED_OID
        BY <4>1, <2>1, <2>4, <2>6
      <4>2. CASE r \in RowsOf(meta, PRESERVED_OID) /\ r \in UserRows(meta) /\ r.oid # next_oid_
        <5>1. <<PRESERVED_OID, r.oid>> # place /\ r.oid \in DOMAIN committed
          BY <4>2, <3>1 DEF Durable
        <5>2. data[<<PRESERVED_OID, r.oid>>] = committed[r.oid]
          BY <4>2, <3>1, <1>1, <1>8, <2>13 DEF CommittedRowsSurvive
        <5> QED BY <5>1, <5>2, <4>2, <3>12, <2>4, <2>6
      <4> QED BY <3>11, <4>1, <4>2
    <3>14. Durable(meta, next_oid_)'
      <4>1. \A r \in UserRows(meta)' : r.oid \in DOMAIN committed'
        BY <3>1, <3>6, <2>1, <2>6 DEF Durable
      <4>2. ASSUME NEW r \in RowsOf(meta, PRESERVED_OID)'
            PROVE  IF r.oid \in DOMAIN logged' THEN logged'[r.oid] = committed'[r.oid]
                     ELSE files'[<<PRESERVED_OID, r.oid>>] = committed'[r.oid]
        <5>1. CASE r = row /\ cur = PRESERVED_OID
          <6>1. next_oid_ \notin DOMAIN logged'
            BY <3>1, <1>1, <1>4 DEF Durable
          <6> QED BY <5>1, <6>1, <2>1, <2>5, <2>6
        <5>2. CASE r \in RowsOf(meta, PRESERVED_OID) /\ r \in UserRows(meta) /\ r.oid # next_oid_
          <6>1. <<PRESERVED_OID, r.oid>> # place /\ r.oid \in DOMAIN committed
            BY <5>2, <3>1 DEF Durable
          <6>2. IF r.oid \in DOMAIN logged THEN logged[r.oid] = committed[r.oid]
                  ELSE files[<<PRESERVED_OID, r.oid>>] = committed[r.oid]
            BY <5>2, <3>1 DEF Durable
          <6>3. logged' = logged
            BY <1>1
          <6> QED BY <6>1, <6>2, <6>3, <5>2, <3>12, <2>5, <2>6
        <5> QED BY <3>11, <5>1, <5>2
      <4>3. \A oid \in DOMAIN logged' : PRESERVED_OID < oid /\ oid < next_oid_'
        BY <3>1, <1>1, <1>4, Types DEF Durable
      <4>4. \A n \in UserTable : \A oid \in born'[n] : oid < next_oid_'
        BY <3>1, <1>4, <2>7, Types DEF Durable
      <4> QED BY <4>1, <4>2, <4>3, <4>4 DEF Durable
    <3>15. StatsExact'
      <4>1. ASSUME NEW r \in UserRows(meta)', r.db_oid = cur, born'[r.name] = {r.oid}
            PROVE  /\ table2cardinality_[r.name] = r.cardinality
                   /\ \A s \in meta'.statistics : s.name = r.name /\ s.db_oid = cur =>
                        col2distinct_[s.name] = s.n_distinct
        <5>1. CASE r = row
          <6>1. born[name] = {}
            BY <4>1, <5>1, <3>8, <2>1, <2>7
          <6> QED BY <6>1, <5>1, <3>1, <2>1, <2>2 DEF StatsExact, StatRows
        <5>2. CASE r \in UserRows(meta)
          <6>1. r.name # name /\ r.name \in UserTable
            BY <4>1, <5>2, <3>3, <3>9 DEF UserRows
          <6> QED BY <6>1, <4>1, <5>2, <3>1, <2>2, <2>7 DEF StatsExact
        <5> QED BY <5>1, <5>2, <3>6
      <4>2. \A n \in UserTable : born'[n] = {} => table2cardinality_[n] = INVALID_CARDINALITY
        BY <3>1, <2>7 DEF StatsExact
      <4>3. \A n \in UserTable : (\A s \in meta'.statistics : s.name # n) =>
              col2distinct_[n] = INVALID_CARDINALITY
        BY <3>1, <2>2 DEF StatsExact
      <4> QED BY <4>1, <4>2, <4>3, <1>1 DEF StatsExact
    <3>16. NamesExact'
      <4>1. \A n \in DbName, oid \in Oid :
              DatabaseOidOf(n)' = oid <=> DatabaseRow(oid, n) \in meta'.databases
        BY <1>5, <2>2, <3>1 DEF NamesExact
      <4>2. ASSUME NEW r \in UserRows(meta)', r.db_oid = current_database_oid_'
            PROVE  /\ TableOid(r.name)' = r.oid
                   /\ oid2table_'[r.oid] = current_database_oid_'
                   /\ oid2name_'[r.oid] = r.name
        <5>1. CASE r = row
          BY <5>1, <1>1, <1>3, <1>4, <1>5, <2>1, <2>8
        <5>2. CASE r \in UserRows(meta)
          <6>1. r.name # name /\ r.oid # next_oid_ /\ r.name \in TableName /\ r.oid \in Oid
            BY <4>2, <5>2, <3>1, <3>3, <1>1, <1>4 DEF UserRows
          <6>2. TableOid(r.name) = r.oid /\ oid2table_[r.oid] = cur /\ oid2name_[r.oid] = r.name
            BY <4>2, <5>2, <3>1, <1>1 DEF NamesExact
          <6> QED BY <6>1, <6>2, <1>1, <1>4, <1>5, <2>8
        <5> QED BY <5>1, <5>2, <3>6
      <4>3. ASSUME NEW n \in UserTable, TableOid(n)' # INVALID_OID
            PROVE  /\ PRESERVED_OID < TableOid(n)' /\ TableOid(n)' < next_oid_'
                   /\ \A r \in meta'.tables : r.oid = TableOid(n)' =>
                        r.db_oid = current_database_oid_' /\ r.name = n
                   /\ n \notin ghosts' => \E r \in meta'.tables : r.oid = TableOid(n)'
        <5>1. CASE n = name
          <6>1. TableOid(n)' = next_oid_
            BY <5>1, <1>3, <1>5
          <6>2. \A r \in meta'.tables : r.oid = next_oid_ => r = row
            BY <3>1, <1>4, <2>2
          <6> QED BY <6>1, <6>2, <5>1, <3>2, <1>1, <1>4, <2>1, <2>2
        <5>2. CASE n # name
          <6>1. TableOid(n)' = TableOid(n) /\ TableOid(n) \in Nat
            BY <5>2, <4>3, <1>5, Names, Types
          <6>2. /\ PRESERVED_OID < TableOid(n) /\ TableOid(n) < next_oid_
                /\ \A r \in meta.tables : r.oid = TableOid(n) => r.db_oid = cur /\ r.name = n
                /\ n \notin ghosts => \E r \in meta.tables : r.oid = TableOid(n)
            BY <6>1, <4>3, <3>1 DEF NamesExact
          <6> QED BY <6>1, <6>2, <1>1, <1>4, <1>10, <2>1, <2>2
        <5> QED BY <5>1, <5>2
      <4>4. \A oid \in Oid : oid > PRESERVED_OID /\ oid2table_'[oid] # INVALID_OID =>
              \E r \in meta'.tables : r.oid = oid
        BY <3>1, <2>1, <2>2, <2>8 DEF NamesExact
      <4>5. \A n \in TableName \ UserTable : TableOid(n)' < PRESERVED_OID
        BY <1>5, <3>1 DEF NamesExact
      <4> QED BY <1>8, <2>13, <4>1, <4>2, <4>3, <4>4, <4>5 DEF NamesExact
    <3>17. Home(meta)' /\ \A r \in saved'.tables : r.oid < next_oid_'
      BY <1>1, <1>4, <1>8, <2>2, <2>13, SoundParts DEF Home
    <3> QED BY <3>4, <3>5, <3>7, <3>10, <3>13, <3>14, <3>15, <3>16, <3>17 DEF SoundOK
  <2>14. SoundOK'
    BY <2>13 DEF SoundOK
  <2> QED BY <1>1, <2>10, <2>11, <2>12, <2>14, StaysUp DEF Inv
<1> QED BY <1>2, <1>9, <1>10

----------------------------------------------------------------------------
(* DROP.                                                                   *)

\* Maps and rows that only lose entries keep their shape.
LEMMA FewerRows ==
  ASSUME NEW m \in Meta, NEW k \in Meta, NEW next \in Nat,
         k.tables \subseteq m.tables, k.databases \subseteq m.databases,
         k.statistics = m.statistics, Shape(m), Below(m, next), StatRows(m)
  PROVE  Shape(k) /\ Below(k, next) /\ StatRows(k) /\ UserRows(k) \subseteq UserRows(m)
BY DEF Shape, Below, StatRows, UserRows

LEMMA DropDatabaseStep ==
  ASSUME Inv, NEW name \in DbName, name \in Droppable, DropDatabase(name)
  PROVE  Inv'
<1> DEFINE key == <<"DATABASE", name>>
           cur == current_database_oid_
           db == DatabaseOidOf(name)
           kept == {p \in DOMAIN files : p[1] # db}
<1>1. /\ status = "up" /\ ~collided /\ damaged = {} /\ ~lost /\ name # current_db_ /\ db # INVALID_OID /\ db # cur
      /\ meta' = [meta EXCEPT !.tables = {r \in @ : r.db_oid # db},
                              !.databases = {r \in @ : r.oid # db}]
      /\ oid2name_' = [oid2name_ EXCEPT ![db] = NoName]
      /\ name2oid_' = [name2oid_ EXCEPT ![key] = INVALID_OID]
      /\ dirs' = dirs \ {db}
      /\ files' = Restrict(files, kept)
      /\ data' = Restrict(data, {p \in DOMAIN data : p[1] # db})
      /\ UNCHANGED <<next_oid_, oid2table_, current_database_oid_, current_db_,
                     table2cardinality_, col2distinct_, logged, status, saved, control,
                     normal_shutdown, history, damaged>>
  BY DEF DropDatabase, Whole, Running, DatabaseExists, EntryExists, DatabaseOidOf, DropEntry
<1>2. committed' = committed /\ ghosts' = ghosts /\ born' = born /\ lost' = lost
      /\ collided' = collided
  BY <1>1 DEF history
<1>3. Typed /\ meta \in Meta /\ SavedOK /\ LoadedOK /\ saved \in Meta
  BY Types
<1>4. Sound /\ db \in Oid /\ key \in Key /\ DOMAIN data = DOMAIN files
  BY <1>1, <1>3, Types, Keys DEF Sound, SavedOK
<1>5. /\ meta' \in Meta /\ meta'.statistics = meta.statistics
      /\ meta'.tables = {r \in meta.tables : r.db_oid # db}
      /\ meta'.databases = {r \in meta.databases : r.oid # db}
  BY <1>1, <1>3 DEF Meta
<1>6. /\ name2oid_' \in [Key -> Oid \cup {INVALID_OID}]
      /\ \A k \in Key : name2oid_'[k] = IF k = key THEN INVALID_OID ELSE name2oid_[k]
  BY <1>1, <1>3, <1>4 DEF Typed
<1>7. /\ oid2name_' \in [Oid -> TableName \cup DbName \cup {NoName}]
      /\ \A oid \in Oid : oid2name_'[oid] = IF oid = db THEN NoName ELSE oid2name_[oid]
  BY <1>1, <1>3, <1>4 DEF Typed
<1>8. /\ \A n \in TableName : TableOid(n)' = TableOid(n)
      /\ \A n \in DbName : DatabaseOidOf(n)' = IF n = name THEN INVALID_OID ELSE DatabaseOidOf(n)
  BY <1>6, Keys DEF TableOid, DatabaseOidOf
<1>9. /\ Counts(files', Oid \X Oid) /\ DOMAIN files' = kept
      /\ \A p \in kept : files'[p] = files[p]
  BY <1>1, <1>3 DEF Restrict, Counts, Typed
<1>10. /\ Counts(data', Oid \X Oid) /\ DOMAIN data' = kept
       /\ \A p \in kept : data'[p] = data[p]
  BY <1>1, <1>3, <1>4 DEF Restrict, Counts, Typed
<1> HIDE DEF db, key, kept
<1>11. Typed'
  BY <1>1, <1>2, <1>3, <1>5, <1>6, <1>7, <1>9, <1>10 DEF Typed, Counts
<1>12. SavedOK'
  BY <1>1, <1>2, <1>3, <1>5, <1>9, <1>10 DEF SavedOK, Shape, StatRows, UserRows
<1>13. /\ Shape(meta) /\ Below(meta, next_oid_) /\ FilesOf(meta) /\ Durable(meta, next_oid_)
       /\ Home(meta) /\ StatRows(meta) /\ NamesExact /\ StatsExact /\ CommittedRowsSurvive
       /\ \A r \in meta.tables : r.oid \in Nat /\ r.oid \in Oid /\ r.name \in TableName
       /\ cur \in Oid
  BY <1>4, SoundParts
<1>14. DatabaseRow(db, name) \in meta.databases
  BY <1>4, <1>13 DEF NamesExact, db
<1>15. /\ \A r \in meta.databases : r.oid = db => r.name = name
       /\ \A r \in meta.tables : r.oid # db
  BY <1>13, <1>14 DEF Shape, DatabaseRow
<1>16. LoadedOK'
  <2>1. next_oid_' > PRESERVED_OID
    BY <1>1, <1>13 DEF Below
  <2>2. \A oid \in Oid : <<cur, oid>> \in DOMAIN data => <<cur, oid>> \in DOMAIN data'
    BY <1>1, <1>4, <1>10 DEF kept
  <2> QED BY <2>1, <2>2, <1>1, <1>2, <1>3, <1>13 DEF LoadedOK
<1>17. Shape(meta)' /\ Below(meta, next_oid_)' /\ StatRows(meta)'
  <2>1. Shape(meta') /\ Below(meta', next_oid_) /\ StatRows(meta')
    BY <1>3, <1>5, <1>13, FewerRows, Types
  <2> QED BY <2>1, <1>1, <1>2 DEF Shape, Below, StatRows, UserRows
<1>18. UserRows(meta)' = {r \in UserRows(meta) : r.db_oid # db}
  BY <1>5 DEF UserRows
<1>19. FilesOf(meta)'
  BY <1>9, <1>13, <1>18 DEF FilesOf, kept
<1>20. \A r \in RowsOf(meta, PRESERVED_OID)' :
         /\ r \in RowsOf(meta, PRESERVED_OID) /\ r \in UserRows(meta)
         /\ <<PRESERVED_OID, r.oid>> \in kept
  <2> SUFFICES ASSUME NEW r \in RowsOf(meta, PRESERVED_OID)'
               PROVE  /\ r \in RowsOf(meta, PRESERVED_OID) /\ r \in UserRows(meta)
                      /\ <<PRESERVED_OID, r.oid>> \in kept
    OBVIOUS
  <2>1. r \in meta.tables /\ r.db_oid = PRESERVED_OID /\ r.db_oid # db
    BY <1>5 DEF RowsOf
  <2>2. r \in UserRows(meta)
    BY <2>1, <1>3, <1>13, UserRow DEF PRESERVED_OID, SYSTEM_DATABASE_OID
  <2> QED BY <2>1, <2>2, <1>13 DEF FilesOf, kept, RowsOf
<1>21. Durable(meta, next_oid_)' /\ CommittedRowsSurvive'
  BY <1>1, <1>2, <1>4, <1>9, <1>10, <1>13, <1>18, <1>20 DEF Durable, CommittedRowsSurvive
<1>22. Home(meta)'
  <2> SUFFICES ASSUME HomeSafe PROVE Home(meta)'
    BY DEF Home
  <2>1. name # DEFAULT_DATABASE_NAME /\ name # SYSTEM_DATABASE_NAME
    BY DEF HomeSafe
  <2>2. db # SYSTEM_DATABASE_OID
    BY <2>1, <1>13, <1>15 DEF Home, DatabaseRow
  <2> QED BY <2>1, <2>2, <1>1, <1>5, <1>13, <1>15 DEF Home, DatabaseRow
<1>23. StatsExact'
  BY <1>1, <1>2, <1>5, <1>13, <1>18 DEF StatsExact
<1>24. NamesExact'
  <2>1. current_db_' \in DbName /\ DatabaseOidOf(current_db_)' = current_database_oid_'
    <3>1. current_db_ \in DbName /\ DatabaseOidOf(current_db_) = cur
      BY <1>13 DEF NamesExact
    <3> QED BY <3>1, <1>1, <1>8 DEF DatabaseOidOf
  <2>2. ASSUME NEW n \in DbName, NEW oid \in Oid
        PROVE  DatabaseOidOf(n)' = oid <=> DatabaseRow(oid, n) \in meta'.databases
    <3>1. DatabaseOidOf(n) = oid <=> DatabaseRow(oid, n) \in meta.databases
      BY <1>13 DEF NamesExact
    <3>2. DatabaseRow(oid, n) \in meta'.databases <=>
            DatabaseRow(oid, n) \in meta.databases /\ oid # db
      BY <1>5 DEF DatabaseRow
    <3>3. oid # INVALID_OID
      BY Types
    <3>4. CASE n = name
      BY <3>1, <3>2, <3>3, <3>4, <1>8 DEF db
    <3>5. CASE n # name
      BY <3>1, <3>2, <3>5, <1>8, <1>15 DEF DatabaseRow
    <3> QED BY <3>4, <3>5
  <2>3. \A r \in UserRows(meta)' : r.db_oid = current_database_oid_' =>
          /\ TableOid(r.name)' = r.oid
          /\ oid2table_'[r.oid] = current_database_oid_'
          /\ oid2name_'[r.oid] = r.name
    BY <1>1, <1>7, <1>8, <1>13, <1>15, <1>18 DEF NamesExact, UserRows
  <2>4. ASSUME NEW n \in UserTable, TableOid(n)' # INVALID_OID
        PROVE  /\ PRESERVED_OID < TableOid(n)' /\ TableOid(n)' < next_oid_'
               /\ \A r \in meta'.tables : r.oid = TableOid(n)' =>
                    r.db_oid = current_database_oid_' /\ r.name = n
               /\ n \notin ghosts' => \E r \in meta'.tables : r.oid = TableOid(n)'
    <3>1. TableOid(n)' = TableOid(n)
      BY <1>8, Names
    <3>2. /\ PRESERVED_OID < TableOid(n) /\ TableOid(n) < next_oid_
          /\ \A r \in meta.tables : r.oid = TableOid(n) => r.db_oid = cur /\ r.name = n
          /\ n \notin ghosts => \E r \in meta.tables : r.oid = TableOid(n)
      BY <3>1, <2>4, <1>13 DEF NamesExact
    <3> QED BY <3>1, <3>2, <1>1, <1>2, <1>5
  <2>5. ASSUME NEW oid \in Oid, oid > PRESERVED_OID, oid2table_'[oid] # INVALID_OID
        PROVE  \E r \in meta'.tables : r.oid = oid
    <3>1. <<cur, oid>> \in DOMAIN files
      BY <2>5, <1>1, <1>3, <1>4 DEF LoadedOK
    <3>2. PICK r \in UserRows(meta) : <<r.db_oid, r.oid>> = <<cur, oid>>
      BY <3>1, <1>13 DEF FilesOf
    <3>3. r.oid = oid /\ r.db_oid = cur /\ r \in meta.tables
      BY <3>2 DEF UserRows
    <3> QED BY <3>3, <1>1, <1>5
  <2>6. \A n \in TableName \ UserTable : TableOid(n)' < PRESERVED_OID
    BY <1>8, <1>13 DEF NamesExact
  <2> QED BY <2>1, <2>2, <2>3, <2>4, <2>5, <2>6 DEF NamesExact
<1>25. SoundOK'
  BY <1>1, <1>4, <1>17, <1>19, <1>21, <1>22, <1>23, <1>24, SoundParts DEF SoundOK
<1> QED BY <1>1, <1>11, <1>12, <1>16, <1>25, StaysUp DEF Inv

LEMMA DropTableStep ==
  ASSUME Inv, NEW name \in TableName, DropTable(name)
  PROVE  Inv'
<1> DEFINE key == <<"TABLE", name>>
           cur == current_database_oid_
           oid == TableOid(name)
           place == <<cur, oid>>
           rows == {r \in meta.tables : r.oid = oid}
<1>1. /\ status = "up" /\ ~collided /\ damaged = {} /\ ~lost /\ oid # INVALID_OID
      /\ files' = Restrict(files, DOMAIN files \ {place})
      /\ data' = Restrict(data, DOMAIN data \ {place})
      /\ oid2table_' = [oid2table_ EXCEPT ![oid] = INVALID_OID]
      /\ oid2name_' = [oid2name_ EXCEPT ![oid] = NoName]
      /\ name2oid_' = [name2oid_ EXCEPT ![key] = INVALID_OID]
      /\ UNCHANGED <<next_oid_, current_database_oid_, current_db_, table2cardinality_,
                     col2distinct_, logged, status, saved, dirs, control, normal_shutdown,
                     history, damaged>>
  BY DEF DropTable, Whole, Running, EntryExists, TableOid, DropEntry, Unload
<1>2. \/ (rows = {} \/ oid = TABLE_META_OID) /\ meta' = meta
      \/ \E r \in rows : meta' = [meta EXCEPT !.tables = @ \ {r}]
  BY DEF DropTable, TableOid
<1>3. committed' = committed /\ ghosts' = ghosts /\ born' = born /\ lost' = lost
      /\ collided' = collided
  BY <1>1 DEF history
<1>4. Typed /\ meta \in Meta /\ SavedOK /\ LoadedOK /\ saved \in Meta
  BY Types
<1>5. Sound /\ oid \in Oid /\ oid \in Nat /\ key \in Key /\ DOMAIN data = DOMAIN files
  BY <1>1, <1>4, Types, Keys DEF Sound, SavedOK
<1>6. /\ Shape(meta) /\ Below(meta, next_oid_) /\ FilesOf(meta) /\ Durable(meta, next_oid_)
      /\ Home(meta) /\ StatRows(meta) /\ NamesExact /\ StatsExact /\ CommittedRowsSurvive
      /\ \A r \in meta.tables : r.oid \in Nat /\ r.oid \in Oid /\ r.name \in TableName
      /\ cur \in Oid
  BY <1>5, SoundParts
<1>7. /\ meta' \in Meta /\ meta'.statistics = meta.statistics
      /\ meta'.databases = meta.databases /\ meta'.tables \subseteq meta.tables
      /\ \A r \in meta.tables : r.oid # oid => r \in meta'.tables
      /\ oid > PRESERVED_OID => \A r \in meta'.tables : r.oid # oid
  <2>1. CASE (rows = {} \/ oid = TABLE_META_OID) /\ meta' = meta
    BY <2>1, <1>4 DEF TABLE_META_OID, PRESERVED_OID
  <2>2. ASSUME NEW r \in rows, meta' = [meta EXCEPT !.tables = @ \ {r}]
        PROVE  /\ meta' \in Meta /\ meta'.statistics = meta.statistics
               /\ meta'.databases = meta.databases /\ meta'.tables \subseteq meta.tables
               /\ \A q \in meta.tables : q.oid # oid => q \in meta'.tables
               /\ \A q \in meta'.tables : q.oid # oid
    <3>1. /\ meta'.tables = meta.tables \ {r} /\ meta'.databases = meta.databases
          /\ meta'.statistics = meta.statistics /\ meta' \in Meta
      BY <2>2, <1>4 DEF Meta
    <3>2. \A q \in meta.tables : q.oid = oid => q = r
      BY <1>6 DEF Shape
    <3> QED BY <3>1, <3>2
  <2> QED BY <1>2, <2>1, <2>2
<1>8. \A r \in UserRows(meta) : r.oid = oid => r.db_oid = cur /\ r.name = name
  <2> SUFFICES ASSUME NEW r \in UserRows(meta), r.oid = oid PROVE r.db_oid = cur /\ r.name = name
    OBVIOUS
  <2>1. r \in meta.tables /\ oid > PRESERVED_OID
    BY DEF UserRows
  <2>2. name \in UserTable
    BY <2>1, <1>5, <1>6 DEF NamesExact, PRESERVED_OID
  <2> QED BY <2>1, <2>2, <1>1, <1>6 DEF NamesExact
<1>9. /\ name2oid_' \in [Key -> Oid \cup {INVALID_OID}]
      /\ \A k \in Key : name2oid_'[k] = IF k = key THEN INVALID_OID ELSE name2oid_[k]
  BY <1>1, <1>4, <1>5 DEF Typed
<1>10. /\ oid2name_' \in [Oid -> TableName \cup DbName \cup {NoName}]
       /\ \A o \in Oid : oid2name_'[o] = IF o = oid THEN NoName ELSE oid2name_[o]
  BY <1>1, <1>4, <1>5 DEF Typed
<1>11. /\ oid2table_' \in [Oid -> Oid \cup {INVALID_OID}]
       /\ \A o \in Oid : oid2table_'[o] = IF o = oid THEN INVALID_OID ELSE oid2table_[o]
  BY <1>1, <1>4, <1>5 DEF Typed
<1>12. /\ \A n \in TableName : TableOid(n)' = IF n = name THEN INVALID_OID ELSE TableOid(n)
       /\ \A n \in DbName : DatabaseOidOf(n)' = DatabaseOidOf(n)
  BY <1>9, Keys DEF TableOid, DatabaseOidOf
<1> HIDE DEF oid, key, rows
<1>13. /\ Counts(files', Oid \X Oid) /\ DOMAIN files' = DOMAIN files \ {place}
       /\ \A p \in DOMAIN files' : files'[p] = files[p]
  <2> HIDE DEF place
  <2> QED BY <1>1, <1>4 DEF Restrict, Counts, Typed
<1>14. /\ Counts(data', Oid \X Oid) /\ DOMAIN data' = DOMAIN files \ {place}
       /\ \A p \in DOMAIN data' : data'[p] = data[p]
  <2> HIDE DEF place
  <2> QED BY <1>1, <1>4, <1>5 DEF Restrict, Counts, Typed
<1>15. Typed'
  BY <1>1, <1>3, <1>4, <1>7, <1>9, <1>10, <1>11, <1>13, <1>14 DEF Typed, Counts
<1>16. SavedOK'
  <2>1. Shape(saved)' /\ StatRows(saved)'
    BY <1>1, <1>3, <1>4 DEF SavedOK, Shape, StatRows, UserRows
  <2> QED BY <2>1, <1>1, <1>3, <1>4, <1>7, <1>13, <1>14 DEF SavedOK
<1>17. LoadedOK'
  <2>1. next_oid_' > PRESERVED_OID
    BY <1>1, <1>6 DEF Below
  <2>2. ASSUME NEW o \in Oid, o > PRESERVED_OID, oid2table_'[o] # INVALID_OID
        PROVE  /\ oid2table_'[o] = cur /\ cur # SYSTEM_DATABASE_OID
               /\ <<cur, o>> \in DOMAIN data'
    <3>1. o # oid /\ oid2table_'[o] = oid2table_[o]
      BY <2>2, <1>11
    <3>2. oid2table_[o] = cur /\ cur # SYSTEM_DATABASE_OID /\ <<cur, o>> \in DOMAIN data
      BY <2>2, <3>1, <1>1, <1>4 DEF LoadedOK
    <3> QED BY <3>1, <3>2, <1>5, <1>14
  <2> QED BY <2>1, <2>2, <1>1, <1>6 DEF LoadedOK
<1>18. Shape(meta)' /\ Below(meta, next_oid_)' /\ StatRows(meta)'
  <2>1. Shape(meta') /\ Below(meta', next_oid_) /\ StatRows(meta')
    BY <1>4, <1>6, <1>7, FewerRows, Types
  <2> QED BY <2>1, <1>1, <1>3 DEF Shape, Below, StatRows, UserRows
<1>19. UserRows(meta)' = {r \in UserRows(meta) : r.oid # oid}
  BY <1>7 DEF UserRows
<1>20. FilesOf(meta)'
  <2>1. ASSUME NEW r \in UserRows(meta)'
        PROVE  <<r.db_oid, r.oid>> \in DOMAIN files'
    BY <1>6, <1>13, <1>19 DEF FilesOf
  <2>2. ASSUME NEW p \in DOMAIN files'
        PROVE  \E r \in UserRows(meta)' : p = <<r.db_oid, r.oid>>
    <3>1. PICK r \in UserRows(meta) : p = <<r.db_oid, r.oid>>
      BY <1>6, <1>13 DEF FilesOf
    <3>2. r.oid # oid
      BY <3>1, <1>8, <1>13
    <3> QED BY <3>1, <3>2, <1>19
  <2> QED BY <2>1, <2>2 DEF FilesOf
<1>21. \A r \in RowsOf(meta, PRESERVED_OID)' :
         /\ r \in RowsOf(meta, PRESERVED_OID) /\ r \in UserRows(meta)
         /\ <<PRESERVED_OID, r.oid>> \in DOMAIN files'
  <2> SUFFICES ASSUME NEW r \in RowsOf(meta, PRESERVED_OID)'
               PROVE  /\ r \in RowsOf(meta, PRESERVED_OID) /\ r \in UserRows(meta)
                      /\ <<PRESERVED_OID, r.oid>> \in DOMAIN files'
    OBVIOUS
  <2>1. r \in meta.tables /\ r.db_oid = PRESERVED_OID /\ r \in meta'.tables
    BY <1>7 DEF RowsOf
  <2>2. r \in UserRows(meta)
    BY <2>1, <1>4, <1>6, UserRow DEF PRESERVED_OID, SYSTEM_DATABASE_OID
  <2>3. r \in UserRows(meta)'
    BY <2>1, <2>2 DEF UserRows
  <2> QED BY <2>1, <2>2, <2>3, <1>20 DEF FilesOf, RowsOf
<1>22. Durable(meta, next_oid_)'
  BY <1>1, <1>3, <1>6, <1>13, <1>19, <1>21 DEF Durable
<1>23. CommittedRowsSurvive'
  BY <1>1, <1>3, <1>5, <1>6, <1>13, <1>14, <1>21 DEF CommittedRowsSurvive
<1>24. Home(meta)' /\ StatsExact'
  BY <1>1, <1>3, <1>6, <1>7, <1>19 DEF StatsExact, Home
<1>25. NamesExact'
  <2>1. current_db_' \in DbName /\ DatabaseOidOf(current_db_)' = current_database_oid_'
    <3>1. current_db_ \in DbName /\ DatabaseOidOf(current_db_) = cur
      BY <1>6 DEF NamesExact
    <3> QED BY <3>1, <1>1, <1>12 DEF DatabaseOidOf
  <2>2. \A n \in DbName, o \in Oid :
          DatabaseOidOf(n)' = o <=> DatabaseRow(o, n) \in meta'.databases
    BY <1>6, <1>7, <1>12 DEF NamesExact
  <2>3. ASSUME NEW r \in UserRows(meta)', r.db_oid = current_database_oid_'
        PROVE  /\ TableOid(r.name)' = r.oid
               /\ oid2table_'[r.oid] = current_database_oid_'
               /\ oid2name_'[r.oid] = r.name
    <3>1. r \in UserRows(meta) /\ r.oid # oid /\ r.db_oid = cur
      BY <2>3, <1>1, <1>19
    <3>2. TableOid(r.name) = r.oid /\ oid2table_[r.oid] = cur /\ oid2name_[r.oid] = r.name
          /\ r.oid \in Oid /\ r.name \in TableName
      BY <3>1, <1>6 DEF NamesExact, UserRows
    <3>3. r.name # name
      BY <3>1, <3>2 DEF oid
    <3> QED BY <3>1, <3>2, <3>3, <1>1, <1>10, <1>11, <1>12
  <2>4. ASSUME NEW n \in UserTable, TableOid(n)' # INVALID_OID
        PROVE  /\ PRESERVED_OID < TableOid(n)' /\ TableOid(n)' < next_oid_'
               /\ \A r \in meta'.tables : r.oid = TableOid(n)' =>
                    r.db_oid = current_database_oid_' /\ r.name = n
               /\ n \notin ghosts' => \E r \in meta'.tables : r.oid = TableOid(n)'
    <3>1. n # name /\ TableOid(n)' = TableOid(n)
      BY <2>4, <1>12, Names
    <3>2. /\ PRESERVED_OID < TableOid(n) /\ TableOid(n) < next_oid_
          /\ \A r \in meta.tables : r.oid = TableOid(n) => r.db_oid = cur /\ r.name = n
          /\ n \notin ghosts => \E r \in meta.tables : r.oid = TableOid(n)
      BY <3>1, <2>4, <1>6 DEF NamesExact
    <3>3. ASSUME NEW r \in meta.tables, r.oid = TableOid(n) PROVE r \in meta'.tables
      <4>1. r \in UserRows(meta) /\ r.name = n
        BY <3>2, <3>3 DEF UserRows
      <4> QED BY <4>1, <3>1, <1>7, <1>8
    <3> QED BY <3>1, <3>2, <3>3, <1>1, <1>3, <1>7
  <2>5. \A o \in Oid : o > PRESERVED_OID /\ oid2table_'[o] # INVALID_OID =>
          \E r \in meta'.tables : r.oid = o
    BY <1>6, <1>7, <1>11 DEF NamesExact
  <2>6. \A n \in TableName \ UserTable : TableOid(n)' < PRESERVED_OID
    BY <1>6, <1>12 DEF NamesExact, PRESERVED_OID, INVALID_OID
  <2> QED BY <2>1, <2>2, <2>3, <2>4, <2>5, <2>6 DEF NamesExact
<1>26. SoundOK'
  BY <1>1, <1>5, <1>18, <1>20, <1>22, <1>23, <1>24, <1>25, SoundParts DEF SoundOK
<1> QED BY <1>1, <1>15, <1>16, <1>17, <1>26, StaysUp DEF Inv

----------------------------------------------------------------------------
(* Rows and statistics.                                                    *)

\* A loaded table of the current database, its row and its file.
LEMMA LoadedTable ==
  ASSUME Inv, Sound, NEW name \in UserTable, Loaded(name)
  PROVE  LET oid == TableOid(name)
             place == <<oid2table_[oid], oid>>
         IN  /\ oid \in Oid /\ oid \in Nat /\ PRESERVED_OID < oid /\ oid < next_oid_
             /\ place = <<current_database_oid_, oid>> /\ place \in DOMAIN data
             /\ place \in Oid \X Oid /\ data[place] \in Nat
             /\ \A r \in meta.tables :
                  r.oid = oid => r.db_oid = current_database_oid_ /\ r.name = name
             /\ \E r \in meta.tables : r.oid = oid
             /\ oid \in DOMAIN committed /\ committed[oid] \in Nat
<1> DEFINE oid == TableOid(name)
           place == <<oid2table_[oid], oid>>
<1>1. name \in TableName /\ oid # INVALID_OID /\ oid2table_[oid] # INVALID_OID
  BY Names DEF Loaded, EntryExists, TableOid
<1>2. oid \in Oid /\ oid \in Nat
  BY <1>1, Types
<1>3. /\ PRESERVED_OID < oid /\ oid < next_oid_
      /\ \A r \in meta.tables :
           r.oid = oid => r.db_oid = current_database_oid_ /\ r.name = name
  BY <1>1, SoundParts DEF NamesExact
<1>4. \E r \in meta.tables : r.oid = oid
  BY <1>1, <1>2, <1>3, SoundParts DEF NamesExact
<1>5. oid \in DOMAIN committed
  BY <1>3, <1>4, SoundParts DEF Durable, UserRows
<1>6. place = <<current_database_oid_, oid>> /\ place \in DOMAIN data /\ current_database_oid_ \in Oid
  BY <1>1, <1>2, <1>3, Types DEF LoadedOK, Sound
<1>7. committed[oid] \in Nat /\ data[place] \in Nat
  BY <1>5, <1>6, Types DEF Typed, Counts
<1> QED BY <1>2, <1>3, <1>4, <1>5, <1>6, <1>7

LEMMA InsertStep ==
  ASSUME Inv, NEW name \in UserTable, Insert(name)
  PROVE  Inv'
<1> DEFINE cur == current_database_oid_
           oid == TableOid(name)
           place == <<oid2table_[oid], oid>>
           one == data[place] + 1
<1>1. /\ status = "up" /\ ~collided /\ damaged = {} /\ ~lost /\ Loaded(name)
      /\ data' = [data EXCEPT ![place] = data[place] + 1]
      /\ logged' = Put(logged, oid, one)
      /\ committed' = [committed EXCEPT ![oid] = committed[oid] + 1]
      /\ UNCHANGED <<memory, meta, status, disk, ghosts, born, lost, collided, damaged>>
  BY DEF Insert, Whole, Running, TableOid
<1>2. /\ UNCHANGED <<name2oid_, oid2name_, next_oid_, oid2table_, cur, current_db_,
                     table2cardinality_, col2distinct_>>
      /\ UNCHANGED <<saved, files, dirs, control, normal_shutdown>>
  BY <1>1 DEF memory, disk
<1>3. Sound /\ Typed /\ meta \in Meta /\ SavedOK /\ LoadedOK
  BY <1>1, Types DEF Sound
<1>4. /\ oid \in Oid /\ oid \in Nat /\ PRESERVED_OID < oid /\ oid < next_oid_
      /\ place = <<cur, oid>> /\ place \in DOMAIN data /\ one \in Nat
      /\ \A r \in meta.tables : r.oid = oid => r.db_oid = cur /\ r.name = name
      /\ oid \in DOMAIN committed /\ committed[oid] + 1 \in Nat
  BY <1>1, <1>3, LoadedTable
<1> HIDE DEF oid, place
<1>5. /\ Counts(data', Oid \X Oid) /\ DOMAIN data' = DOMAIN data
      /\ \A p \in DOMAIN data : data'[p] = IF p = place THEN one ELSE data[p]
  <2>1. Counts(data, Oid \X Oid) /\ data' = [data EXCEPT ![place] = one]
    BY <1>1, <1>3 DEF Typed
  <2> HIDE DEF one
  <2> QED BY <2>1, <1>4 DEF Counts
<1>6. /\ Counts(logged', Oid) /\ DOMAIN logged' = DOMAIN logged \cup {oid}
      /\ \A o \in DOMAIN logged' : logged'[o] = IF o = oid THEN one ELSE logged[o]
  <2>1. Counts(logged, Oid) /\ logged' = Put(logged, oid, one)
    BY <1>1, <1>3 DEF Typed
  <2> HIDE DEF one
  <2> QED BY <2>1, <1>4 DEF Counts, Put
<1>7. /\ Counts(committed', Oid) /\ DOMAIN committed' = DOMAIN committed
      /\ \A o \in DOMAIN committed :
           committed'[o] = IF o = oid THEN committed[oid] + 1 ELSE committed[o]
  <2> DEFINE c == committed[oid] + 1
  <2>1. Counts(committed, Oid) /\ committed' = [committed EXCEPT ![oid] = c] /\ c \in Nat
    BY <1>1, <1>3, <1>4 DEF Typed
  <2> HIDE DEF c
  <2>2. /\ Counts(committed', Oid) /\ DOMAIN committed' = DOMAIN committed
        /\ \A o \in DOMAIN committed : committed'[o] = IF o = oid THEN c ELSE committed[o]
    BY <2>1, <1>4 DEF Counts
  <2> QED BY <2>2 DEF c
<1>8. Typed'
  BY <1>1, <1>2, <1>3, <1>5, <1>6, <1>7 DEF Typed, Counts
<1>9. SavedOK' /\ LoadedOK'
  <2>1. ~normal_shutdown
    BY <1>1, <1>3 DEF SavedOK
  <2>2. SavedOK'
    BY <2>1, <1>1, <1>2, <1>3, <1>5 DEF SavedOK, Shape, StatRows, UserRows
  <2>3. LoadedOK'
    BY <1>1, <1>2, <1>3, <1>5 DEF LoadedOK
  <2> QED BY <2>2, <2>3
<1>10. /\ Shape(meta)' /\ Below(meta, next_oid_)' /\ FilesOf(meta)' /\ Home(meta)'
       /\ StatRows(meta)' /\ StatsExact' /\ \A r \in saved'.tables : r.oid < next_oid_'
  BY <1>1, <1>2, <1>3, SoundParts
     DEF Shape, Below, FilesOf, Home, StatRows, StatsExact, UserRows
<1>11. NamesExact'
  BY <1>1, <1>2, <1>3, SoundParts DEF NamesExact, TableOid, DatabaseOidOf, UserRows
<1>12. ASSUME NEW r \in RowsOf(meta, PRESERVED_OID)
       PROVE  /\ r.oid \in DOMAIN committed /\ <<PRESERVED_OID, r.oid>> \in DOMAIN data
              /\ r.oid = oid <=> <<PRESERVED_OID, r.oid>> = place
              /\ data[<<PRESERVED_OID, r.oid>>] = committed[r.oid]
  <2>1. r \in meta.tables /\ r.db_oid = PRESERVED_OID
    BY DEF RowsOf
  <2>2. r \in UserRows(meta)
    BY <2>1, <1>3, SoundParts, UserRow DEF PRESERVED_OID, SYSTEM_DATABASE_OID
  <2>3. r.oid \in DOMAIN committed
    BY <2>2, <1>3, SoundParts DEF Durable
  <2>4. <<PRESERVED_OID, r.oid>> \in DOMAIN data
    BY <2>1, <2>2, <1>3, SoundParts DEF FilesOf, SavedOK
  <2>5. r.oid = oid <=> <<PRESERVED_OID, r.oid>> = place
    BY <2>1, <1>4
  <2> QED BY <2>3, <2>4, <2>5, <1>1, <1>3, SoundParts DEF CommittedRowsSurvive
<1>13. CommittedRowsSurvive'
  <2> SUFFICES ASSUME NEW r \in RowsOf(meta, PRESERVED_OID)
               PROVE  data'[<<PRESERVED_OID, r.oid>>] = committed'[r.oid]
    BY <1>1 DEF CommittedRowsSurvive, RowsOf
  <2> QED BY <1>5, <1>7, <1>12
<1>14. Durable(meta, next_oid_)'
  <2>1. Durable(meta, next_oid_)
    BY <1>3, SoundParts
  <2>2. \A r \in UserRows(meta)' : r.oid \in DOMAIN committed'
    BY <2>1, <1>1, <1>7 DEF Durable, UserRows
  <2>3. ASSUME NEW r \in RowsOf(meta, PRESERVED_OID)
        PROVE  IF r.oid \in DOMAIN logged' THEN logged'[r.oid] = committed'[r.oid]
                 ELSE files'[<<PRESERVED_OID, r.oid>>] = committed'[r.oid]
    <3>1. CASE r.oid = oid
      <4>1. oid \in DOMAIN logged' /\ logged'[oid] = one
        BY <1>6
      <4>2. data[place] = committed[oid] /\ committed'[oid] = committed[oid] + 1
        BY <3>1, <1>4, <1>7, <1>12
      <4> QED BY <3>1, <4>1, <4>2
    <3>2. CASE r.oid # oid
      <4>1. IF r.oid \in DOMAIN logged THEN logged[r.oid] = committed[r.oid]
              ELSE files[<<PRESERVED_OID, r.oid>>] = committed[r.oid]
        BY <2>1 DEF Durable
      <4> QED BY <4>1, <3>2, <1>2, <1>6, <1>7, <1>12
    <3> QED BY <3>1, <3>2
  <2>4. \A o \in DOMAIN logged' : PRESERVED_OID < o /\ o < next_oid_'
    BY <2>1, <1>2, <1>4, <1>6 DEF Durable
  <2> QED BY <2>1, <2>2, <2>3, <2>4, <1>1, <1>2 DEF Durable, RowsOf
<1>15. SoundOK'
  BY <1>10, <1>11, <1>13, <1>14 DEF SoundOK
<1> QED BY <1>1, <1>8, <1>9, <1>15, StaysUp DEF Inv

LEMMA AnalyzeStep ==
  ASSUME Inv, NEW name \in UserTable, Analyze(name)
  PROVE  Inv'
<1> DEFINE cur == current_database_oid_
           oid == TableOid(name)
           count == data[<<oid2table_[oid], oid>>]
           New(r) == IF r.db_oid = cur /\ r.name = name
                       THEN [r EXCEPT !.cardinality = count] ELSE r
           stat == StatisticRow(name, cur, count)
<1>1. /\ status = "up" /\ ~collided /\ damaged = {} /\ ~lost /\ Loaded(name) /\ RowOf(name) # {}
      /\ table2cardinality_' = [table2cardinality_ EXCEPT ![name] = count]
      /\ col2distinct_' = [col2distinct_ EXCEPT ![name] = count]
      /\ meta' = [meta EXCEPT !.tables = CardinalityRows(name, count),
                              !.statistics = DistinctRows(name, count)]
      /\ UNCHANGED <<name2oid_, oid2name_, next_oid_, oid2table_, cur, current_db_, data,
                     logged, status, saved, files, dirs, control, normal_shutdown,
                     committed, ghosts, born, lost, collided, damaged>>
  BY DEF Analyze, Whole, Running, TableOid, SetCardinality, SetDistinct, disk, history
<1>2. Sound /\ Typed /\ meta \in Meta /\ saved \in Meta /\ SavedOK /\ LoadedOK
  BY <1>1, Types DEF Sound
<1>3. count \in Nat /\ name \in TableName /\ cur \in Oid /\ count \in Cardinal
  BY <1>1, <1>2, LoadedTable, SoundParts, Names DEF Cardinal
<1> HIDE DEF oid, count
<1>4. /\ table2cardinality_' \in [TableName -> Cardinal]
      /\ \A n \in TableName : table2cardinality_'[n] = IF n = name THEN count
                                                       ELSE table2cardinality_[n]
  BY <1>1, <1>2, <1>3 DEF Typed
<1>5. /\ col2distinct_' \in [TableName -> Cardinal]
      /\ \A n \in TableName : col2distinct_'[n] = IF n = name THEN count ELSE col2distinct_[n]
  BY <1>1, <1>2, <1>3 DEF Typed
<1>6. ASSUME NEW r \in meta.tables
      PROVE  /\ New(r) \in [oid : Oid, db_oid : Oid, name : TableName, cardinality : Cardinal]
             /\ New(r).oid = r.oid /\ New(r).db_oid = r.db_oid /\ New(r).name = r.name
             /\ New(r).cardinality = IF r.db_oid = cur /\ r.name = name THEN count
                                     ELSE r.cardinality
  <2>1. r \in [oid : Oid, db_oid : Oid, name : TableName, cardinality : Cardinal]
    BY <1>2, MetaRows
  <2> QED BY <2>1, <1>3
<1>7. CardinalityRows(name, count) = {New(r) : r \in meta.tables}
  BY DEF CardinalityRows, RowOf
<1>8. /\ stat \in [name : TableName, db_oid : Oid, n_distinct : Cardinal]
      /\ stat.name = name /\ stat.db_oid = cur /\ stat.n_distinct = count
  BY <1>3 DEF StatisticRow
<1>9. DistinctRows(name, count) =
        {s \in meta.statistics : ~(s.db_oid = cur /\ s.name = name)} \cup {stat}
  BY DEF DistinctRows
<1> HIDE DEF New, stat
<1>10. /\ meta' \in Meta /\ meta'.databases = meta.databases
       /\ meta'.tables = {New(r) : r \in meta.tables}
       /\ meta'.statistics = {s \in meta.statistics : ~(s.db_oid = cur /\ s.name = name)} \cup {stat}
  <2> DEFINE T == {New(r) : r \in meta.tables}
             D == {s \in meta.statistics : ~(s.db_oid = cur /\ s.name = name)} \cup {stat}
  <2>1. T \in SUBSET [oid : Oid, db_oid : Oid, name : TableName, cardinality : Cardinal]
    BY <1>6
  <2>2. D \in SUBSET [name : TableName, db_oid : Oid, n_distinct : Cardinal]
    BY <1>2, <1>8 DEF Meta
  <2>3. meta' = [meta EXCEPT !.tables = T, !.statistics = D]
    BY <1>1, <1>7, <1>9
  <2> HIDE DEF T, D
  <2>4. meta' \in Meta /\ meta'.databases = meta.databases /\ meta'.tables = T /\ meta'.statistics = D
    BY <1>2, <2>1, <2>2, <2>3 DEF Meta
  <2> QED BY <2>4 DEF T, D
<1>11. Typed'
  BY <1>1, <1>2, <1>4, <1>5, <1>10 DEF Typed, Counts
<1>12. SavedOK' /\ LoadedOK'
  <2>1. SavedOK'
    BY <1>1, <1>2, <1>10 DEF SavedOK, Shape, StatRows, UserRows
  <2>2. LoadedOK'
    BY <1>1, <1>2, <1>10 DEF LoadedOK
  <2> QED BY <2>1, <2>2
<1>13. /\ Shape(meta) /\ Below(meta, next_oid_) /\ FilesOf(meta) /\ Durable(meta, next_oid_)
       /\ Home(meta) /\ StatRows(meta) /\ NamesExact /\ StatsExact /\ CommittedRowsSurvive
       /\ \A r \in saved.tables : r.oid < next_oid_
  BY <1>2, SoundParts
<1>14. UserRows(meta)' = {New(r) : r \in UserRows(meta)}
  BY <1>6, <1>10 DEF UserRows
<1>15. Shape(meta)' /\ Below(meta, next_oid_)'
  <2>1. ASSUME NEW p \in meta'.tables, NEW q \in meta'.tables
        PROVE  /\ p.oid = q.oid => p = q
               /\ p.db_oid = q.db_oid /\ p.name = q.name => p = q
    <3>1. PICK a \in meta.tables, b \in meta.tables : p = New(a) /\ q = New(b)
      BY <1>10
    <3> QED BY <3>1, <1>6, <1>13 DEF Shape
  <2>2. \A q \in meta'.tables, r \in meta'.databases : q.oid # r.oid
    BY <1>6, <1>10, <1>13 DEF Shape
  <2>3. \A r \in meta'.tables :
          IF r.oid > PRESERVED_OID
            THEN r.db_oid # SYSTEM_DATABASE_OID /\ r.name \in UserTable
            ELSE r.db_oid = SYSTEM_DATABASE_OID /\ r.name \notin UserTable
    BY <1>6, <1>10, <1>13 DEF Shape
  <2>4. Shape(meta)'
    BY <2>1, <2>2, <2>3, <1>10, <1>13 DEF Shape
  <2>5. Below(meta, next_oid_)'
    BY <1>1, <1>6, <1>10, <1>13 DEF Below
  <2> QED BY <2>4, <2>5
<1>16. FilesOf(meta)' /\ Home(meta)' /\ CommittedRowsSurvive' /\ Durable(meta, next_oid_)'
  <2>1. FilesOf(meta)'
    <3>1. {<<r.db_oid, r.oid>> : r \in UserRows(meta)'} = {<<r.db_oid, r.oid>> : r \in UserRows(meta)}
      BY <1>6, <1>14 DEF UserRows
    <3> QED BY <3>1, <1>1, <1>13 DEF FilesOf
  <2>2. \A q \in RowsOf(meta, PRESERVED_OID)' : \E r \in RowsOf(meta, PRESERVED_OID) : r.oid = q.oid
    BY <1>6, <1>10 DEF RowsOf
  <2>3. \A q \in UserRows(meta)' : \E r \in UserRows(meta) : r.oid = q.oid
    BY <1>6, <1>14 DEF UserRows
  <2>4. CommittedRowsSurvive'
    BY <2>2, <1>1, <1>2, <1>13 DEF CommittedRowsSurvive
  <2>5. Durable(meta, next_oid_)'
    BY <2>2, <2>3, <1>1, <1>13 DEF Durable
  <2> QED BY <2>1, <2>4, <2>5, <1>1, <1>10, <1>13 DEF Home
<1>17. NamesExact'
  <2>1. \A n : TableOid(n)' = TableOid(n) /\ DatabaseOidOf(n)' = DatabaseOidOf(n)
    BY <1>1 DEF TableOid, DatabaseOidOf
  <2>2. \A q \in meta'.tables : \E r \in meta.tables :
          q.oid = r.oid /\ q.db_oid = r.db_oid /\ q.name = r.name
    BY <1>6, <1>10
  <2>3. \A r \in meta.tables : \E q \in meta'.tables : q.oid = r.oid
    BY <1>6, <1>10
  <2>4. \A q \in UserRows(meta)' : \E r \in UserRows(meta) :
          q.oid = r.oid /\ q.db_oid = r.db_oid /\ q.name = r.name
    BY <1>6, <1>14 DEF UserRows
  <2>5. current_db_' \in DbName /\ DatabaseOidOf(current_db_)' = current_database_oid_'
    BY <1>1, <1>13 DEF NamesExact, DatabaseOidOf
  <2>6. \A n \in DbName, o \in Oid :
          DatabaseOidOf(n)' = o <=> DatabaseRow(o, n) \in meta'.databases
    BY <2>1, <1>10, <1>13 DEF NamesExact
  <2>7. \A q \in UserRows(meta)' : q.db_oid = current_database_oid_' =>
          /\ TableOid(q.name)' = q.oid
          /\ oid2table_'[q.oid] = current_database_oid_'
          /\ oid2name_'[q.oid] = q.name
    BY <2>1, <2>4, <1>1, <1>13 DEF NamesExact
  <2>8. ASSUME NEW n \in UserTable, TableOid(n)' # INVALID_OID
        PROVE  /\ PRESERVED_OID < TableOid(n)' /\ TableOid(n)' < next_oid_'
               /\ \A r \in meta'.tables : r.oid = TableOid(n)' =>
                    r.db_oid = current_database_oid_' /\ r.name = n
               /\ n \notin ghosts' => \E r \in meta'.tables : r.oid = TableOid(n)'
    <3>1. /\ PRESERVED_OID < TableOid(n) /\ TableOid(n) < next_oid_
          /\ \A r \in meta.tables : r.oid = TableOid(n) => r.db_oid = cur /\ r.name = n
          /\ n \notin ghosts => \E r \in meta.tables : r.oid = TableOid(n)
      BY <2>1, <2>8, <1>13 DEF NamesExact
    <3> QED BY <3>1, <2>1, <2>2, <2>3, <1>1
  <2>9. \A o \in Oid : o > PRESERVED_OID /\ oid2table_'[o] # INVALID_OID =>
          \E r \in meta'.tables : r.oid = o
    BY <2>3, <1>1, <1>13 DEF NamesExact
  <2>10. \A n \in TableName \ UserTable : TableOid(n)' < PRESERVED_OID
    BY <2>1, <1>13 DEF NamesExact
  <2> QED BY <2>5, <2>6, <2>7, <2>8, <2>9, <2>10 DEF NamesExact
<1>18. PICK row \in meta.tables : row.db_oid = cur /\ row.name = name
  BY <1>1 DEF RowOf
<1>19. row \in UserRows(meta) /\ row.oid \in born[name]
  BY <1>2, <1>13, <1>18, UserRow DEF StatRows
<1>20. \A q \in UserRows(meta)' : \E r \in UserRows(meta) :
         /\ q.oid = r.oid /\ q.db_oid = r.db_oid /\ q.name = r.name
         /\ q.name \in UserTable /\ q.name \in TableName
         /\ q.cardinality = IF r.db_oid = cur /\ r.name = name THEN count ELSE r.cardinality
  <2> SUFFICES ASSUME NEW q \in UserRows(meta)'
               PROVE  \E r \in UserRows(meta) :
                        /\ q.oid = r.oid /\ q.db_oid = r.db_oid /\ q.name = r.name
                        /\ q.name \in UserTable /\ q.name \in TableName
                        /\ q.cardinality = IF r.db_oid = cur /\ r.name = name THEN count
                                           ELSE r.cardinality
    OBVIOUS
  <2>1. PICK r \in UserRows(meta) : q = New(r)
    BY <1>14
  <2>2. r \in meta.tables /\ r.name \in UserTable /\ r.name \in TableName
    BY <2>1, <1>2, <1>13, UserRow, MetaRows DEF UserRows
  <2> QED BY <2>1, <2>2, <1>6
<1>21. \A s \in meta'.statistics : s = stat \/ (s \in meta.statistics /\ ~(s.db_oid = cur /\ s.name = name))
  BY <1>10
<1>22. StatRows(meta)'
  <2>1. \A q \in UserRows(meta)' : q.oid \in born'[q.name]
    BY <1>1, <1>13, <1>20 DEF StatRows
  <2>2. \A s \in meta'.statistics : s.name \in UserTable /\ born'[s.name] # {}
    BY <1>1, <1>8, <1>13, <1>19, <1>21 DEF StatRows
  <2>3. ASSUME NEW s \in meta'.statistics, NEW q \in UserRows(meta)',
               s.name = q.name, born'[q.name] = {q.oid}
        PROVE  s.db_oid = q.db_oid
    <3>1. PICK r \in UserRows(meta) : q.oid = r.oid /\ q.db_oid = r.db_oid /\ q.name = r.name
      BY <1>20
    <3>2. CASE s = stat
      <4>1. row.oid = r.oid
        BY <2>3, <3>1, <3>2, <1>1, <1>8, <1>19
      <4>2. row = r
        BY <4>1, <3>1, <1>13, <1>18 DEF Shape, UserRows
      <4> QED BY <4>2, <3>1, <3>2, <1>8, <1>18
    <3>3. CASE s \in meta.statistics
      BY <2>3, <3>1, <3>3, <1>1, <1>13 DEF StatRows
    <3> QED BY <3>2, <3>3, <1>21
  <2>4. \A s, t \in meta'.statistics : s.name = t.name /\ s.db_oid = t.db_oid => s = t
    BY <1>8, <1>13, <1>21 DEF StatRows
  <2> QED BY <2>1, <2>2, <2>3, <2>4 DEF StatRows
<1>23. StatsExact'
  <2>1. ASSUME NEW q \in UserRows(meta)', q.db_oid = cur, born[q.name] = {q.oid}
        PROVE  table2cardinality_'[q.name] = q.cardinality
    <3>1. PICK r \in UserRows(meta) :
            /\ q.oid = r.oid /\ q.db_oid = r.db_oid /\ q.name = r.name
            /\ q.name \in UserTable /\ q.name \in TableName
            /\ q.cardinality = IF r.db_oid = cur /\ r.name = name THEN count ELSE r.cardinality
      BY <1>20
    <3> QED BY <2>1, <3>1, <1>4, <1>13 DEF StatsExact
  <2>2. \A n \in UserTable : born[n] = {} => table2cardinality_'[n] = INVALID_CARDINALITY
    BY <1>4, <1>13, <1>19, Names DEF StatsExact
  <2>3. ASSUME NEW n \in UserTable, \A s \in meta'.statistics : s.name # n
        PROVE  col2distinct_'[n] = INVALID_CARDINALITY
    <3>1. stat \in meta'.statistics /\ n # name
      BY <2>3, <1>8, <1>10
    <3>2. \A s \in meta.statistics : s.name # n
      BY <2>3, <3>1, <1>10
    <3> QED BY <3>1, <3>2, <1>5, <1>13, Names DEF StatsExact
  <2>4. ASSUME NEW s \in meta'.statistics, NEW q \in UserRows(meta)', s.name = q.name,
               born[q.name] = {q.oid}, s.db_oid = cur, q.db_oid = cur
        PROVE  col2distinct_'[s.name] = s.n_distinct
    <3>1. PICK r \in UserRows(meta) :
            q.oid = r.oid /\ q.db_oid = r.db_oid /\ q.name = r.name /\ q.name \in TableName
      BY <1>20
    <3>2. CASE s = stat
      BY <3>2, <1>3, <1>5, <1>8
    <3>3. CASE s \in meta.statistics /\ ~(s.db_oid = cur /\ s.name = name)
      BY <2>4, <3>1, <3>3, <1>5, <1>13 DEF StatsExact
    <3> QED BY <3>2, <3>3, <1>21
  <2> QED BY <2>1, <2>2, <2>3, <2>4, <1>1 DEF StatsExact
<1>24. SoundOK'
  BY <1>1, <1>13, <1>15, <1>16, <1>17, <1>22, <1>23 DEF SoundOK
<1> QED BY <1>1, <1>11, <1>12, <1>24, StaysUp DEF Inv

----------------------------------------------------------------------------
(* Flush, shutdown and crash.                                              *)

LEMMA FlushStep ==
  ASSUME Inv, Flush
  PROVE  Inv'
<1>1. /\ status = "up" /\ ~collided /\ damaged = {} /\ ~lost /\ files' = data /\ saved' = meta
      /\ UNCHANGED <<memory, meta, data, logged, status, dirs, control, normal_shutdown, history,
                     damaged>>
  BY DEF Flush, Whole, Running
<1>2. /\ UNCHANGED <<name2oid_, oid2name_, next_oid_, oid2table_, current_database_oid_,
                     current_db_, table2cardinality_, col2distinct_>>
      /\ UNCHANGED <<committed, ghosts, born, lost, collided>>
  BY <1>1 DEF memory, history
<1>3. Sound /\ Typed /\ SavedOK /\ LoadedOK /\ meta \in Meta
  BY <1>1, Types DEF Sound
<1>4. /\ Shape(meta) /\ Below(meta, next_oid_) /\ FilesOf(meta) /\ Durable(meta, next_oid_)
      /\ Home(meta) /\ StatRows(meta) /\ NamesExact /\ StatsExact /\ CommittedRowsSurvive
  BY <1>3, SoundParts
<1>5. Typed'
  BY <1>1, <1>2, <1>3 DEF Typed
<1>6. Shape(meta)' /\ StatRows(meta)' /\ UserRows(meta)' = UserRows(meta)
  BY <1>1, <1>2, <1>4 DEF Shape, StatRows, UserRows
<1>7. SavedOK'
  <2>1. Shape(saved)' /\ StatRows(saved)'
    BY <1>1, <1>6 DEF Shape, StatRows, UserRows
  <2> QED BY <2>1, <1>1, <1>2, <1>3 DEF SavedOK
<1>8. LoadedOK'
  BY <1>1, <1>2, <1>3 DEF LoadedOK
<1>9. FilesOf(meta)' /\ Below(meta, next_oid_)' /\ Home(meta)'
  BY <1>1, <1>2, <1>3, <1>4, <1>6 DEF FilesOf, Below, Home, SavedOK
<1>10. Durable(meta, next_oid_)' /\ CommittedRowsSurvive'
  BY <1>1, <1>2, <1>3, <1>4, <1>6 DEF Durable, CommittedRowsSurvive, RowsOf, UserRows
<1>11. NamesExact'
  BY <1>1, <1>2, <1>4, <1>6 DEF NamesExact, TableOid, DatabaseOidOf
<1>12. StatsExact'
  BY <1>1, <1>2, <1>4, <1>6 DEF StatsExact
<1>13. \A r \in saved'.tables : r.oid < next_oid_'
  BY <1>1, <1>2, <1>4 DEF Below
<1>14. SoundOK'
  BY <1>6, <1>9, <1>10, <1>11, <1>12, <1>13 DEF SoundOK
<1> QED BY <1>1, <1>5, <1>7, <1>8, <1>14, StaysUp DEF Inv

\* What a process that ends leaves in memory has its types, and nothing is
\* claimed of it.
LEMMA GoneTyped ==
  ASSUME Gone, Counts(files', Oid \X Oid)
  PROVE  /\ name2oid_' \in [Key -> Oid \cup {INVALID_OID}]
         /\ oid2name_' \in [Oid -> TableName \cup DbName \cup {NoName}]
         /\ next_oid_' \in NextOid
         /\ oid2table_' \in [Oid -> Oid \cup {INVALID_OID}]
         /\ current_database_oid_' \in Oid \cup {INVALID_OID}
         /\ current_db_' \in DbName \cup {NoName}
         /\ table2cardinality_' \in [TableName -> Cardinal]
         /\ col2distinct_' \in [TableName -> Cardinal]
         /\ meta' \in Meta /\ meta'.databases = {}
         /\ Counts(data', Oid \X Oid) /\ DOMAIN data' = DOMAIN files'
         /\ status' = "down"
         /\ LoadedOK' /\ SoundOK' /\ OpensAfterCrash'
<1>1. name2oid_' \in [Key -> Oid \cup {INVALID_OID}]
  <2>1. {} \in SUBSET [oid : Oid, name : DbName]
    OBVIOUS
  <2> QED BY <2>1, LoadedTyped DEF Gone
<1>2. oid2name_' \in [Oid -> TableName \cup DbName \cup {NoName}]
  BY <1>1, LoadedOidsTyped DEF Gone
<1>3. next_oid_' \in NextOid
  BY Oids DEF Gone, NextOid, PRESERVED_OID
<1>4. meta' \in Meta /\ meta'.databases = {}
  BY NewMetaTyped DEF Gone, NoMeta
<1>5. status' = "down" /\ data' = files'
  BY DEF Gone
<1>6. LoadedOK' /\ SoundOK' /\ OpensAfterCrash'
  BY <1>5 DEF LoadedOK, SoundOK, OpensAfterCrash, Sound
<1> QED BY <1>1, <1>2, <1>3, <1>4, <1>5, <1>6, SystemTablesTyped, NoStatisticsTyped DEF Gone

LEMMA CloseDatabaseStep ==
  ASSUME Inv, CloseDatabase
  PROVE  Inv'
<1>1. /\ status = "up" /\ ~collided /\ damaged = {} /\ ~lost /\ files' = data /\ saved' = meta
      /\ logged' = <<>> /\ control' = next_oid_ /\ normal_shutdown' = TRUE /\ Gone
      /\ UNCHANGED <<dirs, committed, ghosts, born, lost, collided, damaged>>
  BY DEF CloseDatabase, Whole, Running, history
<1>2. Sound /\ Typed /\ SavedOK /\ meta \in Meta
  BY <1>1, Types DEF Sound
<1>3. /\ Shape(meta) /\ Below(meta, next_oid_) /\ FilesOf(meta) /\ Durable(meta, next_oid_)
      /\ Home(meta) /\ StatRows(meta) /\ CommittedRowsSurvive
  BY <1>2, SoundParts
<1>4. Counts(files', Oid \X Oid) /\ Counts(logged', Oid) /\ DOMAIN logged' = {}
  BY <1>1, <1>2, NoCounts DEF Typed
<1>5. /\ name2oid_' \in [Key -> Oid \cup {INVALID_OID}]
      /\ oid2name_' \in [Oid -> TableName \cup DbName \cup {NoName}]
      /\ next_oid_' \in NextOid
      /\ oid2table_' \in [Oid -> Oid \cup {INVALID_OID}]
      /\ current_database_oid_' \in Oid \cup {INVALID_OID}
      /\ current_db_' \in DbName \cup {NoName}
      /\ table2cardinality_' \in [TableName -> Cardinal]
      /\ col2distinct_' \in [TableName -> Cardinal]
      /\ meta' \in Meta /\ meta'.databases = {}
      /\ Counts(data', Oid \X Oid) /\ DOMAIN data' = DOMAIN files'
      /\ status' = "down"
      /\ LoadedOK' /\ SoundOK' /\ OpensAfterCrash'
  BY <1>1, <1>4, GoneTyped
<1>6. Typed'
  <2>1. /\ control' \in NextOid /\ saved' \in Meta /\ Counts(committed', Oid)
        /\ ghosts' \subseteq UserTable /\ born' \in [UserTable -> SUBSET Oid]
        /\ normal_shutdown' \in BOOLEAN /\ lost' \in BOOLEAN /\ collided' \in BOOLEAN
    BY <1>1, <1>2 DEF Typed
  <2> QED BY <2>1, <1>4, <1>5 DEF Typed
<1>7. UserRows(saved)' = UserRows(meta)
  BY <1>1 DEF UserRows
<1>8. SavedOK'
  <2>1. Shape(saved)' /\ StatRows(saved)'
    BY <1>1, <1>3, <1>7 DEF Shape, StatRows
  <2> QED BY <2>1, <1>1, <1>2, <1>5 DEF SavedOK
<1>9. OnDisk'
  <2>1. Below(saved, control)' /\ FilesOf(saved)' /\ Home(saved)'
    BY <1>1, <1>2, <1>3, <1>7 DEF Below, FilesOf, Home, SavedOK
  <2>2. Durable(saved, control)'
    BY <1>1, <1>2, <1>3, <1>4, <1>7 DEF Durable, CommittedRowsSurvive, RowsOf
  <2> QED BY <2>1, <2>2 DEF OnDisk
<1> QED BY <1>5, <1>6, <1>8, <1>9 DEF Inv

\* A crash that loses no DDL leaves rows with the same identities on disk.
LEMMA CrashStep ==
  ASSUME Inv, Crash
  PROVE  Inv'
<1>1. /\ status = "up" /\ ~collided /\ damaged = {} /\ Gone
      /\ lost' = (lost \/ Identity(saved) # Identity(meta) \/ saved.databases # meta.databases
                       \/ control # next_oid_)
      /\ UNCHANGED <<logged, saved, files, dirs, control, normal_shutdown, committed, ghosts,
                     born, collided, damaged>>
  BY DEF Crash, Running, disk
<1>2. Typed /\ SavedOK /\ meta \in Meta /\ saved \in Meta
  BY Types
<1>3. Counts(files', Oid \X Oid)
  BY <1>1, <1>2 DEF Typed, Counts
<1>4. /\ name2oid_' \in [Key -> Oid \cup {INVALID_OID}]
      /\ oid2name_' \in [Oid -> TableName \cup DbName \cup {NoName}]
      /\ next_oid_' \in NextOid
      /\ oid2table_' \in [Oid -> Oid \cup {INVALID_OID}]
      /\ current_database_oid_' \in Oid \cup {INVALID_OID}
      /\ current_db_' \in DbName \cup {NoName}
      /\ table2cardinality_' \in [TableName -> Cardinal]
      /\ col2distinct_' \in [TableName -> Cardinal]
      /\ meta' \in Meta /\ meta'.databases = {}
      /\ Counts(data', Oid \X Oid) /\ DOMAIN data' = DOMAIN files'
      /\ status' = "down"
      /\ LoadedOK' /\ SoundOK' /\ OpensAfterCrash'
  BY <1>1, <1>3, GoneTyped
<1>5. Typed'
  <2>1. /\ control' \in NextOid /\ saved' \in Meta /\ Counts(committed', Oid)
        /\ Counts(logged', Oid)
        /\ ghosts' \subseteq UserTable /\ born' \in [UserTable -> SUBSET Oid]
        /\ normal_shutdown' \in BOOLEAN /\ collided' \in BOOLEAN
    BY <1>1, <1>2 DEF Typed
  <2>2. lost' \in BOOLEAN
    BY <1>1
  <2> QED BY <2>1, <2>2, <1>3, <1>4 DEF Typed
<1>6. SavedOK'
  <2>1. Shape(saved)' /\ StatRows(saved)'
    BY <1>1, <1>2 DEF SavedOK, Shape, StatRows, UserRows
  <2> QED BY <2>1, <1>1, <1>2, <1>4 DEF SavedOK
<1>7. OnDisk'
  <2> SUFFICES ASSUME ~lost'
               PROVE  /\ Below(saved, control)' /\ FilesOf(saved)'
                      /\ Durable(saved, control)' /\ Home(saved)'
    BY DEF OnDisk
  <2>1. /\ ~lost /\ Identity(saved) = Identity(meta) /\ saved.databases = meta.databases
        /\ control = next_oid_
    BY <1>1
  <2>2. Sound
    BY <2>1, <1>1 DEF Sound
  <2>3. /\ Below(meta, next_oid_) /\ FilesOf(meta) /\ Durable(meta, next_oid_) /\ Home(meta)
    BY <2>2, SoundParts
  <2>4. \A q \in saved.tables : \E r \in meta.tables :
          q.oid = r.oid /\ q.db_oid = r.db_oid /\ q.name = r.name
    <3> SUFFICES ASSUME NEW q \in saved.tables
                 PROVE  \E r \in meta.tables :
                          q.oid = r.oid /\ q.db_oid = r.db_oid /\ q.name = r.name
      OBVIOUS
    <3>1. <<q.oid, q.db_oid, q.name>> \in Identity(meta)
      BY <2>1 DEF Identity
    <3> QED BY <3>1 DEF Identity
  <2>5. \A r \in meta.tables : \E q \in saved.tables :
          q.oid = r.oid /\ q.db_oid = r.db_oid /\ q.name = r.name
    <3> SUFFICES ASSUME NEW r \in meta.tables
                 PROVE  \E q \in saved.tables :
                          q.oid = r.oid /\ q.db_oid = r.db_oid /\ q.name = r.name
      OBVIOUS
    <3>1. <<r.oid, r.db_oid, r.name>> \in Identity(saved)
      BY <2>1 DEF Identity
    <3> QED BY <3>1 DEF Identity
  <2>6. Below(saved, control)' /\ Home(saved)'
    BY <2>1, <2>3, <2>4, <1>1 DEF Below, Home
  <2>7. FilesOf(saved)'
    <3>1. {<<r.db_oid, r.oid>> : r \in UserRows(saved)} = {<<r.db_oid, r.oid>> : r \in UserRows(meta)}
      BY <2>4, <2>5 DEF UserRows
    <3> QED BY <3>1, <2>3, <1>1 DEF FilesOf, UserRows
  <2>8. Durable(saved, control)'
    <3>1. \A q \in UserRows(saved) : \E r \in UserRows(meta) : q.oid = r.oid
      BY <2>4 DEF UserRows
    <3>2. \A q \in RowsOf(saved, PRESERVED_OID) :
            \E r \in RowsOf(meta, PRESERVED_OID) : q.oid = r.oid
      BY <2>4 DEF RowsOf
    <3>3. Durable(saved, control)
      BY <3>1, <3>2, <2>1, <2>3 DEF Durable
    <3> QED BY <3>3, <1>1 DEF Durable, RowsOf, UserRows
  <2> QED BY <2>6, <2>7, <2>8
<1> QED BY <1>4, <1>5, <1>6, <1>7 DEF Inv

----------------------------------------------------------------------------
(* Entering a database.                                                    *)

TableRows == [oid : Oid, db_oid : Oid, name : TableName, cardinality : Cardinal]

\* The maps after LoadTableMeta, whichever of several rows it meets last.
Overlaid(names, oids, tables, entered, loaded) ==
  /\ name2oid_' \in [Key -> Oid \cup {INVALID_OID}]
  /\ oid2name_' \in [Oid -> TableName \cup DbName \cup {NoName}]
  /\ oid2table_' \in [Oid -> Oid \cup {INVALID_OID}]
  /\ \A n \in TableName :
       \/ \E r \in entered : r.name = n /\ name2oid_'[<<"TABLE", n>>] = r.oid
       \/ /\ \A r \in entered : r.name # n
          /\ name2oid_'[<<"TABLE", n>>] = names[<<"TABLE", n>>]
  /\ \A n \in DbName : name2oid_'[<<"DATABASE", n>>] = names[<<"DATABASE", n>>]
  /\ \A oid \in Oid :
       \/ \E r \in entered : r.oid = oid /\ oid2name_'[oid] = r.name
       \/ (\A r \in entered : r.oid # oid) /\ oid2name_'[oid] = oids[oid]
  /\ \A oid \in Oid :
       \/ \E r \in loaded : r.oid = oid /\ oid2table_'[oid] = r.db_oid
       \/ (\A r \in loaded : r.oid # oid) /\ oid2table_'[oid] = tables[oid]

LEMMA LoadTableMetaEffect ==
  ASSUME NEW names \in [Key -> Oid \cup {INVALID_OID}],
         NEW oids \in [Oid -> TableName \cup DbName \cup {NoName}],
         NEW tables \in [Oid -> Oid \cup {INVALID_OID}],
         NEW entered \in SUBSET TableRows, NEW loaded \in SUBSET TableRows,
         LoadTableMeta(names, oids, tables, entered, loaded)
  PROVE  Overlaid(names, oids, tables, entered, loaded)
<1> DEFINE Named(n) == CHOOSE r \in entered : r.name = n
           Entered(oid) == CHOOSE r \in entered : r.oid = oid
           Opened(oid) == CHOOSE r \in loaded : r.oid = oid
<1>1. /\ name2oid_' = [key \in Key |->
           IF key[1] = "TABLE" /\ \E r \in entered : r.name = key[2]
             THEN Named(key[2]).oid ELSE names[key]]
      /\ oid2name_' = [oid \in Oid |->
           IF \E r \in entered : r.oid = oid THEN Entered(oid).name ELSE oids[oid]]
      /\ oid2table_' = [oid \in Oid |->
           IF \E r \in loaded : r.oid = oid THEN Opened(oid).db_oid ELSE tables[oid]]
  BY DEF LoadTableMeta
<1>2. \A n : (\E r \in entered : r.name = n) => Named(n) \in entered /\ Named(n).name = n
  OBVIOUS
<1>3. \A oid : (\E r \in entered : r.oid = oid) => Entered(oid) \in entered /\ Entered(oid).oid = oid
  OBVIOUS
<1>4. \A oid : (\E r \in loaded : r.oid = oid) => Opened(oid) \in loaded /\ Opened(oid).oid = oid
  OBVIOUS
<1> HIDE DEF Named, Entered, Opened
<1>5. \A r \in entered \cup loaded : r.oid \in Oid /\ r.db_oid \in Oid /\ r.name \in TableName
  BY DEF TableRows
<1>6. name2oid_' \in [Key -> Oid \cup {INVALID_OID}]
  BY <1>1, <1>2, <1>5
<1>7. oid2name_' \in [Oid -> TableName \cup DbName \cup {NoName}]
  BY <1>1, <1>3, <1>5
<1>8. oid2table_' \in [Oid -> Oid \cup {INVALID_OID}]
  BY <1>1, <1>4, <1>5
<1>9. ASSUME NEW n \in TableName
      PROVE  \/ \E r \in entered : r.name = n /\ name2oid_'[<<"TABLE", n>>] = r.oid
             \/ /\ \A r \in entered : r.name # n
                /\ name2oid_'[<<"TABLE", n>>] = names[<<"TABLE", n>>]
  <2>1. name2oid_'[<<"TABLE", n>>] = IF \E r \in entered : r.name = n
                                       THEN Named(n).oid ELSE names[<<"TABLE", n>>]
    BY <1>1, Keys
  <2> QED BY <2>1, <1>2
<1>10. ASSUME NEW n \in DbName
       PROVE  name2oid_'[<<"DATABASE", n>>] = names[<<"DATABASE", n>>]
  BY <1>1, Keys
<1>11. ASSUME NEW oid \in Oid
       PROVE  /\ \/ \E r \in entered : r.oid = oid /\ oid2name_'[oid] = r.name
                 \/ (\A r \in entered : r.oid # oid) /\ oid2name_'[oid] = oids[oid]
              /\ \/ \E r \in loaded : r.oid = oid /\ oid2table_'[oid] = r.db_oid
                 \/ (\A r \in loaded : r.oid # oid) /\ oid2table_'[oid] = tables[oid]
  BY <1>1, <1>3, <1>4
<1> QED BY <1>6, <1>7, <1>8, <1>9, <1>10, <1>11 DEF Overlaid

\* The cached statistics after the rows of a database are loaded.
LEMMA LoadCardinalitiesEffect ==
  ASSUME NEW old \in [TableName -> Cardinal], NEW loaded \in SUBSET TableRows
  PROVE  /\ LoadCardinalities(old, loaded) \in [TableName -> Cardinal]
         /\ \A n \in TableName :
              \/ \E r \in loaded : r.name = n /\ LoadCardinalities(old, loaded)[n] = r.cardinality
              \/ (\A r \in loaded : r.name # n) /\ LoadCardinalities(old, loaded)[n] = old[n]
<1> DEFINE Named(n) == CHOOSE r \in loaded : r.name = n
<1>1. LoadCardinalities(old, loaded) =
        [n \in TableName |-> IF \E r \in loaded : r.name = n THEN Named(n).cardinality ELSE old[n]]
  BY DEF LoadCardinalities
<1>2. \A n : (\E r \in loaded : r.name = n) => Named(n) \in loaded /\ Named(n).name = n
  OBVIOUS
<1>3. \A r \in loaded : r.cardinality \in Cardinal
  BY DEF TableRows
<1> HIDE DEF Named
<1> QED BY <1>1, <1>2, <1>3

LEMMA LoadStatisticsEffect ==
  ASSUME NEW old \in [TableName -> Cardinal], NEW m \in Meta, NEW db
  PROVE  /\ LoadStatistics(old, m, db) \in [TableName -> Cardinal]
         /\ \A n \in TableName :
              \/ \E s \in m.statistics :
                   s.db_oid = db /\ s.name = n /\ LoadStatistics(old, m, db)[n] = s.n_distinct
              \/ /\ \A s \in m.statistics : ~(s.db_oid = db /\ s.name = n)
                 /\ LoadStatistics(old, m, db)[n] = old[n]
<1> DEFINE Filed(n) == CHOOSE s \in m.statistics : s.db_oid = db /\ s.name = n
<1>1. LoadStatistics(old, m, db) =
        [n \in TableName |->
           IF \E s \in m.statistics : s.db_oid = db /\ s.name = n THEN Filed(n).n_distinct
                                                                  ELSE old[n]]
  BY DEF LoadStatistics
<1>2. \A n : (\E s \in m.statistics : s.db_oid = db /\ s.name = n) =>
               Filed(n) \in m.statistics /\ Filed(n).db_oid = db /\ Filed(n).name = n
  OBVIOUS
<1>3. \A s \in m.statistics : s.n_distinct \in Cardinal
  BY MetaRows
<1> HIDE DEF Filed
<1> QED BY <1>1, <1>2, <1>3

\* The user tables of a database.
UserRowsOf(m, db) == {r \in UserRows(m) : r.db_oid = db}

LEMMA UserRowsOfDatabase ==
  ASSUME NEW m \in Meta, Shape(m), NEW db
  PROVE  /\ UserRowsOf(m, db) \in SUBSET TableRows
         /\ db # SYSTEM_DATABASE_OID => RowsOf(m, db) = UserRowsOf(m, db)
         /\ db = SYSTEM_DATABASE_OID => UserRowsOf(m, db) = {}
<1>1. \A r \in m.tables : r \in TableRows
  BY MetaRows DEF TableRows
<1>2. \A r \in m.tables : r \in UserRows(m) <=> r.db_oid # SYSTEM_DATABASE_OID
  BY UserRow
<1>3. UserRows(m) \subseteq m.tables
  BY DEF UserRows
<1> QED BY <1>1, <1>2, <1>3 DEF UserRowsOf, RowsOf

\* The names are exact once a database's rows are entered over maps that know
\* the databases, no user table, and of user tables' names only those left by
\* a refused CREATE TABLE.
LEMMA EnteredNames ==
  ASSUME NEW names \in [Key -> Oid \cup {INVALID_OID}],
         NEW oids \in [Oid -> TableName \cup DbName \cup {NoName}],
         NEW tables \in [Oid -> Oid \cup {INVALID_OID}],
         NEW m \in Meta, NEW db \in Oid, meta' = m, Shape(m), Below(m, next_oid_'),
         next_oid_' \in Nat,
         LoadTableMeta(names, oids, tables, UserRowsOf(m, db), UserRowsOf(m, db)),
         current_database_oid_' = db,
         current_db_' \in DbName, names[<<"DATABASE", current_db_'>>] = db,
         \A n \in DbName, oid \in Oid :
           names[<<"DATABASE", n>>] = oid <=> DatabaseRow(oid, n) \in m.databases,
         \A n \in TableName \ UserTable : names[<<"TABLE", n>>] < PRESERVED_OID,
         \A oid \in Oid : oid > PRESERVED_OID => tables[oid] = INVALID_OID,
         \A n \in UserTable : names[<<"TABLE", n>>] # INVALID_OID =>
           /\ PRESERVED_OID < names[<<"TABLE", n>>] /\ names[<<"TABLE", n>>] < next_oid_'
           /\ n \in ghosts' /\ \A r \in m.tables : r.oid # names[<<"TABLE", n>>]
  PROVE  NamesExact'
<1> DEFINE E == UserRowsOf(m, db)
<1>1. E \in SUBSET TableRows
  BY UserRowsOfDatabase
<1>2. ASSUME NEW r \in E
      PROVE  /\ r \in m.tables /\ r \in UserRows(m) /\ r.db_oid = db /\ r.oid > PRESERVED_OID
             /\ r.oid \in Oid /\ r.name \in UserTable /\ r.name \in TableName
             /\ r.oid < next_oid_'
  <2>1. r \in m.tables /\ r \in UserRows(m) /\ r.db_oid = db
    BY DEF UserRowsOf, UserRows
  <2> QED BY <2>1, UserRow, MetaRows DEF Below
<1>3. ASSUME NEW q \in E, NEW r \in E
      PROVE  (q.oid = r.oid => q = r) /\ (q.name = r.name => q = r)
  BY <1>2 DEF Shape
<1> HIDE DEF E
<1>4. /\ \A n \in TableName :
           \/ \E r \in E : r.name = n /\ name2oid_'[<<"TABLE", n>>] = r.oid
           \/ /\ \A r \in E : r.name # n
              /\ name2oid_'[<<"TABLE", n>>] = names[<<"TABLE", n>>]
      /\ \A n \in DbName : name2oid_'[<<"DATABASE", n>>] = names[<<"DATABASE", n>>]
      /\ \A oid \in Oid :
           \/ \E r \in E : r.oid = oid /\ oid2name_'[oid] = r.name
           \/ (\A r \in E : r.oid # oid) /\ oid2name_'[oid] = oids[oid]
      /\ \A oid \in Oid :
           \/ \E r \in E : r.oid = oid /\ oid2table_'[oid] = r.db_oid
           \/ (\A r \in E : r.oid # oid) /\ oid2table_'[oid] = tables[oid]
  <2>1. LoadTableMeta(names, oids, tables, E, E)
    BY DEF E
  <2>2. Overlaid(names, oids, tables, E, E)
    BY <2>1, <1>1, LoadTableMetaEffect
  <2> QED BY <2>2 DEF Overlaid
<1>5. current_db_' \in DbName /\ DatabaseOidOf(current_db_)' = current_database_oid_'
  BY <1>4 DEF DatabaseOidOf
<1>6. ASSUME NEW n \in DbName, NEW oid \in Oid
      PROVE  DatabaseOidOf(n)' = oid <=> DatabaseRow(oid, n) \in meta'.databases
  <2>1. DatabaseOidOf(n)' = names[<<"DATABASE", n>>]
    BY <1>4 DEF DatabaseOidOf
  <2>2. names[<<"DATABASE", n>>] = oid <=> DatabaseRow(oid, n) \in m.databases
    OBVIOUS
  <2> QED BY <2>1, <2>2
<1>7. \A r \in UserRows(meta)' : r.db_oid = current_database_oid_' => r \in E
  BY DEF E, UserRowsOf, UserRows
<1>8. ASSUME NEW r \in E
      PROVE  /\ TableOid(r.name)' = r.oid
             /\ oid2table_'[r.oid] = db /\ oid2name_'[r.oid] = r.name
  BY <1>2, <1>3, <1>4 DEF TableOid
<1>9. ASSUME NEW n \in UserTable, TableOid(n)' # INVALID_OID
      PROVE  /\ PRESERVED_OID < TableOid(n)' /\ TableOid(n)' < next_oid_'
             /\ \A r \in meta'.tables : r.oid = TableOid(n)' =>
                  r.db_oid = current_database_oid_' /\ r.name = n
             /\ n \notin ghosts' => \E r \in meta'.tables : r.oid = TableOid(n)'
  <2>1. n \in TableName
    BY Names
  <2>2. CASE \E r \in E : r.name = n /\ TableOid(n)' = r.oid
    <3>1. PICK r \in E : r.name = n /\ TableOid(n)' = r.oid
      BY <2>2
    <3>2. \A q \in m.tables : q.oid = r.oid => q = r
      BY <1>2 DEF Shape
    <3> QED BY <3>1, <3>2, <1>2
  <2>3. CASE TableOid(n)' = names[<<"TABLE", n>>]
    BY <2>3, <1>9
  <2> QED BY <2>1, <2>2, <2>3, <1>4 DEF TableOid
<1>10. \A oid \in Oid : oid > PRESERVED_OID /\ oid2table_'[oid] # INVALID_OID =>
         \E r \in meta'.tables : r.oid = oid
  BY <1>2, <1>4
<1>11. ASSUME NEW n \in TableName \ UserTable PROVE TableOid(n)' < PRESERVED_OID
  <2>1. \A r \in E : r.name # n
    BY <1>2
  <2> QED BY <2>1, <1>4 DEF TableOid
<1> QED BY <1>5, <1>6, <1>7, <1>8, <1>9, <1>10, <1>11 DEF NamesExact

\* What ExitDatabase leaves: the databases, and no user table.
LEMMA ExitMaps ==
  ASSUME Inv, status = "up", ~collided
  PROVE  /\ ExitNames \in [Key -> Oid \cup {INVALID_OID}]
         /\ ExitOids \in [Oid -> TableName \cup DbName \cup {NoName}]
         /\ ExitTables \in [Oid -> Oid \cup {INVALID_OID}]
         /\ \A oid \in Oid : oid > PRESERVED_OID => ExitTables[oid] = INVALID_OID
         /\ \A n \in DbName : ExitNames[<<"DATABASE", n>>] = DatabaseOidOf(n)
         /\ \A n \in TableName : ExitNames[<<"TABLE", n>>] =
              IF <<"TABLE", n>> \in LeftKeys THEN INVALID_OID ELSE TableOid(n)
<1>1. Typed /\ LoadedOK
  BY Types
<1>2. ExitNames \in [Key -> Oid \cup {INVALID_OID}]
  BY <1>1 DEF ExitNames, Typed
<1>3. ExitOids \in [Oid -> TableName \cup DbName \cup {NoName}]
  BY <1>1 DEF ExitOids, Typed
<1>4. ExitTables \in [Oid -> Oid \cup {INVALID_OID}]
  BY <1>1 DEF ExitTables, Typed
<1>5. ASSUME NEW oid \in Oid, oid > PRESERVED_OID PROVE ExitTables[oid] = INVALID_OID
  <2>1. CASE oid2table_[oid] = INVALID_OID
    BY <2>1 DEF ExitTables
  <2>2. CASE oid2table_[oid] # INVALID_OID
    <3>1. oid \in Leaving
      BY <2>2, <1>1, <1>5 DEF Leaving, LoadedOK
    <3> QED BY <3>1 DEF ExitTables
  <2> QED BY <2>1, <2>2
<1>6. ASSUME NEW n \in DbName PROVE ExitNames[<<"DATABASE", n>>] = DatabaseOidOf(n)
  <2>1. <<"DATABASE", n>> \notin LeftKeys
    BY Keys DEF LeftKeys
  <2> QED BY <2>1, Keys DEF ExitNames, DatabaseOidOf
<1>7. ASSUME NEW n \in TableName
      PROVE  ExitNames[<<"TABLE", n>>] =
               IF <<"TABLE", n>> \in LeftKeys THEN INVALID_OID ELSE TableOid(n)
  BY Keys DEF ExitNames, TableOid
<1> QED BY <1>2, <1>3, <1>4, <1>5, <1>6, <1>7

\* A user table's name that ExitDatabase leaves is of no row.
LEMMA ExitGhosts ==
  ASSUME Inv, Sound, NEW n \in UserTable, ExitNames[<<"TABLE", n>>] # INVALID_OID
  PROVE  /\ ExitNames[<<"TABLE", n>>] = TableOid(n)
         /\ PRESERVED_OID < TableOid(n) /\ TableOid(n) < next_oid_
         /\ n \in ghosts /\ \A r \in meta.tables : r.oid # TableOid(n)
<1>1. n \in TableName /\ status = "up" /\ ~collided
  BY Names DEF Sound
<1>2. <<"TABLE", n>> \notin LeftKeys /\ ExitNames[<<"TABLE", n>>] = TableOid(n)
  BY <1>1, ExitMaps
<1>3. TableOid(n) # INVALID_OID /\ TableOid(n) \in Oid
  BY <1>1, <1>2, Types
<1>4. /\ PRESERVED_OID < TableOid(n) /\ TableOid(n) < next_oid_
      /\ \A r \in meta.tables :
           r.oid = TableOid(n) => r.db_oid = current_database_oid_ /\ r.name = n
      /\ n \notin ghosts => \E r \in meta.tables : r.oid = TableOid(n)
  BY <1>3, SoundParts DEF NamesExact
<1>5. ASSUME NEW r \in meta.tables, r.oid = TableOid(n) PROVE FALSE
  <2>1. r \in UserRows(meta) /\ r.db_oid = current_database_oid_ /\ r.name = n
    BY <1>4, <1>5 DEF UserRows
  <2>2. oid2table_[r.oid] = current_database_oid_ /\ oid2name_[r.oid] = n
    BY <2>1, SoundParts DEF NamesExact
  <2>3. current_database_oid_ # SYSTEM_DATABASE_OID /\ current_database_oid_ # INVALID_OID
    BY <2>1, <1>5, SoundParts, Types, UserRow
  <2>4. r.oid \in Leaving
    BY <2>2, <2>3, <1>3, <1>4, <1>5 DEF Leaving
  <2> QED BY <2>2, <2>4, <1>2 DEF LeftKeys
<1> QED BY <1>2, <1>4, <1>5

LEMMA ChangeDatabaseStep ==
  ASSUME Inv, NEW name \in DbName, ChangeDatabase(name)
  PROVE  Inv'
<1> DEFINE cur == current_database_oid_
           db == DatabaseOidOf(name)
           rows == RowsOf(meta, db)
           missing == Unopenable(meta, db)
           Same == /\ current_db_' = name
                   /\ UNCHANGED <<name2oid_, oid2name_, oid2table_, table2cardinality_,
                                  col2distinct_, files>>
           System == /\ db = SYSTEM_DATABASE_OID
                     /\ LoadTableMeta(ExitNames, ExitOids, ExitTables, {}, {})
                     /\ current_db_' = name
                     /\ UNCHANGED <<table2cardinality_, col2distinct_>>
           All == /\ db # SYSTEM_DATABASE_OID /\ missing = {}
                  /\ LoadTableMeta(ExitNames, ExitOids, ExitTables, rows, rows)
                  /\ table2cardinality_' = LoadCardinalities(table2cardinality_, rows)
                  /\ col2distinct_' = LoadStatistics(col2distinct_, meta, db)
                  /\ current_db_' = name
           Some == \E bad \in missing, done \in SUBSET (rows \ missing) :
                     /\ db # SYSTEM_DATABASE_OID
                     /\ LoadTableMeta(ExitNames, ExitOids, ExitTables, done \cup {bad}, done)
                     /\ table2cardinality_' = LoadCardinalities(table2cardinality_, done)
                     /\ UNCHANGED <<col2distinct_, current_db_>>
           Saved == files' = IF cur = SYSTEM_DATABASE_OID THEN files ELSE data
<1>1. /\ status = "up" /\ ~collided /\ damaged = {} /\ name # current_db_ /\ db # INVALID_OID
      /\ current_database_oid_' = db
      /\ UNCHANGED <<next_oid_, meta, data, logged, status, saved, dirs, control,
                     normal_shutdown, committed, ghosts, born, lost, collided, damaged>>
  BY DEF ChangeDatabase, Running, DatabaseExists, EntryExists, DatabaseOidOf, SetCurrent, history
<1>2. IF db = cur THEN Same ELSE Saved /\ (System \/ All \/ Some)
  BY ZenonT(30) DEF ChangeDatabase, DatabaseOidOf
<1>3. Typed /\ meta \in Meta /\ SavedOK /\ LoadedOK /\ saved \in Meta /\ db \in Oid
  BY <1>1, Types
<1>4. rows \in SUBSET TableRows /\ missing \subseteq rows /\ (\A r \in rows : r.db_oid = db)
      /\ (\A r \in rows \ missing : <<db, r.oid>> \in DOMAIN files)
  BY <1>3, MetaRows DEF RowsOf, Unopenable, TableRows
<1>5. /\ ExitNames \in [Key -> Oid \cup {INVALID_OID}]
      /\ ExitOids \in [Oid -> TableName \cup DbName \cup {NoName}]
      /\ ExitTables \in [Oid -> Oid \cup {INVALID_OID}]
      /\ \A oid \in Oid : oid > PRESERVED_OID => ExitTables[oid] = INVALID_OID
      /\ \A n \in DbName : ExitNames[<<"DATABASE", n>>] = DatabaseOidOf(n)
      /\ \A n \in TableName : ExitNames[<<"TABLE", n>>] =
           IF <<"TABLE", n>> \in LeftKeys THEN INVALID_OID ELSE TableOid(n)
  BY <1>1, ExitMaps
<1> HIDE DEF db, rows, missing
<1>6. /\ Counts(files', Oid \X Oid) /\ DOMAIN files' = DOMAIN data
      /\ files' = files \/ files' = data
  BY <1>2, <1>3 DEF Typed, SavedOK
<1>7. ASSUME System \/ All \/ Some
      PROVE  /\ \E entered \in SUBSET TableRows, loaded \in SUBSET (rows \ missing) :
                  /\ LoadTableMeta(ExitNames, ExitOids, ExitTables, entered, loaded)
                  /\ loaded \in SUBSET TableRows /\ (db = SYSTEM_DATABASE_OID => loaded = {})
             /\ table2cardinality_' \in [TableName -> Cardinal]
             /\ col2distinct_' \in [TableName -> Cardinal]
             /\ current_db_' \in DbName \cup {NoName}
  <2>1. /\ table2cardinality_ \in [TableName -> Cardinal] /\ current_db_ \in DbName \cup {NoName}
        /\ col2distinct_ \in [TableName -> Cardinal]
    BY <1>3 DEF Typed
  <2>2. CASE System
    BY <2>1, <2>2
  <2>3. CASE All
    <3>1. /\ LoadCardinalities(table2cardinality_, rows) \in [TableName -> Cardinal]
          /\ LoadStatistics(col2distinct_, meta, db) \in [TableName -> Cardinal]
      BY <2>1, <1>3, <1>4, LoadCardinalitiesEffect, LoadStatisticsEffect
    <3> QED BY <2>3, <3>1, <1>4
  <2>4. CASE Some
    <3>1. PICK bad \in missing, done \in SUBSET (rows \ missing) :
            /\ db # SYSTEM_DATABASE_OID
            /\ LoadTableMeta(ExitNames, ExitOids, ExitTables, done \cup {bad}, done)
            /\ table2cardinality_' = LoadCardinalities(table2cardinality_, done)
            /\ UNCHANGED <<col2distinct_, current_db_>>
      BY <2>4
    <3>2. done \in SUBSET TableRows /\ done \cup {bad} \in SUBSET TableRows
      BY <1>4
    <3>3. LoadCardinalities(table2cardinality_, done) \in [TableName -> Cardinal]
      BY <2>1, <3>2, LoadCardinalitiesEffect
    <3> QED BY <2>1, <3>1, <3>2, <3>3
  <2> QED BY <1>7, <2>2, <2>3, <2>4
<1>8. ASSUME NEW entered \in SUBSET TableRows, NEW loaded \in SUBSET (rows \ missing),
             LoadTableMeta(ExitNames, ExitOids, ExitTables, entered, loaded),
             loaded \in SUBSET TableRows, db = SYSTEM_DATABASE_OID => loaded = {}
      PROVE  /\ name2oid_' \in [Key -> Oid \cup {INVALID_OID}]
             /\ oid2name_' \in [Oid -> TableName \cup DbName \cup {NoName}]
             /\ oid2table_' \in [Oid -> Oid \cup {INVALID_OID}]
             /\ \A oid \in Oid : oid > PRESERVED_OID /\ oid2table_'[oid] # INVALID_OID =>
                  /\ oid2table_'[oid] = db /\ db # SYSTEM_DATABASE_OID
                  /\ <<db, oid>> \in DOMAIN data
  <2>1. Overlaid(ExitNames, ExitOids, ExitTables, entered, loaded)
    BY <1>5, <1>8, LoadTableMetaEffect
  <2>2. ASSUME NEW oid \in Oid, oid > PRESERVED_OID, oid2table_'[oid] # INVALID_OID
        PROVE  /\ oid2table_'[oid] = db /\ db # SYSTEM_DATABASE_OID
               /\ <<db, oid>> \in DOMAIN data
    <3>1. PICK r \in loaded : r.oid = oid /\ oid2table_'[oid] = r.db_oid
      BY <2>1, <2>2, <1>5 DEF Overlaid
    <3>2. <<db, oid>> \in DOMAIN files /\ r.db_oid = db
      BY <3>1, <1>4
    <3> QED BY <3>1, <3>2, <1>3, <1>8 DEF SavedOK
  <2> QED BY <2>1, <2>2 DEF Overlaid
<1>9. Typed' /\ LoadedOK'
  <2>1. CASE db = cur /\ Same
    <3>1. Typed'
      BY <2>1, <1>1, <1>3, <1>6 DEF Typed, Counts
    <3>2. LoadedOK'
      BY <2>1, <1>1, <1>3 DEF LoadedOK
    <3> QED BY <3>1, <3>2
  <2>2. CASE System \/ All \/ Some
    <3>1. /\ \E entered \in SUBSET TableRows, loaded \in SUBSET (rows \ missing) :
                /\ LoadTableMeta(ExitNames, ExitOids, ExitTables, entered, loaded)
                /\ loaded \in SUBSET TableRows /\ (db = SYSTEM_DATABASE_OID => loaded = {})
          /\ table2cardinality_' \in [TableName -> Cardinal]
          /\ col2distinct_' \in [TableName -> Cardinal]
          /\ current_db_' \in DbName \cup {NoName}
      BY <2>2, <1>7
    <3>2. /\ name2oid_' \in [Key -> Oid \cup {INVALID_OID}]
          /\ oid2name_' \in [Oid -> TableName \cup DbName \cup {NoName}]
          /\ oid2table_' \in [Oid -> Oid \cup {INVALID_OID}]
          /\ \A oid \in Oid : oid > PRESERVED_OID /\ oid2table_'[oid] # INVALID_OID =>
               /\ oid2table_'[oid] = db /\ db # SYSTEM_DATABASE_OID
               /\ <<db, oid>> \in DOMAIN data
      BY <3>1, <1>8
    <3>3. Typed'
      BY <3>1, <3>2, <1>1, <1>3, <1>6 DEF Typed, Counts
    <3>4. LoadedOK'
      BY <3>2, <1>1, <1>3 DEF LoadedOK
    <3> QED BY <3>3, <3>4
  <2> QED BY <2>1, <2>2, <1>2
<1>10. SavedOK'
  BY <1>1, <1>3, <1>6 DEF SavedOK, Shape, StatRows, UserRows
<1>11. ASSUME Sound' PROVE SoundOK'
  <2>1. Sound /\ ~lost
    BY <1>1, <1>11 DEF Sound
  <2>2. /\ Shape(meta) /\ Below(meta, next_oid_) /\ FilesOf(meta) /\ Durable(meta, next_oid_)
        /\ Home(meta) /\ StatRows(meta) /\ NamesExact /\ StatsExact /\ CommittedRowsSurvive
        /\ \A r \in saved.tables : r.oid < next_oid_
    BY <2>1, SoundParts
  <2>3. DatabaseRow(db, name) \in meta.databases
    BY <2>2, <1>3 DEF NamesExact, db
  <2>4. db # cur
    <3> SUFFICES ASSUME db = cur PROVE FALSE
      OBVIOUS
    <3>1. DatabaseRow(db, current_db_) \in meta.databases
      BY <2>2, <1>3 DEF NamesExact
    <3> QED BY <3>1, <2>2, <2>3, <1>1 DEF Shape, DatabaseRow
  <2> DEFINE E == UserRowsOf(meta, db)
  <2>5. /\ E \in SUBSET TableRows
        /\ db # SYSTEM_DATABASE_OID => rows = E
        /\ db = SYSTEM_DATABASE_OID => E = {}
    BY <2>2, <1>3, UserRowsOfDatabase DEF rows
  <2>6. db # SYSTEM_DATABASE_OID => missing = {}
    <3>1. \A r \in E : <<db, r.oid>> \in DOMAIN files
      BY <2>2 DEF FilesOf, UserRowsOf
    <3> QED BY <3>1, <2>5 DEF missing, rows, Unopenable
  <2> HIDE DEF E
  <2>7. /\ LoadTableMeta(ExitNames, ExitOids, ExitTables, E, E) /\ current_db_' = name
        /\ IF db = SYSTEM_DATABASE_OID
             THEN UNCHANGED <<table2cardinality_, col2distinct_>>
             ELSE /\ table2cardinality_' = LoadCardinalities(table2cardinality_, E)
                  /\ col2distinct_' = LoadStatistics(col2distinct_, meta, db)
    BY <2>4, <2>5, <2>6, <1>2
  <2>8. NamesExact'
    <3>1. \A n \in DbName, oid \in Oid :
            ExitNames[<<"DATABASE", n>>] = oid <=> DatabaseRow(oid, n) \in meta.databases
      BY <2>2, <1>5 DEF NamesExact
    <3>2. ASSUME NEW n \in TableName \ UserTable PROVE ExitNames[<<"TABLE", n>>] < PRESERVED_OID
      <4>1. TableOid(n) < PRESERVED_OID /\ INVALID_OID < PRESERVED_OID
        BY <2>2 DEF NamesExact, INVALID_OID, PRESERVED_OID
      <4> QED BY <4>1, <1>5
    <3>3. \A n \in UserTable : ExitNames[<<"TABLE", n>>] # INVALID_OID =>
            /\ PRESERVED_OID < ExitNames[<<"TABLE", n>>]
            /\ ExitNames[<<"TABLE", n>>] < next_oid_'
            /\ n \in ghosts' /\ \A r \in meta.tables : r.oid # ExitNames[<<"TABLE", n>>]
      BY <2>1, <1>1, ExitGhosts
    <3>4. /\ Below(meta, next_oid_') /\ next_oid_' \in Nat /\ meta' = meta
          /\ current_database_oid_' = db /\ current_db_' \in DbName
          /\ ExitNames[<<"DATABASE", current_db_'>>] = db
      BY <2>2, <2>7, <1>1, <1>5, Types DEF db
    <3>5. LoadTableMeta(ExitNames, ExitOids, ExitTables, UserRowsOf(meta, db), UserRowsOf(meta, db))
      BY <2>7 DEF E
    <3> QED BY <3>1, <3>2, <3>3, <3>4, <3>5, <2>2, <1>3, <1>5, EnteredNames
  <2>9. \A r \in E : r \in UserRows(meta) /\ r.db_oid = db /\ r \in meta.tables
    BY DEF E, UserRowsOf, UserRows
  <2>10. UserRows(meta)' = UserRows(meta)
    BY <1>1 DEF UserRows
  <2>11. StatsExact'
    <3>1. /\ table2cardinality_ \in [TableName -> Cardinal]
          /\ col2distinct_ \in [TableName -> Cardinal]
      BY <1>3 DEF Typed
    <3>2. CASE db = SYSTEM_DATABASE_OID
      <4>1. \A r \in UserRows(meta) : r.db_oid # db
        BY <3>2, <2>5 DEF E, UserRowsOf
      <4> QED BY <4>1, <3>2, <2>2, <2>7, <2>10, <1>1 DEF StatsExact
    <3>3. CASE db # SYSTEM_DATABASE_OID
      <4>1. \A n \in TableName :
              \/ \E r \in E : r.name = n /\ table2cardinality_'[n] = r.cardinality
              \/ (\A r \in E : r.name # n) /\ table2cardinality_'[n] = table2cardinality_[n]
        BY <3>1, <3>3, <2>5, <2>7, LoadCardinalitiesEffect
      <4>2. \A n \in TableName :
              \/ \E s \in meta.statistics :
                   s.db_oid = db /\ s.name = n /\ col2distinct_'[n] = s.n_distinct
              \/ /\ \A s \in meta.statistics : ~(s.db_oid = db /\ s.name = n)
                 /\ col2distinct_'[n] = col2distinct_[n]
        BY <3>1, <3>3, <2>7, <1>3, LoadStatisticsEffect
      <4>3. ASSUME NEW r \in UserRows(meta), r.db_oid = db
            PROVE  table2cardinality_'[r.name] = r.cardinality
        <5>1. r \in E /\ r.name \in TableName /\ r \in meta.tables
          BY <4>3, <1>3, MetaRows DEF E, UserRowsOf, UserRows
        <5>2. PICK q \in E : q.name = r.name /\ table2cardinality_'[r.name] = q.cardinality
          BY <4>1, <5>1
        <5> QED BY <5>1, <5>2, <4>3, <2>2, <2>9 DEF Shape
      <4>4. ASSUME NEW n \in UserTable, born[n] = {}
            PROVE  table2cardinality_'[n] = INVALID_CARDINALITY
        <5>1. \A r \in E : r.name # n
          BY <4>4, <2>2, <2>9 DEF StatRows
        <5> QED BY <5>1, <4>1, <4>4, <2>2, Names DEF StatsExact
      <4>5. ASSUME NEW n \in UserTable, \A s \in meta.statistics : s.name # n
            PROVE  col2distinct_'[n] = INVALID_CARDINALITY
        BY <4>2, <4>5, <2>2, Names DEF StatsExact
      <4>6. ASSUME NEW s \in meta.statistics, s.db_oid = db
            PROVE  col2distinct_'[s.name] = s.n_distinct
        <5>1. s.name \in TableName
          BY <1>3, MetaRows
        <5> QED BY <5>1, <4>2, <4>6, <2>2 DEF StatRows
      <4> QED BY <4>3, <4>4, <4>5, <4>6, <2>10, <1>1 DEF StatsExact
    <3> QED BY <3>2, <3>3
  <2>12. Durable(meta, next_oid_)'
    <3>1. \A r \in RowsOf(meta, PRESERVED_OID) :
            files'[<<PRESERVED_OID, r.oid>>] = files[<<PRESERVED_OID, r.oid>>]
              \/ files'[<<PRESERVED_OID, r.oid>>] = committed[r.oid]
      BY <2>1, <2>2, <1>1, <1>6 DEF CommittedRowsSurvive
    <3> QED BY <3>1, <2>2, <2>10, <1>1 DEF Durable, RowsOf
  <2>13. /\ Shape(meta)' /\ Below(meta, next_oid_)' /\ StatRows(meta)'
         /\ \A r \in saved'.tables : r.oid < next_oid_'
    BY <2>2, <2>10, <1>1 DEF Shape, Below, StatRows
  <2>14. FilesOf(meta)' /\ Home(meta)' /\ CommittedRowsSurvive'
    BY <2>1, <2>2, <2>10, <1>1, <1>3, <1>6
       DEF FilesOf, Home, CommittedRowsSurvive, RowsOf, SavedOK
  <2> QED BY <2>8, <2>11, <2>12, <2>13, <2>14 DEF SoundOK
<1>12. SoundOK'
  BY <1>11 DEF SoundOK
<1> QED BY <1>1, <1>9, <1>10, <1>12, StaysUp DEF Inv

----------------------------------------------------------------------------
(* Opening the files again.                                                *)

LEMMA OpenStep ==
  ASSUME Inv, Open
  PROVE  Inv'
<1> DEFINE names == LoadedNames(saved.databases)
           db == names[<<"DATABASE", DEFAULT_DATABASE_NAME>>]
           E == UserRowsOf(saved, db)
           Fails == \/ db = INVALID_OID
                    \/ Unopenable(saved, db) # {}
                    \/ SYSTEM_DATABASE_OID \notin dirs
                    \/ ~normal_shutdown /\ RedoThrows(oid2table_', db)
<1>1. Typed /\ SavedOK /\ saved \in Meta
  BY Types
<1>2. /\ status = "down" /\ next_oid_' = control /\ normal_shutdown' = FALSE
      /\ meta' = saved /\ ghosts' = {}
      /\ current_database_oid_' = db /\ current_db_' = DEFAULT_DATABASE_NAME
      /\ LoadTableMeta(names, LoadedOids(names), SystemTables, RowsOf(saved, db), RowsOf(saved, db))
      /\ table2cardinality_' = LoadCardinalities(NoStatistics, RowsOf(saved, db))
      /\ col2distinct_' = LoadStatistics(NoStatistics, saved, db)
      /\ UNCHANGED <<logged, saved, files, dirs, control, committed, born, lost, collided>>
  BY DEF Open
<1>3. \/ /\ Fails \/ RedoMayThrow(oid2table_', db, oid2name_')
         /\ status' = "dead" /\ data' = files
      \/ /\ ~Fails /\ status' = "up"
         /\ IF normal_shutdown THEN data' = files
            ELSE \E garbled \in [damaged' -> 0 .. 2 * MaxRows] : data' = Redone(oid2name_', garbled)
  BY Zenon DEF Open, Recover
<1>4. ~collided
  BY <1>1, <1>2 DEF SavedOK
<1>5. /\ names \in [Key -> Oid \cup {INVALID_OID}]
      /\ \A n \in UserTable : names[<<"TABLE", n>>] = INVALID_OID
      /\ \A n \in TableName \ UserTable : names[<<"TABLE", n>>] < PRESERVED_OID
      /\ \A n \in DbName :
           \/ \E r \in saved.databases : r.name = n /\ names[<<"DATABASE", n>>] = r.oid
           \/ (\A r \in saved.databases : r.name # n) /\ names[<<"DATABASE", n>>] = INVALID_OID
  <2>1. saved.databases \in SUBSET [oid : Oid, name : DbName]
    BY <1>1 DEF Meta
  <2> QED BY <2>1, LoadedTyped
<1> HIDE DEF names
<1>6. /\ \/ db = PRESERVED_OID /\ \E r \in saved.databases : r.oid = PRESERVED_OID
         \/ db = INVALID_OID
      /\ (\E r \in saved.databases : r.name = DEFAULT_DATABASE_NAME) => db = PRESERVED_OID
      /\ db # SYSTEM_DATABASE_OID /\ db \in Oid \cup {INVALID_OID}
  BY <1>1, <1>5, Names, Oids DEF SavedOK, PRESERVED_OID, INVALID_OID, SYSTEM_DATABASE_OID
<1>7. E \in SUBSET TableRows /\ RowsOf(saved, db) = E
  BY <1>1, <1>6, UserRowsOfDatabase DEF SavedOK
<1> HIDE DEF db, E
<1>8. /\ LoadedOids(names) \in [Oid -> TableName \cup DbName \cup {NoName}]
      /\ LoadTableMeta(names, LoadedOids(names), SystemTables, E, E)
  BY <1>2, <1>5, <1>7, LoadedOidsTyped
<1>9. Overlaid(names, LoadedOids(names), SystemTables, E, E)
  BY <1>5, <1>7, <1>8, SystemTablesTyped, LoadTableMetaEffect
<1>10. /\ table2cardinality_' \in [TableName -> Cardinal]
       /\ \A n \in TableName :
            \/ \E r \in E : r.name = n /\ table2cardinality_'[n] = r.cardinality
            \/ (\A r \in E : r.name # n) /\ table2cardinality_'[n] = INVALID_CARDINALITY
  BY <1>2, <1>7, NoStatisticsTyped, LoadCardinalitiesEffect
<1>11. /\ col2distinct_' \in [TableName -> Cardinal]
       /\ \A n \in TableName :
            \/ \E s \in saved.statistics :
                 s.db_oid = db /\ s.name = n /\ col2distinct_'[n] = s.n_distinct
            \/ /\ \A s \in saved.statistics : ~(s.db_oid = db /\ s.name = n)
               /\ col2distinct_'[n] = INVALID_CARDINALITY
  <2>1. /\ LoadStatistics(NoStatistics, saved, db) \in [TableName -> Cardinal]
        /\ \A n \in TableName :
             \/ \E s \in saved.statistics : s.db_oid = db /\ s.name = n
                  /\ LoadStatistics(NoStatistics, saved, db)[n] = s.n_distinct
             \/ /\ \A s \in saved.statistics : ~(s.db_oid = db /\ s.name = n)
                /\ LoadStatistics(NoStatistics, saved, db)[n] = NoStatistics[n]
    BY <1>1, NoStatisticsTyped, LoadStatisticsEffect
  <2> QED BY <2>1, <1>2, NoStatisticsTyped
<1>12. \A r \in E : /\ r \in UserRows(saved) /\ r \in saved.tables /\ r.db_oid = db
                    /\ r.name \in UserTable /\ r.oid \in Oid /\ r.oid > PRESERVED_OID
  <2> SUFFICES ASSUME NEW r \in E
               PROVE  /\ r \in UserRows(saved) /\ r \in saved.tables /\ r.db_oid = db
                      /\ r.name \in UserTable /\ r.oid \in Oid /\ r.oid > PRESERVED_OID
    OBVIOUS
  <2>1. r \in UserRows(saved) /\ r \in saved.tables /\ r.db_oid = db
    BY DEF E, UserRowsOf, UserRows
  <2> QED BY <2>1, <1>1, UserRow, MetaRows DEF SavedOK
<1>13. /\ \A p \in DOMAIN files : files[p] \in Nat /\ p \in Oid \X Oid
       /\ \A oid \in DOMAIN logged : logged[oid] \in Nat
  BY <1>1 DEF Typed, Counts
<1>14. /\ Counts(data', Oid \X Oid) /\ DOMAIN data' = DOMAIN files
       /\ status' \in {"up", "dead"}
  <2>1. ASSUME NEW garbled \in [damaged' -> 0 .. 2 * MaxRows]
        PROVE  /\ Counts(Redone(oid2name_', garbled), Oid \X Oid)
               /\ DOMAIN Redone(oid2name_', garbled) = DOMAIN files
    <3>1. \A oid \in DOMAIN garbled : garbled[oid] \in Nat
      BY CatalogBounds
    <3>2. \A oid \in Redoable(oid2name_') : logged[oid] \in Nat
      BY <1>13 DEF Redoable
    <3> QED BY <3>1, <3>2, <1>13 DEF Redone, Counts
  <2>2. Counts(files, Oid \X Oid)
    BY <1>1 DEF Typed
  <2> QED BY <2>1, <2>2, <1>3
<1> HIDE DEF Fails
<1>15. Typed'
  <2>1. /\ name2oid_' \in [Key -> Oid \cup {INVALID_OID}]
        /\ oid2name_' \in [Oid -> TableName \cup DbName \cup {NoName}]
        /\ oid2table_' \in [Oid -> Oid \cup {INVALID_OID}]
    BY <1>9 DEF Overlaid
  <2>2. /\ next_oid_' \in NextOid /\ control' \in NextOid
        /\ current_db_' \in DbName \cup {NoName}
        /\ normal_shutdown' \in BOOLEAN /\ lost' \in BOOLEAN /\ collided' \in BOOLEAN
        /\ ghosts' \subseteq UserTable /\ born' \in [UserTable -> SUBSET Oid]
        /\ meta' \in Meta /\ saved' \in Meta
    BY <1>1, <1>2, Names DEF Typed
  <2>3. Counts(files', Oid \X Oid) /\ Counts(logged', Oid) /\ Counts(committed', Oid)
    BY <1>1, <1>2 DEF Typed, Counts
  <2> QED BY <2>1, <2>2, <2>3, <1>2, <1>6, <1>10, <1>11, <1>14 DEF Typed
<1>16. SavedOK'
  <2>1. Shape(saved)' /\ StatRows(saved)'
    BY <1>1, <1>2 DEF SavedOK, Shape, StatRows, UserRows
  <2> QED BY <2>1, <1>1, <1>2, <1>4, <1>14 DEF SavedOK
<1>17. LoadedOK'
  <2> SUFFICES ASSUME status' = "up" PROVE LoadedOK'
    BY DEF LoadedOK
  <2>1. ~Fails
    BY <1>3
  <2>2. db = PRESERVED_OID /\ db \in Oid /\ \E r \in meta'.databases : r.oid = PRESERVED_OID
    BY <2>1, <1>2, <1>6, Oids DEF Fails
  <2>3. \A r \in E : <<db, r.oid>> \in DOMAIN data'
    BY <2>1, <1>7, <1>14 DEF Fails, Unopenable
  <2>4. ASSUME NEW oid \in Oid, oid > PRESERVED_OID, oid2table_'[oid] # INVALID_OID
        PROVE  oid2table_'[oid] = db /\ <<db, oid>> \in DOMAIN data'
    <3>1. SystemTables[oid] = INVALID_OID
      BY <2>4, Oids, SystemTablesTyped DEF PRESERVED_OID
    <3>2. PICK r \in E : r.oid = oid /\ oid2table_'[oid] = r.db_oid
      BY <2>4, <3>1, <1>9 DEF Overlaid
    <3> QED BY <3>2, <2>3, <1>12
  <2> QED BY <2>2, <2>4, <1>2, <1>6 DEF LoadedOK
<1>18. ASSUME ~lost
       PROVE  /\ Below(saved, control) /\ FilesOf(saved) /\ Durable(saved, control) /\ Home(saved)
              /\ Shape(saved) /\ StatRows(saved)
  BY <1>1, <1>2, <1>18 DEF Inv, OnDisk, SavedOK
<1>19. UserRows(meta)' = UserRows(saved)
  BY <1>2 DEF UserRows
<1>20. ASSUME Sound' PROVE SoundOK'
  <2>1. /\ ~lost /\ status' = "up" /\ ~Fails
    BY <1>2, <1>3, <1>20 DEF Sound
  <2>2. db = PRESERVED_OID /\ db \in Oid
    BY <2>1, <1>6, Oids DEF Fails
  <2>3. /\ Shape(meta)' /\ Below(meta, next_oid_)' /\ FilesOf(meta)' /\ Home(meta)'
        /\ StatRows(meta)' /\ \A r \in saved'.tables : r.oid < next_oid_'
    <3>1. Shape(meta)' /\ Below(meta, next_oid_)' /\ \A r \in saved'.tables : r.oid < next_oid_'
      BY <2>1, <1>2, <1>18 DEF Shape, Below
    <3>2. FilesOf(meta)' /\ Home(meta)' /\ StatRows(meta)'
      BY <2>1, <1>2, <1>18, <1>19 DEF FilesOf, Home, StatRows
    <3> QED BY <3>1, <3>2
  <2>4. Durable(meta, next_oid_)'
    BY <2>1, <1>2, <1>18, <1>19 DEF Durable, RowsOf
  <2>5. NamesExact'
    <3>1. ASSUME NEW n \in DbName, NEW oid \in Oid
          PROVE  names[<<"DATABASE", n>>] = oid <=> DatabaseRow(oid, n) \in saved.databases
      <4>1. oid # INVALID_OID
        BY Oids
      <4>2. CASE \E r \in saved.databases : r.name = n /\ names[<<"DATABASE", n>>] = r.oid
        <5>1. PICK r \in saved.databases : r.name = n /\ names[<<"DATABASE", n>>] = r.oid
          BY <4>2
        <5>2. r = DatabaseRow(r.oid, n)
          BY <5>1, <1>1, MetaRows
        <5>3. DatabaseRow(oid, n) \in saved.databases => DatabaseRow(oid, n) = r
          BY <2>1, <5>1, <1>18 DEF Shape, DatabaseRow
        <5>4. DatabaseRow(oid, n).oid = oid
          BY DEF DatabaseRow
        <5> QED BY <5>1, <5>2, <5>3, <5>4
      <4>3. CASE (\A r \in saved.databases : r.name # n) /\ names[<<"DATABASE", n>>] = INVALID_OID
        BY <4>1, <4>3 DEF DatabaseRow
      <4> QED BY <4>2, <4>3, <1>5
    <3>2. \A oid \in Oid : oid > PRESERVED_OID => SystemTables[oid] = INVALID_OID
      BY Oids, SystemTablesTyped DEF PRESERVED_OID
    <3>3. /\ Below(saved, next_oid_') /\ next_oid_' \in Nat
          /\ current_db_' \in DbName /\ names[<<"DATABASE", current_db_'>>] = db
      BY <2>1, <1>1, <1>2, <1>18, Oids, Names DEF Typed, db
    <3>4. LoadTableMeta(names, LoadedOids(names), SystemTables, UserRowsOf(saved, db),
                        UserRowsOf(saved, db))
      BY <1>8 DEF E
    <3> QED BY <3>1, <3>2, <3>3, <3>4, <2>1, <2>2, <1>1, <1>2, <1>5, <1>8, <1>18,
               SystemTablesTyped, EnteredNames
  <2>6. StatsExact'
    <3>1. ASSUME NEW r \in UserRows(saved), r.db_oid = db
          PROVE  table2cardinality_'[r.name] = r.cardinality
      <4>1. r \in E /\ r.name \in TableName
        BY <3>1, <1>12, Names DEF E, UserRowsOf
      <4>2. PICK q \in E : q.name = r.name /\ table2cardinality_'[r.name] = q.cardinality
        BY <4>1, <1>10
      <4> QED BY <4>1, <4>2, <2>1, <1>12, <1>18 DEF Shape
    <3>2. ASSUME NEW n \in UserTable, born[n] = {}
          PROVE  table2cardinality_'[n] = INVALID_CARDINALITY
      <4>1. \A r \in E : r.name # n
        BY <3>2, <2>1, <1>12, <1>18 DEF StatRows
      <4> QED BY <4>1, <1>10, Names
    <3>3. ASSUME NEW n \in UserTable, \A s \in saved.statistics : s.name # n
          PROVE  col2distinct_'[n] = INVALID_CARDINALITY
      BY <3>3, <1>11, Names
    <3>4. ASSUME NEW s \in saved.statistics, s.db_oid = db
          PROVE  col2distinct_'[s.name] = s.n_distinct
      <4>1. s.name \in TableName
        BY <1>1, MetaRows
      <4> QED BY <4>1, <3>4, <2>1, <1>11, <1>18 DEF StatRows
    <3> QED BY <3>1, <3>2, <3>3, <3>4, <1>2, <1>19 DEF StatsExact
  <2>7. CommittedRowsSurvive'
    <3> SUFFICES ASSUME NEW r \in RowsOf(saved, PRESERVED_OID), r.oid \notin damaged'
                 PROVE  data'[<<PRESERVED_OID, r.oid>>] = committed[r.oid]
      BY <1>2 DEF CommittedRowsSurvive, RowsOf
    <3> DEFINE place == <<PRESERVED_OID, r.oid>>
    <3>1. r \in E
      BY <2>2, <1>7
    <3>2. place \in DOMAIN files /\ place[2] = r.oid
      BY <3>1, <2>1, <2>2, <1>12, <1>18 DEF FilesOf
    <3>3. OidExists(oid2name_', r.oid)
      <4>1. oid2name_'[r.oid] = r.name
        BY <3>1, <2>5, <1>2, <1>12, <1>19 DEF NamesExact
      <4> QED BY <4>1, <3>1, <1>12, Names DEF OidExists
    <3>4. IF r.oid \in DOMAIN logged THEN logged[r.oid] = committed[r.oid]
          ELSE files[place] = committed[r.oid]
      BY <2>1, <1>18 DEF Durable
    <3>5. CASE normal_shutdown
      <4>1. DOMAIN logged = {}
        BY <3>5, <1>1, NoCounts DEF SavedOK
      <4> QED BY <4>1, <3>4, <3>5, <2>1, <1>3
    <3>6. CASE ~normal_shutdown
      <4>1. PICK garbled \in [damaged' -> 0 .. 2 * MaxRows] : data' = Redone(oid2name_', garbled)
        BY <3>6, <2>1, <1>3
      <4>2. data'[place] = IF r.oid \in DOMAIN logged THEN logged[r.oid] ELSE files[place]
        BY <3>2, <3>3, <4>1 DEF Redone, Redoable
      <4> QED BY <4>2, <3>4
    <3> QED BY <3>5, <3>6, <1>1 DEF Typed
  <2> QED BY <2>3, <2>4, <2>5, <2>6, <2>7 DEF SoundOK
<1>21. SoundOK'
  BY <1>20 DEF SoundOK
<1>22. ASSUME HomeSafe PROVE OpensAfterCrash'
  <2> DEFINE Short(p, oid) ==
        p[2] = oid /\ (files[p] = 0 \/ (p[1] # PRESERVED_OID /\ files[p] < logged[oid]))
  <2> SUFFICES ASSUME status' = "dead", ~lost
               PROVE  \E oid \in DOMAIN logged :
                        \/ ~\E r \in saved.tables : r.oid = oid
                        \/ \E p \in DOMAIN files : Short(p, oid)
    BY <1>2 DEF OpensAfterCrash
  <2>1. Fails \/ RedoMayThrow(oid2table_', db, oid2name_')
    BY <1>3
  <2>2. db = PRESERVED_OID /\ db # INVALID_OID /\ SYSTEM_DATABASE_OID \in dirs
    BY <1>6, <1>18, <1>22 DEF Home, PRESERVED_OID, INVALID_OID
  <2>3. Unopenable(saved, db) = {}
    BY <1>7, <1>12, <1>18 DEF Unopenable, FilesOf
  <2>4. RedoThrows(oid2table_', db) \/ RedoMayThrow(oid2table_', db, oid2name_')
    BY <2>1, <2>2, <2>3 DEF Fails
  <2>5. PICK oid \in DOMAIN logged :
          LET place == <<DatabaseOid(oid2table_', db, oid), oid>>
          IN  \/ place \notin DOMAIN files \/ files[place] = 0
              \/ ~OidExists(oid2name_', oid) /\ files[place] < logged[oid]
    BY <2>4 DEF RedoThrows, RedoMayThrow
  <2>6. oid \in Oid /\ oid > PRESERVED_OID
    BY <1>1, <1>18 DEF Durable, Typed, Counts
  <2>7. ASSUME NEW q \in saved.tables, q.oid = oid
        PROVE  \E p \in DOMAIN files : Short(p, oid)
    <3>1. q \in UserRows(saved) /\ <<q.db_oid, oid>> \in DOMAIN files
      BY <2>6, <2>7, <1>18 DEF UserRows, FilesOf
    <3>2. DatabaseOid(oid2table_', db, oid) = q.db_oid
      <4>1. CASE oid2table_'[oid] # INVALID_OID
        <5>1. SystemTables[oid] = INVALID_OID
          BY <2>6, Oids, SystemTablesTyped DEF PRESERVED_OID
        <5>2. PICK r \in E : r.oid = oid
          BY <4>1, <5>1, <2>6, <1>9 DEF Overlaid
        <5>3. r = q
          BY <5>2, <2>7, <1>12, <1>18 DEF Shape
        <5> QED BY <4>1, <5>2, <5>3, <1>12 DEF DatabaseOid
      <4>2. CASE oid2table_'[oid] = INVALID_OID
        <5> DEFINE c == CHOOSE r \in saved.tables : r.oid = oid
        <5>1. c \in saved.tables /\ c.oid = oid
          BY <2>7
        <5>2. DatabaseOid(oid2table_', db, oid) = c.db_oid
          BY <4>2, <2>7 DEF DatabaseOid
        <5> HIDE DEF c
        <5> QED BY <5>1, <5>2, <2>7, <1>18 DEF Shape
      <4> QED BY <4>1, <4>2
    <3>3. ASSUME q.db_oid = PRESERVED_OID PROVE OidExists(oid2name_', oid)
      <4>1. q \in E
        BY <3>1, <3>3, <2>2 DEF E, UserRowsOf
      <4>2. PICK r \in E : oid2name_'[oid] = r.name
        BY <4>1, <2>6, <2>7, <1>9 DEF Overlaid
      <4> QED BY <4>2, <1>12, Names DEF OidExists
    <3>4. Short(<<q.db_oid, oid>>, oid)
      BY <3>1, <3>2, <3>3, <2>5
    <3> HIDE DEF Short
    <3> QED BY <3>1, <3>4
  <2> QED BY <2>7
<1> QED BY <1>14, <1>15, <1>16, <1>17, <1>21, <1>22 DEF Inv, OnDisk

----------------------------------------------------------------------------
(* The theorems.                                                           *)

LEMMA NextInv ==
  ASSUME Inv, [Next]_vars
  PROVE  Inv'
<1>1. CASE Next
  <2>1. ASSUME NEW name \in UserDb, CreateDatabase(name) PROVE Inv'
    BY <2>1, CreateDatabaseStep
  <2>2. ASSUME NEW name \in DbName \cap Droppable, DropDatabase(name) PROVE Inv'
    BY <2>2, DropDatabaseStep
  <2>3. ASSUME NEW name \in DbName, ChangeDatabase(name) PROVE Inv'
    BY <2>3, ChangeDatabaseStep
  <2>4. ASSUME NEW name \in UserTable, CreateTable(name) PROVE Inv'
    BY <2>4, CreateTableStep
  <2>5. ASSUME NEW name \in UserTable, Insert(name) PROVE Inv'
    BY <2>5, InsertStep
  <2>6. ASSUME NEW name \in UserTable, Analyze(name) PROVE Inv'
    BY <2>6, AnalyzeStep
  <2>7. ASSUME NEW name \in TableName \cap Droppable, DropTable(name) PROVE Inv'
    BY <2>7, DropTableStep
  <2>8. Flush \/ CloseDatabase \/ Crash \/ Open => Inv'
    BY FlushStep, CloseDatabaseStep, CrashStep, OpenStep
  <2> QED BY <1>1, <2>1, <2>2, <2>3, <2>4, <2>5, <2>6, <2>7, <2>8 DEF Next
<1>2. CASE UNCHANGED vars
  <2>1. /\ UNCHANGED <<name2oid_, oid2name_, next_oid_, oid2table_, current_database_oid_,
                       current_db_, table2cardinality_, col2distinct_>>
        /\ UNCHANGED <<meta, data, logged, status, saved, files, dirs, control, normal_shutdown>>
        /\ UNCHANGED <<committed, ghosts, born, lost, collided, damaged>>
    BY <1>2 DEF vars, memory, disk, history
  <2>2. Typed' /\ OpensAfterCrash' = OpensAfterCrash
    BY <2>1 DEF Inv, Typed, Counts, OpensAfterCrash
  <2>3. SavedOK' /\ LoadedOK'
    BY <2>1 DEF Inv, SavedOK, LoadedOK, Shape, StatRows, UserRows
  <2>4. OnDisk'
    BY <2>1 DEF Inv, OnDisk, Below, FilesOf, Durable, Home, UserRows, RowsOf
  <2>5. SoundOK'
    <3> SUFFICES ASSUME Sound PROVE SoundOK'
      BY <2>1 DEF SoundOK, Sound
    <3>1. NamesExact'
      BY <2>1, SoundParts DEF NamesExact, TableOid, DatabaseOidOf, UserRows
    <3>2. StatsExact' /\ StatRows(meta)' /\ Shape(meta)'
      BY <2>1, SoundParts DEF StatsExact, StatRows, Shape, UserRows
    <3>3. /\ Below(meta, next_oid_)' /\ FilesOf(meta)' /\ Durable(meta, next_oid_)' /\ Home(meta)'
          /\ CommittedRowsSurvive' /\ \A r \in saved'.tables : r.oid < next_oid_'
      BY <2>1, SoundParts
         DEF Below, FilesOf, Durable, Home, CommittedRowsSurvive, RowsOf, UserRows
    <3> QED BY <3>1, <3>2, <3>3 DEF SoundOK
  <2> QED BY <2>2, <2>3, <2>4, <2>5 DEF Inv
<1> QED BY <1>1, <1>2

\* In every state of every run of statements, flushes, shutdowns, crashes and
\* reopenings, memory and disk agree with the rows as the parts of Inv say.
THEOREM CatalogInvariant == Spec => []Inv
<1>1. Init => Inv
  BY InitInv
<1>2. Inv /\ [Next]_vars => Inv'
  BY NextInv
<1> QED BY <1>1, <1>2, PTL DEF Spec

\* Names, oids, loaded tables and the current database of SystemCatalog,
\* OidManager and the engine agree with the rows of the system tables, whatever
\* was created, dropped, left, entered, shut down and reopened.
THEOREM CatalogConsistent == Spec => []CatalogInv
<1>1. ASSUME Inv PROVE CatalogInv
  <2>1. TypeOK
    BY <1>1, Types DEF TypeOK, Typed, SavedOK, LoadedOK
  <2>2. CurrentAgrees
    BY <1>1, SoundParts DEF CurrentAgrees, NamesExact, DatabaseOidOf
  <2>3. CatalogExact
    <3> SUFFICES ASSUME Sound PROVE CatalogExact
      BY DEF CatalogExact
    <3>1. NamesExact /\ Shape(meta) /\ meta \in Meta
      BY <1>1, SoundParts, Types
    <3>2. ASSUME NEW n \in UserTable \ ghosts, NEW oid \in Oid, TableOid(n) = oid
          PROVE  /\ \E r \in meta.tables :
                      r.oid = oid /\ r.db_oid = current_database_oid_ /\ r.name = n
                 /\ oid2table_[oid] = current_database_oid_ /\ oid2name_[oid] = n
      <4>1. oid # INVALID_OID
        BY Oids
      <4>2. PICK r \in meta.tables : r.oid = oid
        BY <3>1, <3>2, <4>1 DEF NamesExact
      <4>3. r.db_oid = current_database_oid_ /\ r.name = n /\ r \in UserRows(meta)
        BY <3>1, <3>2, <4>1, <4>2 DEF NamesExact, UserRows
      <4> QED BY <3>1, <4>2, <4>3 DEF NamesExact
    <3>3. ASSUME NEW n \in UserTable \ ghosts, NEW oid \in Oid,
                 \E r \in meta.tables :
                   r.oid = oid /\ r.db_oid = current_database_oid_ /\ r.name = n
          PROVE  TableOid(n) = oid
      BY <3>1, <3>3, UserRow DEF NamesExact
    <3>4. \A n \in DbName, oid \in Oid :
            DatabaseOidOf(n) = oid <=> DatabaseRow(oid, n) \in meta.databases
      BY <3>1 DEF NamesExact
    <3> QED BY <3>2, <3>3, <3>4 DEF CatalogExact, TableOid, DatabaseOidOf
  <2> QED BY <2>1, <2>2, <2>3 DEF CatalogInv
<1> QED BY <1>1, CatalogInvariant, PTL

\* OidManager gives out no oid that a table or a database still has, unless a
\* crash has undone DDL and with it the next oid.
THEOREM OidsAreFresh == Spec => []OidsFresh
<1>1. Inv => OidsFresh
  BY DEF Inv, SavedOK, OidsFresh
<1> QED BY <1>1, CatalogInvariant, PTL

\* Every user table has its file and every file its table: DropTable and
\* DropDatabase remove the files of what they drop and no other.
THEOREM FilesAreExact == Spec => []FilesMatchRows
<1>1. ASSUME Inv PROVE FilesMatchRows
  <2> SUFFICES ASSUME Sound PROVE FilesMatchRows
    BY DEF FilesMatchRows
  <2>1. FilesOf(meta)
    BY <1>1, SoundParts
  <2> QED BY <2>1 DEF FilesMatchRows, FilesOf, UserRows
<1> QED BY <1>1, CatalogInvariant, PTL

\* The statistics that the optimizer reads for a name that has meant one table
\* only are those Analyze last wrote, through \c and restarts.
THEOREM StatisticsAreExact == Spec => []StatisticsExact
<1>1. ASSUME Inv PROVE StatisticsExact
  <2> SUFFICES ASSUME Sound, NEW n \in UserTable \ ghosts, NEW r \in meta.tables,
                      r.name = n, r.db_oid = current_database_oid_, born[n] = {r.oid}
               PROVE  /\ table2cardinality_[n] = r.cardinality
                      /\ LET rows == {s \in meta.statistics : s.name = n /\ s.db_oid = r.db_oid}
                         IN  IF rows = {} THEN col2distinct_[n] = INVALID_CARDINALITY
                             ELSE \E s \in rows : rows = {s} /\ col2distinct_[n] = s.n_distinct
    BY DEF StatisticsExact
  <2> DEFINE rows == {s \in meta.statistics : s.name = n /\ s.db_oid = r.db_oid}
  <2>1. /\ StatsExact /\ StatRows(meta) /\ r \in UserRows(meta)
    BY <1>1, SoundParts, Types, UserRow
  <2>2. table2cardinality_[n] = r.cardinality
    BY <2>1 DEF StatsExact
  <2>3. CASE rows = {}
    <3>1. \A s \in meta.statistics : s.name # n
      BY <2>1, <2>3 DEF StatRows
    <3>2. col2distinct_[n] = INVALID_CARDINALITY
      BY <2>1, <3>1 DEF StatsExact
    <3> QED BY <2>2, <2>3, <3>2
  <2>4. CASE rows # {}
    <3>1. PICK s \in meta.statistics : s.name = n /\ s.db_oid = r.db_oid
      BY <2>4
    <3>2. \A t \in rows : t = s
      BY <2>1, <3>1 DEF StatRows
    <3>3. col2distinct_[n] = s.n_distinct
      BY <2>1, <3>1 DEF StatsExact
    <3>4. s \in rows /\ rows = {s}
      BY <3>1, <3>2
    <3> HIDE DEF rows
    <3>5. IF rows = {} THEN col2distinct_[n] = INVALID_CARDINALITY
          ELSE \E t \in rows : rows = {t} /\ col2distinct_[n] = t.n_distinct
      BY <2>4, <3>3, <3>4
    <3> QED BY <2>2, <3>5 DEF rows
  <2> QED BY <2>3, <2>4
<1> QED BY <1>1, CatalogInvariant, PTL

\* Every committed row of every table of the default database is there again,
\* once, after Open has redone the log, for the tables whose pages redo restores
\* (TableHeap), however many tables, databases, shutdowns and crashes there are.
THEOREM CommittedRowsStay == Spec => []CommittedRowsSurvive
<1>1. Inv => CommittedRowsSurvive
  BY SoundParts DEF CommittedRowsSurvive
<1> QED BY <1>1, CatalogInvariant, PTL

\* If clients drop neither the system nor the default database, Open succeeds
\* after a crash that undid no DDL, except over the log of a table that was
\* dropped, or got its first page, since the last shutdown, or is in another
\* database and has rows that are not in its file.
THEOREM OpensAgain ==
  ASSUME HomeSafe
  PROVE  Spec => []OpensAfterCrash
<1>1. Inv => OpensAfterCrash
  BY HomeSafe DEF Inv
<1> QED BY <1>1, CatalogInvariant, PTL

============================================================================
