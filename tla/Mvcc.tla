------------------------------- MODULE Mvcc -------------------------------
(***************************************************************************)
(* Transactions reading and writing the versions of one table: the record  *)
(* headers (xmin, xmax, cid), the visibility test of                       *)
(* table/table_scan.cpp, the executors that scan, lock, insert, delete and *)
(* update, and the undo that a rollback performs, over the transaction     *)
(* table and the lock manager.                                             *)
(*                                                                         *)
(* The versions are the sequence a scan walks through: the slots of the    *)
(* table's first page, which an earlier transaction created and which has  *)
(* room for MaxRows versions, so a new version comes last and a rollback   *)
(* never undoes a page allocation.  A record's columns are left out.       *)
(*                                                                         *)
(* The server runs one thread per client, so the calls of different        *)
(* statements interleave: one step here is one call of SeqScanExecutor::   *)
(* Next, or one pass through the body of a modifying executor's loop.  An  *)
(* auto-commit statement is a transaction whose client commits after a     *)
(* success and rolls back after an exception; both are open to any client. *)
(***************************************************************************)
EXTENDS Integers, Sequences, FiniteSets

CONSTANTS
  MaxXid, MaxCid,
  MaxRows,    \* bound on the versions of the table
  InitRows,   \* versions a committed transaction left in the table
  Kinds,      \* the statements clients run
  LockModes,  \* table lock types of LOCK statements clients run
  Table, NoLock

\* The one table of the model.
ASSUME TableAssumption == Cardinality(Table) = 1
ASSUME RowBounds == InitRows \in 1 .. MaxRows /\ MaxRows \in Nat
ASSUME XactBounds == MaxXid \in Nat \ {0} /\ MaxCid \in Nat

\* LOCK TABLE takes S for SHARE and X for EXCLUSIVE.
ASSUME LockAssumption == NoLock \notin {"IS", "IX", "S", "SIX", "X"} /\ LockModes \subseteq {"S", "X"}

Rid == 1 .. MaxRows
TableOid == CHOOSE t \in Table : TRUE

\* Isolation levels a SET statement may choose before any statement.
IsolationLevel == {"READ_COMMITTED", "REPEATABLE_READ", "SERIALIZABLE"}

VARIABLES
  next_xid_, xid2cid_, xid2active_set_,
  tableLocks, rowLocks, heldTable, heldRow,
  records,    \* the versions of the table, in scan order
  stmt,       \* the statement each transaction is executing
  outcome,    \* history: how each transaction ended
  seen,       \* history: transactions committed when each one began
  deleters,   \* history: who deleted each version and has not rolled back
  redeleted   \* history: versions deleted again after a committed delete

xactVars == <<next_xid_, xid2cid_, xid2active_set_>>
lockVars == <<tableLocks, rowLocks, heldTable, heldRow>>
history == <<outcome, seen, deleters, redeleted>>
vars == <<next_xid_, xid2cid_, xid2active_set_, tableLocks, rowLocks, heldTable, heldRow,
          records, stmt, outcome, seen, deleters, redeleted>>

TM == INSTANCE TransactionManager
LM == INSTANCE LockManager WITH Xid <- 1 .. MaxXid

Xid == 1 .. MaxXid
NULL_XID == MaxXid + 1    \* the largest xid_t, above every transaction
NULL_PAGE == 0            \* scan position when rid_.page_id_ is NULL_PAGE_ID
NoStmt == [kind |-> "none"]

Record == [xmin : Xid, xmax : Xid \cup {NULL_XID}, cid : 1 .. MaxCid + 1]

Active == TM!GetActiveTransactions

----------------------------------------------------------------------------
(* Visibility (TableScan::CanGet answers true when the record is hidden).   *)

\* Mutant of HiddenReadCommitted: the statement meets its own new versions.
HiddenNoHalloween(record, xid, cid, active_xids) ==
  \/ record.xmin # xid /\ record.xmin \in active_xids
  \/ record.xmax = xid
  \/ record.xmax # NULL_XID /\ record.xmax \notin active_xids

HiddenReadCommitted(record, xid, cid, active_xids) ==
  \/ record.cid = cid /\ record.xmin = xid
  \/ record.xmin # xid /\ record.xmin \in active_xids
  \/ record.xmax = xid
  \/ record.xmax # NULL_XID /\ record.xmax \notin active_xids

\* Mutant of HiddenRepeatableRead: later transactions' deletes count.
HiddenIgnoringOrder(record, xid, cid, active_xids) ==
  \/ record.cid = cid /\ record.xmin = xid
  \/ record.xmin # xid /\ record.xmin \in active_xids
  \/ record.xmin > xid
  \/ record.xmax = xid
  \/ record.xmax # NULL_XID /\ record.xmax \notin active_xids

\* active_xids is the transaction's snapshot, which never contains xid.
HiddenRepeatableRead(record, xid, cid, active_xids) ==
  \/ record.cid = cid /\ record.xmin = xid
  \/ record.xmin # xid /\ record.xmin \in active_xids
  \/ record.xmin \in active_xids /\ record.xmin = xid /\ record.xmax = xid
  \/ /\ record.xmin \notin active_xids
     /\ \/ record.xmin > xid
        \/ record.xmax = xid
        \/ record.xmax \notin active_xids /\ record.xmax <= xid

HiddenSerializable(record, xid, cid, active_xids) ==
  \/ record.xmin # xid /\ record.xmin \in active_xids
  \/ record.xmax = xid
  \/ record.cid = cid /\ record.xmin = xid
  \/ record.xmax # NULL_XID /\ record.xmax \notin active_xids

CanGet(record, xid, cid, isolation_level, active_xids) ==
  CASE isolation_level = "READ_COMMITTED" -> HiddenReadCommitted(record, xid, cid, active_xids)
    [] isolation_level = "REPEATABLE_READ" -> HiddenRepeatableRead(record, xid, cid, active_xids)
    [] isolation_level = "SERIALIZABLE" -> HiddenSerializable(record, xid, cid, active_xids)

\* The set SeqScanExecutor::Next passes to the scan.
ActiveXids(xid, isolation_level) ==
  IF isolation_level = "REPEATABLE_READ" THEN TM!GetSnapshot(xid) ELSE Active

\* The positions from rid on that GetNextRecord would return.
VisibleFrom(xid, s) ==
  {i \in 1 .. Len(records) :
     /\ s.rid # NULL_PAGE /\ i >= s.rid
     /\ ~CanGet(records[i], xid, s.cid, s.isolation_level, ActiveXids(xid, s.isolation_level))}

----------------------------------------------------------------------------

Init ==
  /\ next_xid_ = 2
  /\ xid2cid_ = [x \in Xid |-> TM!NoCid]
  /\ xid2active_set_ = [x \in Xid |-> TM!NoSnapshot]
  /\ LM!Init
  /\ records = [i \in 1 .. InitRows |-> [xmin |-> 1, xmax |-> NULL_XID, cid |-> 1]]
  /\ stmt = [x \in Xid |-> NoStmt]
  /\ outcome = [x \in Xid |-> IF x = 1 THEN "committed" ELSE "none"]
  /\ seen = [x \in Xid |-> {}]
  /\ deleters = [r \in Rid |-> {}]
  /\ redeleted = {}

Begin ==
  /\ TM!Begin
  /\ outcome' = [outcome EXCEPT ![next_xid_] = "active"]
  /\ seen' = [seen EXCEPT ![next_xid_] = {x \in Xid : outcome[x] = "committed"}]
  /\ UNCHANGED <<records, stmt, deleters, redeleted>>

Idle(xid) == xid \in Active /\ stmt[xid] = NoStmt

\* ExecuteSql builds the executor context: the statement gets the next cid and
\* its scan starts at the table's first page.
Start(xid) ==
  /\ Idle(xid)
  /\ TM!GetCidAndIncrement(xid)
  /\ \E kind \in Kinds, isolation_level \in IsolationLevel :
       stmt' = [stmt EXCEPT ![xid] =
                  [kind |-> kind, isolation_level |-> isolation_level, cid |-> xid2cid_[xid],
                   rid |-> 1, record |-> 0,
                   at |-> IF kind = "insert" THEN "insert" ELSE "scan"]]
  /\ UNCHANGED <<records, history>>

\* A thrown exception or the end of the scan ends the statement.  What an
\* explicit transaction has done so far stays.
End(xid) == stmt' = [stmt EXCEPT ![xid] = NoStmt]

\* SeqScanExecutor::Next: an IS lock on the table, then the next visible
\* record, remembering where the scan goes on.
ScanNext(xid) ==
  LET s == stmt[xid]
      visible == VisibleFrom(xid, s)
      found == CHOOSE i \in visible : \A j \in visible : i <= j
      kept == s.kind \in {"share", "for_update", "delete", "update"}
  IN
  /\ s # NoStmt /\ s.at = "scan"
  /\ LM!LockTable(xid, "IS", TableOid)
  /\ IF ~LM!LockTableGranted(xid, "IS", TableOid) \/ visible = {}
       THEN End(xid)
       ELSE stmt' = [stmt EXCEPT ![xid] =
                       [s EXCEPT !.rid = IF found < Len(records) THEN found + 1 ELSE NULL_PAGE,
                                 !.record = IF kept THEN found ELSE 0,
                                 !.at = IF kept THEN "apply" ELSE "scan"]]
  /\ UNCHANGED <<xactVars, records, history>>

\* LockRowsExecutor::Next: S for FOR SHARE, X for FOR UPDATE.
LockRows(xid) ==
  LET s == stmt[xid]
      lock_type == IF s.kind = "share" THEN "S" ELSE "X"
  IN
  /\ s # NoStmt /\ s.at = "apply" /\ s.kind \in {"share", "for_update"}
  /\ LM!LockRow(xid, lock_type, TableOid, s.record)
  /\ IF LM!LockRowGranted(xid, lock_type, TableOid, s.record)
       THEN stmt' = [stmt EXCEPT ![xid].at = "scan", ![xid].record = 0]
       ELSE End(xid)
  /\ UNCHANGED <<xactVars, records, history>>

\* TablePage::DeleteRecord marks the version whatever mark it carries.
DeleteRecord(record, xid) == [record EXCEPT !.xmax = xid]

\* TablePage::UndoDeleteRecord clears the mark whoever set it.
UndoDeleteRecord(record) == [record EXCEPT !.xmax = NULL_XID]

\* TablePage::InsertRecord stamps the record it writes.
NewVersion(xid, cid) == [xmin |-> xid, xmax |-> NULL_XID, cid |-> cid]

\* The versions after Table::DeleteRecord and Table::InsertRecord.
Deleted(rid, xid) == [records EXCEPT ![rid] = DeleteRecord(@, xid)]

Inserted(versions, xid, cid) == Append(versions, NewVersion(xid, cid))

\* History of a delete mark set by xid.
NoteDelete(rid, xid) ==
  /\ deleters' = [deleters EXCEPT ![rid] = @ \cup {xid}]
  /\ redeleted' = IF records[rid].xmax # NULL_XID THEN redeleted \cup {rid} ELSE redeleted

\* Mutant of Delete: no row lock is taken.
DeleteWithoutLock(xid) ==
  LET s == stmt[xid] IN
  /\ s # NoStmt /\ s.at = "apply" /\ s.kind = "delete"
  /\ records' = Deleted(s.record, xid)
  /\ NoteDelete(s.record, xid)
  /\ stmt' = [stmt EXCEPT ![xid].at = "scan", ![xid].record = 0]
  /\ UNCHANGED <<xactVars, lockVars, outcome, seen>>

\* DeleteExecutor::Next, one pass: lock the row X, then mark it deleted.
Delete(xid) ==
  LET s == stmt[xid] IN
  /\ s # NoStmt /\ s.at = "apply" /\ s.kind = "delete"
  /\ LM!LockRow(xid, "X", TableOid, s.record)
  /\ IF LM!LockRowGranted(xid, "X", TableOid, s.record)
       THEN /\ records' = Deleted(s.record, xid)
            /\ NoteDelete(s.record, xid)
            /\ stmt' = [stmt EXCEPT ![xid].at = "scan", ![xid].record = 0]
       ELSE End(xid) /\ UNCHANGED <<records, deleters, redeleted>>
  /\ UNCHANGED <<xactVars, outcome, seen>>

\* UpdateExecutor::Next, one pass up to UpdateRecord: lock the old version X,
\* mark it deleted and add the new version.
Update(xid) ==
  LET s == stmt[xid] IN
  /\ s # NoStmt /\ s.at = "apply" /\ s.kind = "update"
  /\ Len(records) < MaxRows
  /\ LM!LockRow(xid, "X", TableOid, s.record)
  /\ IF LM!LockRowGranted(xid, "X", TableOid, s.record)
       THEN /\ records' = Inserted(Deleted(s.record, xid), xid, s.cid)
            /\ NoteDelete(s.record, xid)
            /\ stmt' = [stmt EXCEPT ![xid].at = "lock_new", ![xid].record = Len(records) + 1]
       ELSE End(xid) /\ UNCHANGED <<records, deleters, redeleted>>
  /\ UNCHANGED <<xactVars, outcome, seen>>

\* InsertExecutor::Next up to InsertRecord: an IX lock, then the new record.
Insert(xid) ==
  LET s == stmt[xid] IN
  /\ s # NoStmt /\ s.at = "insert"
  /\ Len(records) < MaxRows
  /\ LM!LockTable(xid, "IX", TableOid)
  /\ IF LM!LockTableGranted(xid, "IX", TableOid)
       THEN /\ records' = Inserted(records, xid, s.cid)
            /\ stmt' = [stmt EXCEPT ![xid].at = "lock_new", ![xid].record = Len(records) + 1]
       ELSE End(xid) /\ UNCHANGED records
  /\ UNCHANGED <<xactVars, history>>

\* The X lock both executors put on the record they added.  One row per INSERT
\* statement: it then ends, an update goes on scanning.
LockNewRow(xid) ==
  LET s == stmt[xid] IN
  /\ s # NoStmt /\ s.at = "lock_new"
  /\ LM!LockRow(xid, "X", TableOid, s.record)
  /\ IF LM!LockRowGranted(xid, "X", TableOid, s.record) /\ s.kind = "update"
       THEN stmt' = [stmt EXCEPT ![xid].at = "scan", ![xid].record = 0]
       ELSE End(xid)
  /\ UNCHANGED <<xactVars, records, history>>

\* DatabaseEngine::Lock.
LockStatement(xid) ==
  /\ Idle(xid)
  /\ \E lock_type \in LockModes : LM!LockTable(xid, lock_type, TableOid)
  /\ UNCHANGED <<xactVars, records, stmt, history>>

Commit(xid) ==
  /\ Idle(xid)
  /\ TM!Commit(xid)
  /\ outcome' = [outcome EXCEPT ![xid] = "committed"]
  /\ UNCHANGED <<records, stmt, seen, deleters, redeleted>>

\* Mutant of Undo: the inserted versions are left as they are.
UndoDeletesOnly(xid) ==
  [i \in 1 .. Len(records) |->
     IF records[i].xmax = xid THEN [records[i] EXCEPT !.xmax = NULL_XID] ELSE records[i]]

\* InsertLog::Undo marks the inserted version deleted by its own inserter.
UndoInsert(record, xid) == DeleteRecord(record, xid)

\* DeleteLog::Undo.
UndoDelete(record) == UndoDeleteRecord(record)

\* LogManager::Rollback undoes the transaction's records, latest first, so a
\* version it both inserted and deleted gets the insert's undo last.
Undo(xid) ==
  [i \in 1 .. Len(records) |->
     CASE records[i].xmin = xid -> UndoInsert(records[i], xid)
       [] records[i].xmin # xid /\ records[i].xmax = xid -> UndoDelete(records[i])
       [] OTHER -> records[i]]

\* Mutant of Rollback: the transaction is undone but stays in xid2cid_.
RollbackStaysActive(xid) ==
  /\ Idle(xid)
  /\ records' = Undo(xid)
  /\ deleters' = [r \in Rid |-> deleters[r] \ {xid}]
  /\ LM!ReleaseLocks(xid)
  /\ outcome' = [outcome EXCEPT ![xid] = "aborted"]
  /\ UNCHANGED <<xactVars, stmt, seen, redeleted>>

Rollback(xid) ==
  /\ Idle(xid)
  /\ TM!Rollback(xid)
  /\ records' = Undo(xid)
  /\ deleters' = [r \in Rid |-> deleters[r] \ {xid}]
  /\ outcome' = [outcome EXCEPT ![xid] = "aborted"]
  /\ UNCHANGED <<stmt, seen, redeleted>>

Next ==
  \/ Begin
  \/ \E xid \in Xid :
       \/ Start(xid) \/ ScanNext(xid) \/ LockRows(xid)
       \/ Delete(xid) \/ Update(xid) \/ Insert(xid) \/ LockNewRow(xid)
       \/ LockStatement(xid) \/ Commit(xid) \/ Rollback(xid)

Spec == Init /\ [][Next]_vars

----------------------------------------------------------------------------

\* Versions carry an inserting transaction, and a statement belongs to an
\* active transaction.
TypeOK ==
  /\ records \in Seq(Record) /\ Len(records) <= MaxRows
  /\ \A x \in Xid : stmt[x] # NoStmt =>
       x \in Active /\ stmt[x].rid \in 0 .. MaxRows /\ stmt[x].record \in 0 .. MaxRows
  /\ \A x \in Xid : x \in Active <=> outcome[x] = "active"

Committed == {x \in Xid : outcome[x] = "committed"}

\* What READ COMMITTED and SERIALIZABLE promise a statement: the versions whose
\* inserter has committed, or is the transaction itself in an earlier
\* statement, and that neither a committed transaction nor itself has deleted.
VisibleCommitted(i, xid, cid) ==
  /\ records[i].xmin \in Committed \/ (records[i].xmin = xid /\ records[i].cid # cid)
  /\ deleters[i] \cap (Committed \cup {xid}) = {}

\* CanGet decides that from xmin, xmax and the active set alone, whatever
\* commits, rollbacks and undos came before: a rolled-back insert stays hidden
\* and a rolled-back delete is visible again.  A version deleted a second time
\* after a committed delete is excepted.
ReadCommittedExact ==
  \A x \in Active, level \in {"READ_COMMITTED", "SERIALIZABLE"} :
    \A i \in (1 .. Len(records)) \ redeleted, cid \in 1 .. xid2cid_[x] :
      ~CanGet(records[i], x, cid, level, Active) <=> VisibleCommitted(i, x, cid)

\* What REPEATABLE READ promises: the versions committed before the
\* transaction began, and its own, less those deleted by itself or by a
\* transaction committed before it began.
VisibleInSnapshot(i, xid, cid) ==
  /\ records[i].xmin \in seen[xid] \/ (records[i].xmin = xid /\ records[i].cid # cid)
  /\ deleters[i] \cap (seen[xid] \cup {xid}) = {}

\* CanGet decides that from the snapshot and the order of the xids, so reads
\* are repeatable, again for versions that were not deleted a second time.
SnapshotExact ==
  \A x \in Active :
    \A i \in (1 .. Len(records)) \ redeleted, cid \in 1 .. xid2cid_[x] :
      ~CanGet(records[i], x, cid, "REPEATABLE_READ", TM!GetSnapshot(x))
        <=> VisibleInSnapshot(i, x, cid)

\* A version changes only at the hands of the transaction that inserted it or
\* was granted the X lock on the row, and that shares it with no other: nobody
\* else was granted a lock on the row, or an S or X lock on the table.  So FOR
\* SHARE, FOR UPDATE and LOCK hold what they say, and an uncommitted delete
\* mark is never overwritten, undo included.  (The inserter is named apart: a
\* record is put on its page before its row lock is asked for, and that lock
\* may be refused.)
WritesAreExclusive ==
  [][\A i \in 1 .. Len(records) :
       records'[i] # records[i] =>
         \E x \in Active :
           /\ \/ "X" \in heldRow'[x][TableOid][i] \cup heldRow[x][TableOid][i]
              \/ records[i].xmin = x
           /\ \A y \in Active \ {x} :
                /\ heldRow[y][TableOid][i] = {}
                /\ heldTable[y][TableOid] \cap {"S", "X"} = {}
                /\ records[i].xmax # y]_vars

\* A statement never deletes or updates a version it created itself (the
\* Halloween problem): update moves each row once.
NoHalloween ==
  \A x \in Xid :
    stmt[x] # NoStmt /\ stmt[x].at = "apply" =>
      ~(records[stmt[x].record].xmin = x /\ records[stmt[x].record].cid = stmt[x].cid)

\* The state keeps its shape and no statement meets versions it has made: what
\* visibility and the locks of a statement rest on.
MvccInv == TypeOK /\ NoHalloween
============================================================================
