----------------------------- MODULE MvccProofs -----------------------------
(***************************************************************************)
(* Proofs about Mvcc for any number of transactions, statements and        *)
(* versions.                                                               *)
(*                                                                         *)
(* The argument: the mark of an uncommitted delete goes with an X lock on  *)
(* the row (MarksLocked), and a statement reaches only versions that are   *)
(* committed or its own (Statements), so a version of an active or aborted *)
(* transaction carries its own mark or none (Versions).  xmax then names   *)
(* the one transaction whose delete counts, as long as the version is not  *)
(* deleted a second time, and the snapshot splits the older transactions   *)
(* into those that had ended at Begin and those that had not (Snapshots):  *)
(* that is all CanGet needs to be exact.                                   *)
(***************************************************************************)
EXTENDS Mvcc, FiniteSetTheorems, WellFoundedInduction, TLAPS

\* What LockManagerProofs shows of the lock table the transactions share.
LMP == INSTANCE LockManagerProofs WITH Xid <- 1 .. MaxXid

Outcome == {"none", "active", "committed", "aborted"}

\* The statement a transaction is executing.
Stmt ==
  [kind : Kinds, isolation_level : IsolationLevel, cid : 1 .. MaxCid, rid : 0 .. MaxRows,
   record : 0 .. MaxRows, at : {"insert", "scan", "apply", "lock_new"}]

\* The state keeps its types.
Typed ==
  /\ next_xid_ \in 2 .. MaxXid + 1
  /\ xid2cid_ \in [Xid -> 0 .. MaxCid + 1]
  /\ xid2active_set_ \in [Xid -> SUBSET (0 .. MaxXid)]
  /\ records \in Seq(Record) /\ Len(records) <= MaxRows
  /\ stmt \in [Xid -> {NoStmt} \cup Stmt]
  /\ outcome \in [Xid -> Outcome]
  /\ seen \in [Xid -> SUBSET Xid]
  /\ deleters \in [Rid -> SUBSET Xid]

\* The transaction table and the history agree, and statements run in active
\* transactions.
Outcomes ==
  /\ \A x \in Xid : xid2cid_[x] # 0 <=> outcome[x] = "active"
  /\ \A x \in Xid : outcome[x] = "none" <=> x >= next_xid_
  /\ \A x \in Xid : stmt[x] # NoStmt => outcome[x] = "active"

\* Of the transactions that began before an active one, those outside its
\* snapshot have ended, and the ones among them that committed are those that
\* had committed when it began.
Snapshots ==
  \A x \in Xid : outcome[x] = "active" =>
    /\ \A y \in xid2active_set_[x] : y < x
    /\ \A y \in Xid : y < x /\ y \notin xid2active_set_[x] => outcome[y] \in {"committed", "aborted"}
    /\ seen[x] = {y \in Xid : y < x /\ y \notin xid2active_set_[x] /\ outcome[y] = "committed"}

\* What the header of version i says about who inserted and who deleted it.
VersionOK(i) ==
  /\ outcome[records[i].xmin] # "none"
  /\ records[i].xmax # NULL_XID => outcome[records[i].xmax] # "none"
  /\ outcome[records[i].xmin] = "aborted" => records[i].xmax = records[i].xmin /\ deleters[i] = {}
  /\ outcome[records[i].xmin] = "active" =>
       /\ records[i].xmax \in {NULL_XID, records[i].xmin}
       /\ deleters[i] \subseteq {records[i].xmin}
  /\ outcome[records[i].xmin] # "aborted" /\ i \notin redeleted =>
       deleters[i] = IF records[i].xmax = NULL_XID THEN {} ELSE {records[i].xmax}
  /\ \A y \in deleters[i] : outcome[y] \in {"active", "committed"}

Versions ==
  /\ \A i \in 1 .. Len(records) : VersionOK(i)
  /\ \A i \in Rid : i > Len(records) => deleters[i] = {}

\* A version a transaction may touch: its own or a committed one.
Usable(x, i) == records[i].xmin = x \/ outcome[records[i].xmin] = "committed"

\* What a statement remembers from its scan or its insert still holds when it
\* goes on, whatever others did in between.
StatementOK(x) ==
  LET s == stmt[x] IN
  /\ s.at = "apply" =>
       /\ s.record \in 1 .. Len(records)
       /\ Usable(x, s.record)
       /\ ~(records[s.record].xmin = x /\ records[s.record].cid = s.cid)
  /\ s.at = "lock_new" => s.record \in 1 .. Len(records) /\ records[s.record].xmin = x

Statements == \A x \in Xid : stmt[x] # NoStmt => StatementOK(x)

\* An uncommitted delete mark goes with the X lock on the row, an uncommitted
\* insert with the IX lock on the table, and row locks are on versions their
\* holder may touch.
MarksLocked ==
  \A i \in 1 .. Len(records) :
    records[i].xmax # NULL_XID /\ outcome[records[i].xmax] = "active" =>
      "X" \in heldRow[records[i].xmax][TableOid][i]

InsertsLocked ==
  \A i \in 1 .. Len(records) :
    outcome[records[i].xmin] = "active" => "IX" \in heldTable[records[i].xmin][TableOid]

LocksUsable ==
  \A x \in Xid, i \in Rid :
    heldRow[x][TableOid][i] # {} => i <= Len(records) /\ Usable(x, i)

\* The inductive invariant.
Inv ==
  /\ LMP!LockInv /\ Typed /\ Outcomes /\ Snapshots /\ Versions /\ Statements
  /\ MarksLocked /\ InsertsLocked /\ LocksUsable

----------------------------------------------------------------------------
(* Facts about the constants and the instances.                            *)

\* The table of the model.
LEMMA OneTable == TableOid \in Table
<1>1. Table # {}
  BY TableAssumption, FS_EmptySet
<1> QED BY <1>1 DEF TableOid

\* LockManager's assumption, for the instance.
LEMMA NoLockType == NoLock \notin LMP!LockType
BY LockAssumption DEF LMP!LockType

\* The keys of xid2cid_.
LEMMA ActiveSet ==
  ASSUME Typed, Outcomes
  PROVE  Active = {x \in Xid : outcome[x] = "active"}
BY DEF Typed, Outcomes, Active, TM!GetActiveTransactions, TM!Xid, TM!FIRST_XID, TM!NoCid, Xid

\* The header of a version.
LEMMA Header ==
  ASSUME Typed, NEW i \in 1 .. Len(records)
  PROVE  /\ records[i] \in Record /\ i \in Rid /\ i \in Nat
         /\ records[i].xmin \in Xid /\ records[i].xmin \in Nat
         /\ records[i].xmax \in Nat
         /\ records[i].xmax \in Xid \/ records[i].xmax = NULL_XID
         /\ NULL_XID \notin Xid
<1>1. records[i] \in Record /\ i \in Rid /\ i \in Nat
  BY RowBounds DEF Typed, Rid
<1> QED BY <1>1, XactBounds DEF Record, Xid, NULL_XID

----------------------------------------------------------------------------
(* What the invariant says about visibility.                               *)

\* Under READ COMMITTED and SERIALIZABLE the header decides.
LEMMA CommittedExact ==
  ASSUME Inv, NEW x \in Active, NEW i \in (1 .. Len(records)) \ redeleted, NEW cid
  PROVE  ~HiddenReadCommitted(records[i], x, cid, Active) <=> VisibleCommitted(i, x, cid)
<1> DEFINE r == records[i]
<1>1. Active = {y \in Xid : outcome[y] = "active"}
  BY ActiveSet DEF Inv
<1>2. /\ r.xmin \in Xid /\ r.xmax \in Xid \cup {NULL_XID} /\ NULL_XID \notin Xid
      /\ VersionOK(i)
      /\ outcome \in [Xid -> Outcome]
  BY Header DEF Inv, Typed, Versions
<1>3. x \in Xid /\ outcome[x] = "active"
  BY <1>1
<1>4. CASE outcome[r.xmin] = "aborted"
  BY <1>1, <1>2, <1>3, <1>4 DEF VersionOK, HiddenReadCommitted, VisibleCommitted, Committed
<1>5. CASE outcome[r.xmin] = "active"
  BY <1>1, <1>2, <1>3, <1>5 DEF VersionOK, HiddenReadCommitted, VisibleCommitted, Committed
<1>6. CASE outcome[r.xmin] = "committed"
  BY <1>1, <1>2, <1>3, <1>6 DEF VersionOK, HiddenReadCommitted, VisibleCommitted, Committed
<1> QED BY <1>2, <1>4, <1>5, <1>6 DEF VersionOK, Outcome

\* Under REPEATABLE READ the header, the snapshot and the order decide.
LEMMA RepeatableExact ==
  ASSUME Inv, NEW x \in Active, NEW i \in (1 .. Len(records)) \ redeleted, NEW cid
  PROVE  ~HiddenRepeatableRead(records[i], x, cid, TM!GetSnapshot(x))
           <=> VisibleInSnapshot(i, x, cid)
<1> DEFINE r == records[i]
           A == xid2active_set_[x]
<1>0. TM!GetSnapshot(x) = A
  BY DEF TM!GetSnapshot
<1>1. Active = {y \in Xid : outcome[y] = "active"}
  BY ActiveSet DEF Inv
<1>2. /\ r.xmin \in Xid /\ r.xmax \in Xid \cup {NULL_XID} /\ NULL_XID \notin Xid
      /\ VersionOK(i)
      /\ outcome \in [Xid -> Outcome]
      /\ r.xmin \in Nat /\ r.xmax \in Nat
  BY Header DEF Inv, Typed, Versions
<1>3. x \in Xid /\ outcome[x] = "active" /\ x \in Nat /\ NULL_XID \in Nat /\ NULL_XID > x
  BY <1>1, XactBounds DEF Xid, NULL_XID
<1>4. /\ \A y \in A : y < x
      /\ \A y \in Xid : y < x /\ y \notin A => outcome[y] \in {"committed", "aborted"}
      /\ seen[x] = {y \in Xid : y < x /\ y \notin A /\ outcome[y] = "committed"}
  BY <1>3 DEF Inv, Snapshots
<1>5. x \notin A /\ NULL_XID \notin A
  BY <1>3, <1>4
<1> HIDE DEF A, r
<1>6. \A y \in Xid : y \in seen[x] <=> y < x /\ y \notin A /\ outcome[y] = "committed"
  BY <1>4
<1>7. deleters[i] \cap (seen[x] \cup {x}) = {} <=> x \notin deleters[i] /\ \A y \in deleters[i] : y \notin seen[x]
  OBVIOUS
<1>8. r.xmin \in A \/ (r.xmin # x /\ ~(r.xmin < x)) \/ r.xmin = x \/ (r.xmin < x /\ r.xmin \notin A)
  OBVIOUS
<1>9. CASE r.xmin \in A
  BY <1>0, <1>2, <1>3, <1>4, <1>5, <1>6, <1>9 DEF HiddenRepeatableRead, VisibleInSnapshot, r
<1>10. CASE r.xmin # x /\ ~(r.xmin < x)
  <2>1. r.xmin > x /\ r.xmin \notin A /\ r.xmin \notin seen[x]
    BY <1>2, <1>3, <1>4, <1>10
  <2> QED BY <2>1, <1>0, <1>10 DEF HiddenRepeatableRead, VisibleInSnapshot, r
<1>11. CASE r.xmin = x
  <2>1. r.xmax = NULL_XID \/ r.xmax = x
    BY <1>2, <1>3, <1>11 DEF VersionOK, r
  <2>2. deleters[i] = IF r.xmax = NULL_XID THEN {} ELSE {r.xmax}
    BY <1>2, <1>3, <1>11 DEF VersionOK, r
  <2>3. CASE r.xmax = x
    BY <2>2, <2>3, <1>0, <1>2, <1>3, <1>5, <1>11 DEF HiddenRepeatableRead, VisibleInSnapshot, r
  <2>4. CASE r.xmax = NULL_XID
    <3>1. deleters[i] = {} /\ ~(NULL_XID <= x) /\ NULL_XID # x /\ ~(x > x) /\ x \notin seen[x]
      BY <2>2, <2>4, <1>3, <1>6
    <3> QED BY <3>1, <2>4, <1>0, <1>3, <1>5, <1>11 DEF HiddenRepeatableRead, VisibleInSnapshot, r
  <2> QED BY <2>1, <2>3, <2>4
<1>12. CASE r.xmin < x /\ r.xmin \notin A
  <2>0. outcome[r.xmin] \in {"committed", "aborted"} /\ r.xmin # x /\ ~(r.xmin > x)
    BY <1>2, <1>3, <1>4, <1>12
  <2>1. CASE outcome[r.xmin] = "aborted"
    <3>1. r.xmax = r.xmin /\ r.xmin <= x /\ r.xmin \notin seen[x]
      BY <2>1, <1>2, <1>3, <1>6, <1>12 DEF VersionOK, r
    <3> QED BY <3>1, <2>0, <1>0, <1>12 DEF HiddenRepeatableRead, VisibleInSnapshot, r
  <2>2. CASE outcome[r.xmin] = "committed"
    <3>1. r.xmin \in seen[x]
      BY <2>2, <1>2, <1>6, <1>12
    <3>2. /\ deleters[i] = IF r.xmax = NULL_XID THEN {} ELSE {r.xmax}
          /\ \A y \in deleters[i] : outcome[y] \in {"active", "committed"}
      BY <2>2, <1>2 DEF VersionOK, r
    <3>3. ~HiddenRepeatableRead(records[i], x, cid, TM!GetSnapshot(x))
            <=> ~(r.xmax = x) /\ ~(r.xmax \notin A /\ r.xmax <= x)
      BY <2>0, <1>0, <1>12 DEF HiddenRepeatableRead, r
    <3>4. VisibleInSnapshot(i, x, cid) <=> deleters[i] \cap (seen[x] \cup {x}) = {}
      BY <3>1 DEF VisibleInSnapshot, r
    <3>5. CASE r.xmax = NULL_XID
      BY <3>2, <3>3, <3>4, <3>5, <1>3
    <3>6. CASE r.xmax \in Xid
      <4>1. deleters[i] = {r.xmax} /\ outcome[r.xmax] \in {"active", "committed"}
        BY <3>2, <3>6, <1>2
      <4>2. VisibleInSnapshot(i, x, cid) <=> r.xmax # x /\ r.xmax \notin seen[x]
        BY <3>4, <4>1
      <4>3. r.xmax \in seen[x] <=> r.xmax < x /\ r.xmax \notin A
        BY <4>1, <1>4, <1>6, <3>6
      <4> QED BY <4>2, <4>3, <3>3, <1>2, <1>3
    <3> QED BY <3>5, <3>6, <1>2
  <2> QED BY <2>0, <2>1, <2>2
<1> QED BY <1>8, <1>9, <1>10, <1>11, <1>12

\* The invariant implies the properties.
LEMMA InvExact == ASSUME Inv PROVE ReadCommittedExact /\ SnapshotExact
<1>1. ReadCommittedExact
  <2> SUFFICES ASSUME NEW x \in Active, NEW level \in {"READ_COMMITTED", "SERIALIZABLE"},
                      NEW i \in (1 .. Len(records)) \ redeleted, NEW cid \in 1 .. xid2cid_[x]
               PROVE  ~CanGet(records[i], x, cid, level, Active) <=> VisibleCommitted(i, x, cid)
    BY DEF ReadCommittedExact
  <2>1. HiddenSerializable(records[i], x, cid, Active) <=> HiddenReadCommitted(records[i], x, cid, Active)
    BY DEF HiddenSerializable, HiddenReadCommitted
  <2>2. CanGet(records[i], x, cid, level, Active) <=> HiddenReadCommitted(records[i], x, cid, Active)
    BY <2>1 DEF CanGet
  <2> QED BY <2>2, CommittedExact
<1>2. SnapshotExact
  <2> SUFFICES ASSUME NEW x \in Active,
                      NEW i \in (1 .. Len(records)) \ redeleted, NEW cid \in 1 .. xid2cid_[x]
               PROVE  ~CanGet(records[i], x, cid, "REPEATABLE_READ", TM!GetSnapshot(x))
                        <=> VisibleInSnapshot(i, x, cid)
    BY DEF SnapshotExact
  <2>2. CanGet(records[i], x, cid, "REPEATABLE_READ", TM!GetSnapshot(x))
          <=> HiddenRepeatableRead(records[i], x, cid, TM!GetSnapshot(x))
    BY DEF CanGet
  <2> QED BY <2>2, RepeatableExact
<1> QED BY <1>1, <1>2

\* The invariant implies the shape and that no statement meets its own versions.
LEMMA InvShape == ASSUME Inv PROVE MvccInv
<1>1. Active = {x \in Xid : outcome[x] = "active"}
  BY ActiveSet DEF Inv
<1>2. TypeOK
  <2>1. ASSUME NEW x \in Xid, stmt[x] # NoStmt
        PROVE  x \in Active /\ stmt[x].rid \in 0 .. MaxRows /\ stmt[x].record \in 0 .. MaxRows
    <3>1. stmt[x] \in Stmt
      BY <2>1 DEF Inv, Typed
    <3> QED BY <1>1, <2>1, <3>1 DEF Inv, Outcomes, Stmt
  <2> QED BY <1>1, <2>1 DEF Inv, Typed, TypeOK
<1>3. NoHalloween
  BY DEF Inv, Statements, StatementOK, NoHalloween
<1> QED BY <1>2, <1>3 DEF MvccInv

----------------------------------------------------------------------------
(* What the calls of the lock manager do to the granted locks.             *)

\* A request only adds to what its transaction was granted.
Grows(xid) ==
  /\ \A y \in Xid, i \in Rid :
       /\ heldTable[y][TableOid] \subseteq heldTable'[y][TableOid]
       /\ heldRow[y][TableOid][i] \subseteq heldRow'[y][TableOid][i]
  /\ \A y \in Xid \ {xid}, i \in Rid :
       /\ heldTable'[y][TableOid] = heldTable[y][TableOid]
       /\ heldRow'[y][TableOid][i] = heldRow[y][TableOid][i]

\* A table request, granted or refused.
LEMMA LockTableStep ==
  ASSUME LMP!LockInv, NEW xid \in Xid, NEW t \in {"IS", "IX", "S", "X"},
         LM!LockTable(xid, t, TableOid)
  PROVE  /\ LMP!LockInv' /\ Grows(xid)
         /\ heldRow' = heldRow
         /\ LM!LockTableGranted(xid, t, TableOid) => t \in heldTable'[xid][TableOid]
<1> USE OneTable
<1>1. LMP!LockTable(xid, t, TableOid)
  BY DEF LM!LockTable, LMP!LockTable, LM!LockTableGranted, LMP!LockTableGranted, LM!TableCompatible,
         LMP!TableCompatible, LM!Recorded, LMP!Recorded, LM!Upgrade, LMP!Upgrade,
         LM!Compatible, LMP!Compatible, LM!CompatibleWith, LMP!CompatibleWith
<1>2. LMP!LockInv'
  BY <1>1, NoLockType, LMP!LockTableInv DEF LMP!TableRequest, Xid
<1>3. heldTable \in [Xid -> [Table -> SUBSET LMP!TableRequest]]
  BY DEF LMP!LockInv, LMP!TypeOK, Xid
<1>4. /\ heldRow' = heldRow
      /\ heldTable' = IF LM!LockTableGranted(xid, t, TableOid)
                        THEN [heldTable EXCEPT ![xid][TableOid] = heldTable[xid][TableOid] \cup {t}]
                        ELSE heldTable
  BY DEF LM!LockTable
<1>5. CASE ~LM!LockTableGranted(xid, t, TableOid)
  BY <1>2, <1>4, <1>5 DEF Grows
<1>6. CASE LM!LockTableGranted(xid, t, TableOid)
  <2>1. \A y \in Xid : heldTable'[y][TableOid] =
          IF y = xid THEN heldTable[xid][TableOid] \cup {t} ELSE heldTable[y][TableOid]
    BY <1>3, <1>4, <1>6
  <2> QED BY <2>1, <1>2, <1>4 DEF Grows
<1> QED BY <1>5, <1>6

\* A row request, granted or refused.
LEMMA LockRowStep ==
  ASSUME LMP!LockInv, NEW xid \in Xid, NEW t \in {"S", "X"}, NEW rid \in Rid,
         LM!LockRow(xid, t, TableOid, rid)
  PROVE  /\ LMP!LockInv' /\ Grows(xid)
         /\ \A i \in Rid \ {rid} : heldRow'[xid][TableOid][i] = heldRow[xid][TableOid][i]
         /\ LM!LockRowGranted(xid, t, TableOid, rid) =>
              /\ t \in heldRow'[xid][TableOid][rid]
              /\ t = "X" => "IX" \in heldTable'[xid][TableOid]
<1> USE OneTable
<1>1. LMP!LockRow(xid, t, TableOid, rid)
  BY DEF LM!LockRow, LMP!LockRow, LM!LockRowGranted, LMP!LockRowGranted, LM!TableCompatible,
         LMP!TableCompatible, LM!Recorded, LMP!Recorded, LM!Upgrade, LMP!Upgrade,
         LM!RowCompatible, LMP!RowCompatible, LM!Intention, LMP!Intention,
         LM!Compatible, LMP!Compatible, LM!CompatibleWith, LMP!CompatibleWith
<1>2. LMP!LockInv'
  BY <1>1, NoLockType, LMP!LockRowInv DEF LMP!RowRequest, Xid
<1>3. /\ heldTable \in [Xid -> [Table -> SUBSET LMP!TableRequest]]
      /\ heldRow \in [Xid -> [Table -> [Rid -> SUBSET LMP!RowRequest]]]
  BY DEF LMP!LockInv, LMP!TypeOK, Xid
<1> DEFINE d == LM!Intention(t)
<1>4. IF LM!LockRowGranted(xid, t, TableOid, rid)
        THEN /\ heldTable' = [heldTable EXCEPT ![xid][TableOid] = heldTable[xid][TableOid] \cup {d}]
             /\ heldRow' = [heldRow EXCEPT ![xid][TableOid][rid] = heldRow[xid][TableOid][rid] \cup {t}]
        ELSE heldTable' = heldTable /\ heldRow' = heldRow
  BY DEF LM!LockRow
<1>5. (t = "X" => d = "IX") /\ d \in LMP!TableRequest
  BY DEF LM!Intention, LMP!TableRequest
<1> HIDE DEF d
<1>6. CASE ~LM!LockRowGranted(xid, t, TableOid, rid)
  BY <1>2, <1>4, <1>6 DEF Grows
<1>7. CASE LM!LockRowGranted(xid, t, TableOid, rid)
  <2> DEFINE u == heldTable[xid][TableOid] \cup {d}
  <2>a. heldTable' = [heldTable EXCEPT ![xid][TableOid] = u] /\ u = heldTable[xid][TableOid] \cup {d}
    BY <1>4, <1>7
  <2>b. u \in SUBSET LMP!TableRequest
    BY <1>3, <1>5
  <2> HIDE DEF u
  <2>1. \A y \in Xid : heldTable'[y][TableOid] = IF y = xid THEN u ELSE heldTable[y][TableOid]
    BY <2>a, <2>b, <1>3
  <2> DEFINE v == heldRow[xid][TableOid][rid] \cup {t}
  <2>2. v \in SUBSET LMP!RowRequest
    BY <1>3 DEF LMP!RowRequest
  <2>3. heldRow' = [heldRow EXCEPT ![xid][TableOid][rid] = v]
    BY <1>4, <1>7
  <2>4. v = heldRow[xid][TableOid][rid] \cup {t}
    OBVIOUS
  <2> HIDE DEF v
  <2>5. \A y \in Xid, i \in Rid : heldRow'[y][TableOid][i] =
          IF y = xid /\ i = rid THEN v ELSE heldRow[y][TableOid][i]
    BY <2>2, <2>3, <1>3
  <2>6. Grows(xid)
    BY <2>a, <2>1, <2>4, <2>5 DEF Grows
  <2> QED BY <2>a, <2>1, <2>4, <2>5, <2>6, <1>2, <1>5
<1> QED BY <1>6, <1>7

\* The end of a transaction drops what it was granted, and nothing else.
LEMMA ReleaseStep ==
  ASSUME LMP!LockInv, NEW xid \in Xid, TM!LM!ReleaseLocks(xid)
  PROVE  /\ LMP!LockInv'
         /\ \A y \in Xid \ {xid} : heldTable'[y] = heldTable[y] /\ heldRow'[y] = heldRow[y]
         /\ \A i \in Rid : heldRow'[xid][TableOid][i] = {}
<1> USE OneTable
<1>1. LMP!ReleaseLocks(xid)
  BY DEF TM!LM!ReleaseLocks, LMP!ReleaseLocks
<1>2. LMP!LockInv'
  BY <1>1, NoLockType, LMP!ReleaseLocksInv DEF Xid
<1>3. \A y \in Xid \ {xid} : heldTable'[y] = heldTable[y] /\ heldRow'[y] = heldRow[y]
  BY <1>1 DEF LMP!ReleaseLocks, LMP!LockInv, LMP!TypeOK, Xid
<1>4. heldRow'[xid] = [t \in Table |-> [r \in Rid |-> {}]]
  BY <1>1 DEF LMP!ReleaseLocks, LMP!LockInv, LMP!TypeOK, Xid
<1> QED BY <1>2, <1>3, <1>4

\* A step that leaves the lock table alone keeps its invariant.
LEMMA LockUnchanged ==
  ASSUME LMP!LockInv, UNCHANGED lockVars
  PROVE  LMP!LockInv'
BY DEF lockVars, LMP!LockInv, LMP!TypeOK, LMP!GrantedStaysRecorded, LMP!GrantedCompatible,
       LMP!RowHasIntention

----------------------------------------------------------------------------
(* A step of a statement: its transaction may add locks, mark versions it  *)
(* may touch, append versions and go on to another point of the statement. *)

\* Version i and its history stay as they are.
Kept(i) ==
  /\ records'[i] = records[i] /\ deleters'[i] = deleters[i]
  /\ i \in redeleted' <=> i \in redeleted

\* Version i gets the delete mark of xid, which was granted the X lock.
Marked(xid, i) ==
  /\ records'[i].xmin = records[i].xmin /\ records'[i].cid = records[i].cid
  /\ records'[i].xmax = xid
  /\ deleters'[i] = deleters[i] \cup {xid}
  /\ i \in redeleted' <=> i \in redeleted \/ records[i].xmax # NULL_XID
  /\ Usable(xid, i)
  /\ "X" \in heldRow'[xid][TableOid][i]

\* Version i is a new one of xid, which was granted the IX lock.
Added(xid, i) ==
  /\ records'[i].xmin = xid /\ records'[i].xmax = NULL_XID
  /\ "IX" \in heldTable'[xid][TableOid]

\* The types of what such a step changes.
WorkTyped ==
  /\ xid2cid_' \in [Xid -> 0 .. MaxCid + 1]
  /\ records' \in Seq(Record) /\ Len(records') <= MaxRows
  /\ stmt' \in [Xid -> {NoStmt} \cup Stmt]
  /\ deleters' \in [Rid -> SUBSET Xid]

Work(xid) ==
  /\ UNCHANGED <<next_xid_, xid2active_set_, outcome, seen>>
  /\ \A y \in Xid : xid2cid_'[y] # 0 <=> xid2cid_[y] # 0
  /\ Grows(xid)
  /\ \A i \in Rid : heldRow'[xid][TableOid][i] # heldRow[xid][TableOid][i] =>
       i <= Len(records) /\ Usable(xid, i)
  /\ Len(records) <= Len(records')
  /\ \A i \in 1 .. Len(records) : Kept(i) \/ Marked(xid, i)
  /\ \A i \in Rid : i > Len(records) => deleters'[i] = {}
  /\ \A i \in 1 .. Len(records') : i > Len(records) => Added(xid, i)
  /\ \A y \in Xid \ {xid} : stmt'[y] = stmt[y]
  /\ stmt'[xid] # NoStmt => StatementOK(xid)'

\* What others may touch stays so: headers keep xmin and cid.
LEMMA UsableStays ==
  ASSUME Inv, NEW xid, Work(xid), NEW y, NEW i \in 1 .. Len(records), Usable(y, i)
  PROVE  /\ i \in 1 .. Len(records') /\ Usable(y, i)'
         /\ records'[i].xmin = records[i].xmin /\ records'[i].cid = records[i].cid
<1>1. records'[i].xmin = records[i].xmin /\ records'[i].cid = records[i].cid
  BY DEF Work, Kept, Marked
<1>2. i \in 1 .. Len(records')
  <2>1. Len(records) \in Nat /\ Len(records') >= Len(records)
    BY DEF Inv, Typed, Work
  <2> QED BY <2>1 DEF Work
<1> QED BY <1>1, <1>2 DEF Usable, Work

\* Such a step keeps the invariant.
LEMMA WorkStep ==
  ASSUME Inv, NEW xid \in Xid, outcome[xid] = "active", LMP!LockInv', WorkTyped, Work(xid)
  PROVE  Inv'
<1>1. Typed'
  BY DEF Inv, Typed, WorkTyped, Work
<1>2. Outcomes'
  <2>1. \A y \in Xid : stmt'[y] # NoStmt => outcome[y] = "active"
    BY DEF Inv, Outcomes, Work
  <2> QED BY <2>1 DEF Inv, Outcomes, Work
<1>3. Snapshots'
  BY DEF Inv, Snapshots, Work
<1>4. Len(records) \in Nat /\ Len(records') \in Nat
  BY <1>1 DEF Inv, Typed
<1>5. ASSUME NEW i \in 1 .. Len(records'), i > Len(records)
      PROVE  i \in Rid /\ Added(xid, i) /\ deleters'[i] = {}
  <2>1. i \in Rid
    BY <1>4, RowBounds DEF WorkTyped, Rid
  <2> QED BY <2>1, <1>5 DEF Work
<1>6. \A i \in 1 .. Len(records') : i \in 1 .. Len(records) \/ i > Len(records)
  BY <1>4
<1>7. xid # NULL_XID
  BY XactBounds DEF Xid, NULL_XID
<1>8. Versions'
  <2>1. ASSUME NEW i \in 1 .. Len(records) PROVE VersionOK(i)'
    <3>0. VersionOK(i)
      BY DEF Inv, Versions
    <3>1. CASE Kept(i)
      BY <3>0, <3>1 DEF Kept, VersionOK, Work
    <3>2. CASE Marked(xid, i)
      <4>1. records[i].xmin = xid \/ outcome[records[i].xmin] = "committed"
        BY <3>2 DEF Marked, Usable
      <4>2. outcome'[records'[i].xmin] # "aborted"
        BY <3>2, <4>1 DEF Marked, Work
      <4>3. outcome'[records'[i].xmin] = "active" =>
              /\ records'[i].xmax \in {NULL_XID, records'[i].xmin}
              /\ deleters'[i] \subseteq {records'[i].xmin}
        BY <3>0, <3>2, <4>1 DEF Marked, Work, VersionOK
      <4>4. i \notin redeleted' => deleters'[i] = {xid}
        BY <3>0, <3>2, <4>2 DEF Marked, Work, VersionOK
      <4>5. \A y \in deleters'[i] : outcome'[y] \in {"active", "committed"}
        BY <3>0, <3>2 DEF Marked, Work, VersionOK
      <4>6. outcome'[records'[i].xmin] # "none" /\ outcome'[records'[i].xmax] # "none"
        BY <3>0, <3>2 DEF Marked, Work, VersionOK
      <4> QED BY <3>2, <4>2, <4>3, <4>4, <4>5, <4>6, <1>7 DEF Marked, VersionOK
    <3> QED BY <3>1, <3>2 DEF Work
  <2>2. ASSUME NEW i \in 1 .. Len(records'), i > Len(records) PROVE VersionOK(i)'
    BY <1>5, <2>2 DEF Added, VersionOK, Work
  <2>3. ASSUME NEW i \in Rid, i > Len(records') PROVE deleters'[i] = {}
    <3>1. i > Len(records)
      BY <2>3, <1>4 DEF Work, Rid
    <3> QED BY <3>1 DEF Work
  <2> QED BY <2>1, <2>2, <2>3, <1>6 DEF Versions
<1>9. Statements'
  <2> SUFFICES ASSUME NEW y \in Xid \ {xid}, stmt'[y] # NoStmt PROVE StatementOK(y)'
    BY DEF Statements, Work
  <2>1. stmt'[y] = stmt[y] /\ StatementOK(y)
    BY DEF Inv, Statements, Work
  <2> DEFINE s == stmt[y]
  <2>2. CASE s.at = "apply"
    BY <2>1, <2>2, UsableStays DEF StatementOK
  <2>3. CASE s.at = "lock_new"
    BY <2>1, <2>3, UsableStays DEF StatementOK, Usable
  <2>4. CASE s.at # "apply" /\ s.at # "lock_new"
    BY <2>1, <2>4 DEF StatementOK
  <2> QED BY <2>2, <2>3, <2>4
<1>10. MarksLocked'
  <2>1. ASSUME NEW i \in 1 .. Len(records), records'[i].xmax # NULL_XID,
               outcome'[records'[i].xmax] = "active"
        PROVE  "X" \in heldRow'[records'[i].xmax][TableOid][i]
    <3>1. CASE Kept(i)
      <4>1. records[i].xmax \in Xid /\ i \in Rid
        BY <2>1, <3>1, Header DEF Inv, Kept
      <4>2. "X" \in heldRow[records[i].xmax][TableOid][i]
        BY <2>1, <3>1 DEF Inv, MarksLocked, Kept, Work
      <4> QED BY <4>1, <4>2, <3>1 DEF Kept, Work, Grows
    <3>2. CASE Marked(xid, i)
      BY <3>2 DEF Marked
    <3> QED BY <3>1, <3>2 DEF Work
  <2>2. ASSUME NEW i \in 1 .. Len(records'), i > Len(records) PROVE records'[i].xmax = NULL_XID
    BY <1>5, <2>2 DEF Added
  <2> QED BY <2>1, <2>2, <1>6 DEF MarksLocked
<1>11. InsertsLocked'
  <2>1. ASSUME NEW i \in 1 .. Len(records), outcome'[records'[i].xmin] = "active"
        PROVE  "IX" \in heldTable'[records'[i].xmin][TableOid]
    <3>1. records'[i].xmin = records[i].xmin /\ records[i].xmin \in Xid /\ i \in Rid
      BY Header DEF Inv, Work, Kept, Marked
    <3>2. "IX" \in heldTable[records[i].xmin][TableOid]
      BY <2>1, <3>1 DEF Inv, InsertsLocked, Work
    <3> QED BY <3>1, <3>2 DEF Work, Grows
  <2>2. ASSUME NEW i \in 1 .. Len(records'), i > Len(records)
        PROVE  "IX" \in heldTable'[records'[i].xmin][TableOid]
    BY <1>5, <2>2 DEF Added
  <2> QED BY <2>1, <2>2, <1>6 DEF InsertsLocked
<1>12. LocksUsable'
  <2> SUFFICES ASSUME NEW y \in Xid, NEW i \in Rid, heldRow'[y][TableOid][i] # {}
               PROVE  i <= Len(records') /\ Usable(y, i)'
    BY DEF LocksUsable
  <2>1. i <= Len(records) /\ Usable(y, i)
    <3>1. CASE heldRow'[y][TableOid][i] = heldRow[y][TableOid][i]
      BY <3>1 DEF Inv, LocksUsable
    <3>2. CASE heldRow'[y][TableOid][i] # heldRow[y][TableOid][i]
      BY <3>2 DEF Work, Grows
    <3> QED BY <3>1, <3>2
  <2>2. i \in 1 .. Len(records)
    BY <2>1, <1>4, RowBounds DEF Rid
  <2>3. i \in 1 .. Len(records') /\ Usable(y, i)'
    BY <2>1, <2>2, UsableStays
  <2> QED BY <2>3, <1>4
<1> QED BY <1>1, <1>2, <1>3, <1>8, <1>9, <1>10, <1>11, <1>12 DEF Inv

\* A step of a statement that changes no version.
Quiet(xid) ==
  /\ UNCHANGED <<next_xid_, xid2active_set_, records, history>>
  /\ xid2cid_' \in [Xid -> 0 .. MaxCid + 1]
  /\ \A y \in Xid : xid2cid_'[y] # 0 <=> xid2cid_[y] # 0
  /\ Grows(xid)
  /\ \A i \in Rid : heldRow'[xid][TableOid][i] # heldRow[xid][TableOid][i] =>
       i <= Len(records) /\ Usable(xid, i)
  /\ stmt' \in [Xid -> {NoStmt} \cup Stmt]
  /\ \A y \in Xid \ {xid} : stmt'[y] = stmt[y]
  /\ stmt'[xid] # NoStmt => StatementOK(xid)'

LEMMA QuietStep ==
  ASSUME Inv, NEW xid \in Xid, outcome[xid] = "active", LMP!LockInv', Quiet(xid)
  PROVE  Inv'
<1>1. WorkTyped
  BY DEF Inv, Typed, WorkTyped, Quiet, history
<1>2. \A i \in 1 .. Len(records) : Kept(i)
  BY DEF Kept, Quiet, history
<1>3. \A i \in Rid : i > Len(records) => deleters'[i] = {}
  BY DEF Inv, Versions, Quiet, history
<1>4. \A i \in 1 .. Len(records') : ~(i > Len(records))
  <2>1. Len(records) \in Nat /\ records' = records
    BY DEF Inv, Typed, Quiet
  <2> QED BY <2>1
<1>5. Len(records) <= Len(records')
  BY DEF Inv, Typed, Quiet
<1>6. Work(xid)
  BY <1>2, <1>3, <1>4, <1>5 DEF Work, Quiet, history
<1> QED BY <1>1, <1>6, WorkStep

----------------------------------------------------------------------------
(* The actions of a statement.                                             *)

\* The executing transaction is active, and its statement has its type.
LEMMA Running ==
  ASSUME Inv, NEW xid \in Xid, stmt[xid] # NoStmt
  PROVE  outcome[xid] = "active" /\ stmt[xid] \in Stmt /\ StatementOK(xid)
BY DEF Inv, Typed, Outcomes, Statements

\* A statement starts.
LEMMA StartStep ==
  ASSUME Inv, NEW xid \in Xid, Start(xid)
  PROVE  Inv'
<1>1. outcome[xid] = "active" /\ xid \in Active
  BY ActiveSet DEF Inv, Start, Idle
<1>2. /\ xid2cid_[xid] \in 1 .. MaxCid
      /\ xid2cid_' \in [Xid -> 0 .. MaxCid + 1]
      /\ \A y \in Xid : xid2cid_'[y] # 0 <=> xid2cid_[y] # 0
  <2>1. /\ xid2cid_[xid] # 0 /\ xid2cid_[xid] <= MaxCid
        /\ xid2cid_ \in [Xid -> 0 .. MaxCid + 1]
        /\ xid2cid_' = [xid2cid_ EXCEPT ![xid] = xid2cid_[xid] + 1]
    BY <1>1 DEF Inv, Typed, Outcomes, Start, TM!GetCidAndIncrement
  <2>2. xid2cid_[xid] \in 1 .. MaxCid /\ xid2cid_[xid] + 1 \in 0 .. MaxCid + 1 /\ xid2cid_[xid] + 1 # 0
    BY <2>1, XactBounds
  <2> QED BY <2>1, <2>2
<1>3. PICK kind \in Kinds, isolation_level \in IsolationLevel :
        stmt' = [stmt EXCEPT ![xid] =
                  [kind |-> kind, isolation_level |-> isolation_level, cid |-> xid2cid_[xid],
                   rid |-> 1, record |-> 0,
                   at |-> IF kind = "insert" THEN "insert" ELSE "scan"]]
  BY DEF Start
<1> DEFINE s == [kind |-> kind, isolation_level |-> isolation_level, cid |-> xid2cid_[xid],
                 rid |-> 1, record |-> 0, at |-> IF kind = "insert" THEN "insert" ELSE "scan"]
<1>4. s \in Stmt
  BY <1>2, <1>3, RowBounds DEF Stmt
<1>5. s.at # "apply" /\ s.at # "lock_new"
  OBVIOUS
<1>6. stmt' = [stmt EXCEPT ![xid] = s]
  BY <1>3
<1> HIDE DEF s
<1>7. /\ stmt' \in [Xid -> {NoStmt} \cup Stmt]
      /\ \A y \in Xid \ {xid} : stmt'[y] = stmt[y]
      /\ stmt'[xid] = s
  <2>1. stmt \in [Xid -> {NoStmt} \cup Stmt]
    BY DEF Inv, Typed
  <2> QED BY <2>1, <1>4, <1>6
<1>8. UNCHANGED lockVars /\ UNCHANGED <<next_xid_, xid2active_set_, records, history>>
  BY DEF Start, TM!GetCidAndIncrement, TM!lockVars, lockVars, history
<1>9. LMP!LockInv'
  BY <1>8, LockUnchanged DEF Inv
<1>10. Quiet(xid)
  BY <1>2, <1>5, <1>7, <1>8 DEF Quiet, Grows, StatementOK, lockVars
<1> QED BY <1>1, <1>9, <1>10, QuietStep

\* A set of numbers that is not empty has a least element.
LEMMA LeastElement ==
  ASSUME NEW S, S \subseteq Nat, S # {}
  PROVE  \E i \in S : \A j \in S : i <= j
<1> DEFINE R == OpToRel(<, Nat)
<1>0. \A x, y \in Nat : <<x, y>> \in R <=> x < y
  BY DEF OpToRel
<1>1. IsWellFoundedOn(R, Nat)
  BY NatLessThanWellFounded
<1> HIDE DEF R
<1>2. PICK m \in S : \A y \in S : ~(<<y, m>> \in R)
  BY <1>1, WFMin
<1>3. ASSUME NEW y \in S PROVE m <= y
  <2>1. y \in Nat /\ m \in Nat /\ ~(y < m)
    BY <1>0, <1>2
  <2> QED BY <2>1
<1> QED BY <1>2, <1>3

\* The scan returns only versions its transaction may touch, and none the
\* statement made itself.
LEMMA VisibleUsable ==
  ASSUME Inv, NEW xid \in Xid, stmt[xid] # NoStmt, NEW i \in VisibleFrom(xid, stmt[xid])
  PROVE  /\ i \in 1 .. Len(records) /\ Usable(xid, i)
         /\ ~(records[i].xmin = xid /\ records[i].cid = stmt[xid].cid)
<1> DEFINE s == stmt[xid]
           r == records[i]
           c == s.cid
<1>1. outcome[xid] = "active" /\ s \in Stmt
  BY Running
<1>2. /\ i \in 1 .. Len(records)
      /\ ~CanGet(r, xid, c, s.isolation_level, ActiveXids(xid, s.isolation_level))
  BY DEF VisibleFrom
<1>3. s.isolation_level \in IsolationLevel
  BY <1>1 DEF Stmt
<1> HIDE DEF s, c
<1>4. Active = {y \in Xid : outcome[y] = "active"}
  BY ActiveSet DEF Inv
<1>5. /\ r.xmin \in Xid /\ r.xmin \in Nat
      /\ NULL_XID \notin Xid
      /\ VersionOK(i)
      /\ outcome \in [Xid -> Outcome]
  BY <1>2, Header DEF Inv, Typed, Versions
<1>6. CASE s.isolation_level = "REPEATABLE_READ"
  <2> DEFINE A == xid2active_set_[xid]
  <2>1. ~HiddenRepeatableRead(r, xid, c, A)
    BY <1>2, <1>6 DEF CanGet, ActiveXids, TM!GetSnapshot
  <2>2. /\ \A y \in A : y < xid
        /\ \A y \in Xid : y < xid /\ y \notin A => outcome[y] \in {"committed", "aborted"}
    BY <1>1 DEF Inv, Snapshots
  <2>3. xid \in Nat
    BY DEF Xid
  <2>4. ~(r.cid = c /\ r.xmin = xid)
    BY <2>1 DEF HiddenRepeatableRead
  <2>5. ASSUME r.xmin # xid PROVE outcome[r.xmin] = "committed"
    <3>1. r.xmin \notin A /\ ~(r.xmin > xid) /\ ~(r.xmax \notin A /\ r.xmax <= xid)
      BY <2>1, <2>5 DEF HiddenRepeatableRead
    <3>2. r.xmin < xid
      BY <3>1, <2>3, <2>5, <1>5
    <3>3. outcome[r.xmin] # "aborted"
      BY <3>1, <3>2, <2>3, <1>5 DEF VersionOK
    <3> QED BY <3>1, <3>2, <3>3, <2>2, <1>5
  <2> QED BY <1>2, <2>4, <2>5 DEF Usable, c, s
<1>7. CASE s.isolation_level \in {"READ_COMMITTED", "SERIALIZABLE"}
  <2>1. ~HiddenReadCommitted(r, xid, c, Active)
    <3>1. HiddenSerializable(r, xid, c, Active) <=> HiddenReadCommitted(r, xid, c, Active)
      BY DEF HiddenSerializable, HiddenReadCommitted
    <3> QED BY <3>1, <1>2, <1>7 DEF CanGet, ActiveXids
  <2>2. ~(r.cid = c /\ r.xmin = xid)
    BY <2>1 DEF HiddenReadCommitted
  <2>3. ASSUME r.xmin # xid PROVE outcome[r.xmin] = "committed"
    <3>1. r.xmin \notin Active /\ ~(r.xmax # NULL_XID /\ r.xmax \notin Active)
      BY <2>1, <2>3 DEF HiddenReadCommitted
    <3>2. outcome[r.xmin] # "aborted"
      BY <3>1, <1>4, <1>5 DEF VersionOK
    <3> QED BY <3>1, <3>2, <1>4, <1>5 DEF VersionOK, Outcome
  <2> QED BY <1>2, <2>2, <2>3 DEF Usable, c, s
<1> QED BY <1>3, <1>6, <1>7 DEF IsolationLevel

\* A call of SeqScanExecutor::Next.
LEMMA ScanNextStep ==
  ASSUME Inv, NEW xid \in Xid, ScanNext(xid)
  PROVE  Inv'
<1> DEFINE s == stmt[xid]
           visible == VisibleFrom(xid, s)
           found == CHOOSE i \in visible : \A j \in visible : i <= j
           kept == s.kind \in {"share", "for_update", "delete", "update"}
           e == [s EXCEPT !.rid = IF found < Len(records) THEN found + 1 ELSE NULL_PAGE,
                          !.record = IF kept THEN found ELSE 0,
                          !.at = IF kept THEN "apply" ELSE "scan"]
<1>1. s # NoStmt /\ outcome[xid] = "active" /\ s \in Stmt
  BY Running DEF ScanNext
<1>2. LMP!LockInv' /\ Grows(xid) /\ heldRow' = heldRow
  BY LockTableStep DEF Inv, ScanNext
<1>3. UNCHANGED <<next_xid_, xid2cid_, xid2active_set_, records, history>>
  BY DEF ScanNext, xactVars, history
<1>4. \/ stmt' = [stmt EXCEPT ![xid] = NoStmt]
      \/ visible # {} /\ stmt' = [stmt EXCEPT ![xid] = e]
  BY DEF ScanNext, End
<1>5. /\ xid2cid_' \in [Xid -> 0 .. MaxCid + 1]
      /\ \A y \in Xid : xid2cid_'[y] # 0 <=> xid2cid_[y] # 0
      /\ stmt \in [Xid -> {NoStmt} \cup Stmt]
  BY <1>3 DEF Inv, Typed
<1>6. CASE stmt' = [stmt EXCEPT ![xid] = NoStmt]
  <2>1. /\ stmt' \in [Xid -> {NoStmt} \cup Stmt]
        /\ \A y \in Xid \ {xid} : stmt'[y] = stmt[y]
        /\ stmt'[xid] = NoStmt
    BY <1>5, <1>6
  <2>2. Quiet(xid)
    BY <2>1, <1>2, <1>3, <1>5 DEF Quiet
  <2> QED BY <2>2, <1>1, <1>2, QuietStep
<1>7. CASE visible # {} /\ stmt' = [stmt EXCEPT ![xid] = e]
  <2>1. found \in visible
    <3>1. visible \subseteq Nat
      BY DEF VisibleFrom
    <3> HIDE DEF visible
    <3>2. \E i \in visible : \A j \in visible : i <= j
      BY <3>1, <1>7, LeastElement
    <3> QED BY <3>2
  <2>2. /\ found \in 1 .. Len(records) /\ Usable(xid, found)
        /\ ~(records[found].xmin = xid /\ records[found].cid = s.cid)
    BY <2>1, <1>1, VisibleUsable
  <2> DEFINE rid == IF found < Len(records) THEN found + 1 ELSE NULL_PAGE
             rec == IF kept THEN found ELSE 0
             at == IF kept THEN "apply" ELSE "scan"
  <2>3. Len(records) \in Nat /\ Len(records) <= MaxRows
    BY DEF Inv, Typed
  <2> HIDE DEF found, kept
  <2>4. rid \in 0 .. MaxRows /\ rec \in 0 .. MaxRows /\ at \in {"scan", "apply"}
    BY <2>2, <2>3, RowBounds DEF NULL_PAGE
  <2>5. at = "apply" => rec = found
    OBVIOUS
  <2>6. e = [s EXCEPT !.rid = rid, !.record = rec, !.at = at]
    OBVIOUS
  <2> HIDE DEF rid, rec, at, e
  <2>7. e \in Stmt /\ e.record = rec /\ e.at = at /\ e.cid = s.cid
    BY <2>4, <2>6, <1>1 DEF Stmt
  <2>8. /\ stmt' \in [Xid -> {NoStmt} \cup Stmt]
        /\ \A y \in Xid \ {xid} : stmt'[y] = stmt[y]
        /\ stmt'[xid] = e
    BY <2>7, <1>5, <1>7
  <2>9. records'[found].xmin = xid \/ outcome'[records'[found].xmin] = "committed"
    BY <2>2, <1>3 DEF Usable, history
  <2>10. StatementOK(xid)'
    BY <2>2, <2>4, <2>5, <2>7, <2>8, <2>9, <1>3 DEF StatementOK, Usable
  <2>11. Quiet(xid)
    BY <2>8, <2>10, <1>2, <1>3, <1>5 DEF Quiet
  <2> QED BY <2>11, <1>1, <1>2, QuietStep
<1> QED BY <1>4, <1>6, <1>7

\* Another statement, or none, for one transaction.
LEMMA StmtUpdate ==
  ASSUME NEW f \in [Xid -> {NoStmt} \cup Stmt], NEW xid \in Xid, NEW s \in Stmt
  PROVE  /\ [f EXCEPT ![xid] = s] \in [Xid -> {NoStmt} \cup Stmt]
         /\ \A y \in Xid \ {xid} : [f EXCEPT ![xid] = s][y] = f[y]
         /\ [f EXCEPT ![xid] = s][xid] = s
OBVIOUS

\* A statement goes to another point, with another record in hand.
LEMMA StmtMoves ==
  ASSUME NEW s \in Stmt, NEW a \in {"insert", "scan", "apply", "lock_new"}, NEW r \in 0 .. MaxRows
  PROVE  /\ [s EXCEPT !.at = a, !.record = r] \in Stmt
         /\ [s EXCEPT !.at = a, !.record = r].at = a
         /\ [s EXCEPT !.at = a, !.record = r].record = r
BY DEF Stmt

\* What a statement leaves behind when it ends or goes on scanning.
LEMMA StmtSettled ==
  ASSUME Inv, NEW xid \in Xid, stmt[xid] # NoStmt,
         \/ stmt' = [stmt EXCEPT ![xid] = NoStmt]
         \/ stmt' = [stmt EXCEPT ![xid].at = "scan", ![xid].record = 0]
  PROVE  /\ stmt' \in [Xid -> {NoStmt} \cup Stmt]
         /\ \A y \in Xid \ {xid} : stmt'[y] = stmt[y]
         /\ stmt'[xid] # NoStmt => StatementOK(xid)'
<1>0. stmt \in [Xid -> {NoStmt} \cup Stmt]
  BY DEF Inv, Typed
<1>1. CASE stmt' = [stmt EXCEPT ![xid] = NoStmt]
  BY <1>0, <1>1
<1>2. CASE stmt' = [stmt EXCEPT ![xid].at = "scan", ![xid].record = 0]
  <2> DEFINE s == stmt[xid]
             e == [s EXCEPT !.at = "scan", !.record = 0]
  <2>1. stmt' = [stmt EXCEPT ![xid] = e]
    BY <1>0, <1>2
  <2>a. s \in Stmt
    BY Running
  <2>2. e \in Stmt /\ e.at = "scan"
    <3>1. 0 \in 0 .. MaxRows
      BY RowBounds
    <3> QED BY <2>a, <3>1, StmtMoves
  <2> HIDE DEF e
  <2>3. /\ stmt' \in [Xid -> {NoStmt} \cup Stmt]
        /\ \A y \in Xid \ {xid} : stmt'[y] = stmt[y]
        /\ stmt'[xid] = e
    BY <2>1, <2>2, <1>0
  <2> QED BY <2>2, <2>3 DEF StatementOK
<1> QED BY <1>1, <1>2

\* LockRowsExecutor::Next, and the X lock on a new record.
LEMMA LockRowsStep ==
  ASSUME Inv, NEW xid \in Xid, LockRows(xid) \/ LockNewRow(xid)
  PROVE  Inv'
<1> DEFINE rid == stmt[xid].record
<1>1. stmt[xid] # NoStmt /\ outcome[xid] = "active" /\ StatementOK(xid)
  BY Running DEF LockRows, LockNewRow
<1>2. rid \in 1 .. Len(records) /\ Usable(xid, rid)
  BY <1>1 DEF LockRows, LockNewRow, StatementOK, Usable
<1>3. rid \in Rid /\ rid \in Nat /\ Len(records) \in Nat
  BY <1>2, Header DEF Inv, Typed
<1>4. PICK t \in {"S", "X"} : LM!LockRow(xid, t, TableOid, rid)
  BY DEF LockRows, LockNewRow
<1>5. /\ LMP!LockInv' /\ Grows(xid)
      /\ \A i \in Rid \ {rid} : heldRow'[xid][TableOid][i] = heldRow[xid][TableOid][i]
  BY <1>3, <1>4, LockRowStep DEF Inv
<1>6. UNCHANGED <<next_xid_, xid2cid_, xid2active_set_, records, history>>
  BY DEF LockRows, LockNewRow, xactVars, history
<1>7. \/ stmt' = [stmt EXCEPT ![xid] = NoStmt]
      \/ stmt' = [stmt EXCEPT ![xid].at = "scan", ![xid].record = 0]
  BY DEF LockRows, LockNewRow, End
<1>8. /\ stmt' \in [Xid -> {NoStmt} \cup Stmt]
      /\ \A y \in Xid \ {xid} : stmt'[y] = stmt[y]
      /\ stmt'[xid] # NoStmt => StatementOK(xid)'
  BY <1>1, <1>7, StmtSettled
<1>9. \A i \in Rid : heldRow'[xid][TableOid][i] # heldRow[xid][TableOid][i] =>
        i <= Len(records) /\ Usable(xid, i)
  BY <1>2, <1>3, <1>5
<1>10. Quiet(xid)
  BY <1>5, <1>6, <1>8, <1>9 DEF Quiet, Inv, Typed
<1> QED BY <1>1, <1>5, <1>10, QuietStep

\* DatabaseEngine::Lock.
LEMMA LockStatementStep ==
  ASSUME Inv, NEW xid \in Xid, LockStatement(xid)
  PROVE  Inv'
<1>1. outcome[xid] = "active" /\ stmt[xid] = NoStmt
  BY ActiveSet DEF Inv, LockStatement, Idle
<1>2. PICK t \in {"S", "X"} : LM!LockTable(xid, t, TableOid)
  BY LockAssumption DEF LockStatement
<1>3. LMP!LockInv' /\ Grows(xid) /\ heldRow' = heldRow
  BY <1>2, LockTableStep DEF Inv
<1>4. UNCHANGED <<next_xid_, xid2cid_, xid2active_set_, records, stmt, history>>
  BY DEF LockStatement, xactVars, history
<1>5. Quiet(xid)
  BY <1>1, <1>3, <1>4 DEF Quiet, Inv, Typed
<1> QED BY <1>1, <1>3, <1>5, QuietStep

\* A refused lock ends a modifying statement before it changes a version.
LEMMA RefusedStep ==
  ASSUME Inv, NEW xid \in Xid, stmt[xid] # NoStmt, LMP!LockInv', Grows(xid),
         \A i \in Rid : heldRow'[xid][TableOid][i] # heldRow[xid][TableOid][i] =>
           i <= Len(records) /\ Usable(xid, i),
         End(xid), UNCHANGED <<xactVars, records, history>>
  PROVE  Inv'
<1>1. /\ stmt' \in [Xid -> {NoStmt} \cup Stmt]
      /\ \A y \in Xid \ {xid} : stmt'[y] = stmt[y]
      /\ stmt'[xid] # NoStmt => StatementOK(xid)'
  BY StmtSettled DEF End
<1>2. Quiet(xid)
  BY <1>1 DEF Quiet, Inv, Typed, xactVars, history
<1> QED BY <1>2, Running, QuietStep

\* The row lock DeleteExecutor and UpdateExecutor ask for.
LEMMA WriteLock ==
  ASSUME Inv, NEW xid \in Xid, stmt[xid] # NoStmt, stmt[xid].at = "apply",
         LM!LockRow(xid, "X", TableOid, stmt[xid].record)
  PROVE  /\ LMP!LockInv' /\ Grows(xid)
         /\ stmt[xid].record \in 1 .. Len(records) /\ Usable(xid, stmt[xid].record)
         /\ stmt[xid].record \in Rid
         /\ \A i \in Rid : heldRow'[xid][TableOid][i] # heldRow[xid][TableOid][i] =>
              i <= Len(records) /\ Usable(xid, i)
         /\ LM!LockRowGranted(xid, "X", TableOid, stmt[xid].record) =>
              /\ "X" \in heldRow'[xid][TableOid][stmt[xid].record]
              /\ "IX" \in heldTable'[xid][TableOid]
<1> DEFINE rid == stmt[xid].record
<1>1. rid \in 1 .. Len(records) /\ Usable(xid, rid)
  BY Running DEF StatementOK
<1>2. rid \in Rid /\ rid \in Nat /\ Len(records) \in Nat
  BY <1>1, Header DEF Inv, Typed
<1>3. /\ LMP!LockInv' /\ Grows(xid)
      /\ \A i \in Rid \ {rid} : heldRow'[xid][TableOid][i] = heldRow[xid][TableOid][i]
      /\ LM!LockRowGranted(xid, "X", TableOid, rid) =>
              "X" \in heldRow'[xid][TableOid][rid] /\ "IX" \in heldTable'[xid][TableOid]
  BY <1>2, LockRowStep DEF Inv
<1> QED BY <1>1, <1>2, <1>3

\* The delete mark of xid on version rid, in the header and in the history.
LEMMA MarkVersion ==
  ASSUME Inv, NEW xid \in Xid, NEW rid \in 1 .. Len(records),
         Usable(xid, rid), "X" \in heldRow'[xid][TableOid][rid],
         NoteDelete(rid, xid)
  PROVE  /\ Deleted(rid, xid) \in Seq(Record)
         /\ Len(Deleted(rid, xid)) = Len(records)
         /\ deleters' \in [Rid -> SUBSET Xid]
         /\ \A i \in Rid : i > Len(records) => deleters'[i] = {}
         /\ (\A i \in 1 .. Len(records) : records'[i] = Deleted(rid, xid)[i]) =>
              \A i \in 1 .. Len(records) : Kept(i) \/ Marked(xid, i)
<1> DEFINE v == [records[rid] EXCEPT !.xmax = xid]
<1>1. records \in Seq(Record) /\ records[rid] \in Record /\ rid \in Rid /\ rid \in Nat /\ Len(records) \in Nat
  BY Header DEF Inv, Typed
<1>2. /\ v \in Record /\ v.xmax = xid
      /\ v.xmin = records[rid].xmin /\ v.cid = records[rid].cid
  BY <1>1 DEF Record
<1>3. Deleted(rid, xid) = [records EXCEPT ![rid] = v]
  BY <1>1 DEF Deleted, DeleteRecord
<1> HIDE DEF v
<1>4. /\ Deleted(rid, xid) \in Seq(Record) /\ Len(Deleted(rid, xid)) = Len(records)
      /\ \A i \in 1 .. Len(records) : Deleted(rid, xid)[i] = IF i = rid THEN v ELSE records[i]
  BY <1>1, <1>2, <1>3
<1>5. deleters \in [Rid -> SUBSET Xid] /\ deleters' = [deleters EXCEPT ![rid] = deleters[rid] \cup {xid}]
  BY DEF Inv, Typed, NoteDelete
<1>6. /\ deleters' \in [Rid -> SUBSET Xid]
      /\ \A i \in Rid : deleters'[i] = IF i = rid THEN deleters[rid] \cup {xid} ELSE deleters[i]
  BY <1>1, <1>5
<1>7. \A i \in Rid : i > Len(records) => deleters'[i] = {}
  BY <1>1, <1>6 DEF Inv, Versions
<1>8. ASSUME \A i \in 1 .. Len(records) : records'[i] = Deleted(rid, xid)[i], NEW i \in 1 .. Len(records)
      PROVE  Kept(i) \/ Marked(xid, i)
  <2>0. i \in Rid
    BY Header DEF Inv
  <2>1. CASE i = rid
    <3>1. i \in redeleted' <=> i \in redeleted \/ records[i].xmax # NULL_XID
      BY <2>1 DEF NoteDelete
    <3> QED BY <3>1, <2>0, <2>1, <1>2, <1>4, <1>6, <1>8 DEF Marked
  <2>2. CASE i # rid
    <3>1. i \in redeleted' <=> i \in redeleted
      BY <2>2 DEF NoteDelete
    <3> QED BY <3>1, <2>0, <2>2, <1>4, <1>6, <1>8 DEF Kept
  <2> QED BY <2>1, <2>2
<1> QED BY <1>4, <1>6, <1>7, <1>8

\* DeleteExecutor::Next.
LEMMA DeleteStep ==
  ASSUME Inv, NEW xid \in Xid, Delete(xid)
  PROVE  Inv'
<1> DEFINE rid == stmt[xid].record
<1>1. stmt[xid] # NoStmt /\ stmt[xid].at = "apply" /\ LM!LockRow(xid, "X", TableOid, rid)
  BY DEF Delete
<1>2. outcome[xid] = "active"
  BY <1>1, Running
<1>3. /\ LMP!LockInv' /\ Grows(xid)
      /\ rid \in 1 .. Len(records) /\ Usable(xid, rid)
      /\ \A i \in Rid : heldRow'[xid][TableOid][i] # heldRow[xid][TableOid][i] =>
           i <= Len(records) /\ Usable(xid, i)
      /\ LM!LockRowGranted(xid, "X", TableOid, rid) => "X" \in heldRow'[xid][TableOid][rid]
  BY <1>1, WriteLock
<1>4. UNCHANGED <<xactVars, outcome, seen>>
  BY DEF Delete
<1>5. CASE ~LM!LockRowGranted(xid, "X", TableOid, rid)
  <2>1. End(xid) /\ UNCHANGED <<records, deleters, redeleted>>
    BY <1>5 DEF Delete
  <2> QED BY <2>1, <1>1, <1>3, <1>4, RefusedStep DEF history
<1>6. CASE LM!LockRowGranted(xid, "X", TableOid, rid)
  <2>1. /\ records' = Deleted(rid, xid) /\ NoteDelete(rid, xid)
        /\ stmt' = [stmt EXCEPT ![xid].at = "scan", ![xid].record = 0]
    BY <1>6 DEF Delete
  <2>2. /\ Deleted(rid, xid) \in Seq(Record) /\ Len(Deleted(rid, xid)) = Len(records)
        /\ deleters' \in [Rid -> SUBSET Xid]
        /\ \A i \in Rid : i > Len(records) => deleters'[i] = {}
        /\ (\A i \in 1 .. Len(records) : records'[i] = Deleted(rid, xid)[i]) =>
              \A i \in 1 .. Len(records) : Kept(i) \/ Marked(xid, i)
    BY <2>1, <1>3, <1>6, MarkVersion
  <2>3. /\ stmt' \in [Xid -> {NoStmt} \cup Stmt]
        /\ \A y \in Xid \ {xid} : stmt'[y] = stmt[y]
        /\ stmt'[xid] # NoStmt => StatementOK(xid)'
    BY <2>1, <1>1, StmtSettled
  <2>4. Len(records) \in Nat /\ Len(records) <= MaxRows
    BY DEF Inv, Typed
  <2>5. WorkTyped
    BY <2>1, <2>2, <2>3, <2>4, <1>4 DEF WorkTyped, Inv, Typed, xactVars
  <2>6. \A i \in 1 .. Len(records) : Kept(i) \/ Marked(xid, i)
    BY <2>1, <2>2
  <2>7. Len(records') = Len(records) /\ \A i \in 1 .. Len(records') : ~(i > Len(records))
    BY <2>1, <2>2, <2>4
  <2>8. Work(xid)
    BY <2>2, <2>3, <2>4, <2>6, <2>7, <1>3, <1>4 DEF Work, xactVars
  <2> QED BY <2>5, <2>8, <1>2, <1>3, WorkStep
<1> QED BY <1>5, <1>6

\* A statement that has added a version goes on to lock it.
LEMMA StmtAdded ==
  ASSUME Inv, NEW xid \in Xid, stmt[xid] # NoStmt, Len(records) < MaxRows,
         stmt' = [stmt EXCEPT ![xid].at = "lock_new", ![xid].record = Len(records) + 1],
         Len(records') = Len(records) + 1, records'[Len(records) + 1].xmin = xid
  PROVE  /\ stmt' \in [Xid -> {NoStmt} \cup Stmt]
         /\ \A y \in Xid \ {xid} : stmt'[y] = stmt[y]
         /\ stmt'[xid] # NoStmt => StatementOK(xid)'
<1> DEFINE n == Len(records) + 1
           e == [stmt[xid] EXCEPT !.at = "lock_new", !.record = n]
<1>0. stmt \in [Xid -> {NoStmt} \cup Stmt] /\ stmt[xid] \in Stmt
  BY Running DEF Inv, Typed
<1>1. n \in 0 .. MaxRows /\ n \in 1 .. Len(records')
  BY RowBounds DEF Inv, Typed
<1>2. records'[n].xmin = xid
  OBVIOUS
<1>3. stmt' = [stmt EXCEPT ![xid] = e]
  BY <1>0
<1> HIDE DEF n
<1>4. e \in Stmt /\ e.at = "lock_new" /\ e.record = n
  BY <1>0, <1>1, StmtMoves
<1> HIDE DEF e
<1>5. /\ stmt' \in [Xid -> {NoStmt} \cup Stmt]
      /\ \A y \in Xid \ {xid} : stmt'[y] = stmt[y]
      /\ stmt'[xid] = e
  <2> DEFINE g == [stmt EXCEPT ![xid] = e]
  <2>1. /\ g \in [Xid -> {NoStmt} \cup Stmt]
        /\ \A y \in Xid \ {xid} : g[y] = stmt[y]
        /\ g[xid] = e
    BY <1>0, <1>4, StmtUpdate
  <2>2. stmt' = g
    BY <1>3
  <2> HIDE DEF g
  <2> QED BY <2>1, <2>2
<1> QED BY <1>1, <1>2, <1>4, <1>5 DEF StatementOK

\* What Table::InsertRecord appends.
LEMMA AppendVersion ==
  ASSUME NEW versions \in Seq(Record), NEW xid \in Xid, NEW cid \in 1 .. MaxCid
  PROVE  LET w == Inserted(versions, xid, cid) IN
         /\ w \in Seq(Record) /\ Len(w) = Len(versions) + 1
         /\ \A i \in 1 .. Len(versions) : w[i] = versions[i]
         /\ w[Len(versions) + 1].xmin = xid /\ w[Len(versions) + 1].xmax = NULL_XID
<1> DEFINE v == NewVersion(xid, cid)
<1>1. v \in Record
  BY XactBounds DEF NewVersion, Record, NULL_XID
<1>2. v.xmin = xid /\ v.xmax = NULL_XID
  BY DEF NewVersion
<1> HIDE DEF v
<1>3. /\ Append(versions, v) \in Seq(Record) /\ Len(Append(versions, v)) = Len(versions) + 1
      /\ \A i \in 1 .. Len(versions) : Append(versions, v)[i] = versions[i]
      /\ Append(versions, v)[Len(versions) + 1] = v
  BY <1>1
<1> QED BY <1>2, <1>3 DEF Inserted, v

\* UpdateExecutor::Next up to UpdateRecord.
LEMMA UpdateStep ==
  ASSUME Inv, NEW xid \in Xid, Update(xid)
  PROVE  Inv'
<1> DEFINE rid == stmt[xid].record
           cid == stmt[xid].cid
<1>1. /\ stmt[xid] # NoStmt /\ stmt[xid].at = "apply" /\ LM!LockRow(xid, "X", TableOid, rid)
      /\ Len(records) < MaxRows
  BY DEF Update
<1>2. outcome[xid] = "active" /\ cid \in 1 .. MaxCid
  BY <1>1, Running DEF Stmt
<1>3. /\ LMP!LockInv' /\ Grows(xid)
      /\ rid \in 1 .. Len(records) /\ Usable(xid, rid)
      /\ \A i \in Rid : heldRow'[xid][TableOid][i] # heldRow[xid][TableOid][i] =>
           i <= Len(records) /\ Usable(xid, i)
      /\ LM!LockRowGranted(xid, "X", TableOid, rid) =>
           "X" \in heldRow'[xid][TableOid][rid] /\ "IX" \in heldTable'[xid][TableOid]
  BY <1>1, WriteLock
<1>4. UNCHANGED <<xactVars, outcome, seen>>
  BY DEF Update
<1>5. CASE ~LM!LockRowGranted(xid, "X", TableOid, rid)
  <2>1. End(xid) /\ UNCHANGED <<records, deleters, redeleted>>
    BY <1>5 DEF Update
  <2> QED BY <2>1, <1>1, <1>3, <1>4, RefusedStep DEF history
<1>6. CASE LM!LockRowGranted(xid, "X", TableOid, rid)
  <2>1. /\ records' = Inserted(Deleted(rid, xid), xid, cid) /\ NoteDelete(rid, xid)
        /\ stmt' = [stmt EXCEPT ![xid].at = "lock_new", ![xid].record = Len(records) + 1]
    BY <1>6 DEF Update
  <2>2. /\ Deleted(rid, xid) \in Seq(Record) /\ Len(Deleted(rid, xid)) = Len(records)
        /\ deleters' \in [Rid -> SUBSET Xid]
        /\ \A i \in Rid : i > Len(records) => deleters'[i] = {}
        /\ (\A i \in 1 .. Len(records) : records'[i] = Deleted(rid, xid)[i]) =>
              \A i \in 1 .. Len(records) : Kept(i) \/ Marked(xid, i)
    BY <2>1, <1>3, <1>6, MarkVersion
  <2>3. /\ records' \in Seq(Record) /\ Len(records') = Len(records) + 1
        /\ \A i \in 1 .. Len(records) : records'[i] = Deleted(rid, xid)[i]
        /\ records'[Len(records) + 1].xmin = xid /\ records'[Len(records) + 1].xmax = NULL_XID
    BY <2>1, <2>2, <1>2, AppendVersion
  <2>4. Len(records) \in Nat /\ Len(records') <= MaxRows
    BY <2>3, <1>1, RowBounds DEF Inv, Typed
  <2>5. /\ stmt' \in [Xid -> {NoStmt} \cup Stmt]
        /\ \A y \in Xid \ {xid} : stmt'[y] = stmt[y]
        /\ stmt'[xid] # NoStmt => StatementOK(xid)'
    BY <2>1, <2>3, <1>1, StmtAdded
  <2>6. WorkTyped
    BY <2>2, <2>3, <2>4, <2>5, <1>4 DEF WorkTyped, Inv, Typed, xactVars
  <2>7. \A i \in 1 .. Len(records) : Kept(i) \/ Marked(xid, i)
    BY <2>2, <2>3
  <2>8. \A i \in 1 .. Len(records') : i > Len(records) => Added(xid, i)
    BY <2>3, <2>4, <1>3, <1>6 DEF Added
  <2>9. Work(xid)
    BY <2>2, <2>3, <2>4, <2>5, <2>7, <2>8, <1>3, <1>4 DEF Work, xactVars
  <2> QED BY <2>6, <2>9, <1>2, <1>3, WorkStep
<1> QED BY <1>5, <1>6

\* InsertExecutor::Next up to InsertRecord.
LEMMA InsertStep ==
  ASSUME Inv, NEW xid \in Xid, Insert(xid)
  PROVE  Inv'
<1> DEFINE cid == stmt[xid].cid
<1>1. /\ stmt[xid] # NoStmt /\ LM!LockTable(xid, "IX", TableOid)
      /\ Len(records) < MaxRows
  BY DEF Insert
<1>2. outcome[xid] = "active" /\ cid \in 1 .. MaxCid
  BY <1>1, Running DEF Stmt
<1>3. /\ LMP!LockInv' /\ Grows(xid) /\ heldRow' = heldRow
      /\ LM!LockTableGranted(xid, "IX", TableOid) => "IX" \in heldTable'[xid][TableOid]
  BY <1>1, LockTableStep DEF Inv
<1>4. UNCHANGED <<xactVars, history>>
  BY DEF Insert
<1>5. CASE ~LM!LockTableGranted(xid, "IX", TableOid)
  <2>1. End(xid) /\ UNCHANGED records
    BY <1>5 DEF Insert
  <2> QED BY <2>1, <1>1, <1>3, <1>4, RefusedStep
<1>6. CASE LM!LockTableGranted(xid, "IX", TableOid)
  <2>1. /\ records' = Inserted(records, xid, cid)
        /\ stmt' = [stmt EXCEPT ![xid].at = "lock_new", ![xid].record = Len(records) + 1]
    BY <1>6 DEF Insert
  <2>2. /\ deleters' \in [Rid -> SUBSET Xid]
        /\ \A i \in Rid : i > Len(records) => deleters'[i] = {}
    BY <1>4 DEF history, Inv, Typed, Versions
  <2>3. /\ records' \in Seq(Record) /\ Len(records') = Len(records) + 1
        /\ \A i \in 1 .. Len(records) : records'[i] = records[i]
        /\ records'[Len(records) + 1].xmin = xid /\ records'[Len(records) + 1].xmax = NULL_XID
    BY <2>1, <1>2, AppendVersion DEF Inv, Typed
  <2>4. Len(records) \in Nat /\ Len(records') <= MaxRows
    BY <2>3, <1>1, RowBounds DEF Inv, Typed
  <2>5. /\ stmt' \in [Xid -> {NoStmt} \cup Stmt]
        /\ \A y \in Xid \ {xid} : stmt'[y] = stmt[y]
        /\ stmt'[xid] # NoStmt => StatementOK(xid)'
    BY <2>1, <2>3, <1>1, StmtAdded
  <2>6. WorkTyped
    BY <2>2, <2>3, <2>4, <2>5, <1>4 DEF WorkTyped, Inv, Typed, xactVars
  <2>7. \A i \in 1 .. Len(records) : Kept(i)
    BY <2>3, <1>4 DEF Kept, history
  <2>8. \A i \in 1 .. Len(records') : i > Len(records) => Added(xid, i)
    BY <2>3, <2>4, <1>3, <1>6 DEF Added
  <2>9. Work(xid)
    BY <2>2, <2>3, <2>4, <2>5, <2>7, <2>8, <1>3, <1>4 DEF Work, xactVars, history
  <2> QED BY <2>6, <2>9, <1>2, <1>3, WorkStep
<1> QED BY <1>5, <1>6

----------------------------------------------------------------------------
(* Begin and the end of a transaction.                                     *)

\* Begin activates an identifier no version, lock or snapshot mentions.
LEMMA BeginStep ==
  ASSUME Inv, Begin
  PROVE  Inv'
<1> DEFINE n == next_xid_
<1>0. n \in Xid /\ n + 1 \in 2 .. MaxXid + 1 /\ n \in Nat
  BY XactBounds DEF Inv, Typed, Begin, TM!Begin, Xid
<1>1. outcome[n] = "none" /\ stmt[n] = NoStmt
  <2>1. outcome[n] = "none"
    BY <1>0 DEF Inv, Outcomes
  <2> QED BY <2>1, <1>0 DEF Inv, Outcomes
<1>2. UNCHANGED lockVars /\ UNCHANGED <<records, stmt, deleters, redeleted>>
  BY DEF Begin, TM!Begin, TM!lockVars, lockVars
<1>3. /\ next_xid_' = n + 1
      /\ xid2cid_' = [xid2cid_ EXCEPT ![n] = 1]
      /\ xid2active_set_' = [xid2active_set_ EXCEPT ![n] = Active]
      /\ outcome' = [outcome EXCEPT ![n] = "active"]
      /\ seen' = [seen EXCEPT ![n] = {x \in Xid : outcome[x] = "committed"}]
  BY DEF Begin, TM!Begin, TM!FIRST_CID, Active
<1>4. Active = {x \in Xid : outcome[x] = "active"}
  BY ActiveSet DEF Inv
<1>t. /\ xid2cid_ \in [Xid -> 0 .. MaxCid + 1] /\ xid2active_set_ \in [Xid -> SUBSET (0 .. MaxXid)]
      /\ outcome \in [Xid -> Outcome] /\ seen \in [Xid -> SUBSET Xid]
  BY DEF Inv, Typed
<1>5. /\ xid2cid_' \in [Xid -> 0 .. MaxCid + 1]
      /\ \A x \in Xid : xid2cid_'[x] = IF x = n THEN 1 ELSE xid2cid_[x]
  <2>1. 1 \in 0 .. MaxCid + 1
    BY XactBounds
  <2> QED BY <2>1, <1>t, <1>0, <1>3
<1>6. /\ outcome' \in [Xid -> Outcome]
      /\ \A x \in Xid : outcome'[x] = IF x = n THEN "active" ELSE outcome[x]
  BY <1>t, <1>0, <1>3 DEF Outcome
<1>7. /\ xid2active_set_' \in [Xid -> SUBSET (0 .. MaxXid)]
      /\ \A x \in Xid : xid2active_set_'[x] = IF x = n THEN Active ELSE xid2active_set_[x]
  <2>1. Active \in SUBSET (0 .. MaxXid)
    BY <1>4 DEF Xid
  <2> HIDE DEF n
  <2> QED BY <2>1, <1>t, <1>0, <1>3
<1>8. /\ seen' \in [Xid -> SUBSET Xid]
      /\ \A x \in Xid : seen'[x] = IF x = n THEN {y \in Xid : outcome[y] = "committed"} ELSE seen[x]
  BY <1>t, <1>0, <1>3
<1> HIDE DEF n
<1>9. Typed'
  BY <1>0, <1>2, <1>3, <1>5, <1>6, <1>7, <1>8 DEF Inv, Typed
<1>10. Outcomes'
  <2>1. \A x \in Xid : xid2cid_'[x] # 0 <=> outcome'[x] = "active"
    BY <1>5, <1>6 DEF Inv, Outcomes
  <2>2. \A x \in Xid : outcome'[x] = "none" <=> x >= next_xid_'
    <3>1. \A x \in Xid : outcome[x] = "none" <=> x >= n
      BY DEF Inv, Outcomes, n
    <3>2. \A x \in Xid : x \in Nat
      BY DEF Xid
    <3> QED BY <3>1, <3>2, <1>0, <1>3, <1>6
  <2>3. \A x \in Xid : stmt'[x] # NoStmt => outcome'[x] = "active"
    BY <1>2, <1>6 DEF Inv, Outcomes
  <2> QED BY <2>1, <2>2, <2>3 DEF Outcomes
<1>11. Snapshots'
  <2> SUFFICES ASSUME NEW x \in Xid, outcome'[x] = "active"
               PROVE  /\ \A y \in xid2active_set_'[x] : y < x
                      /\ \A y \in Xid : y < x /\ y \notin xid2active_set_'[x] =>
                           outcome'[y] \in {"committed", "aborted"}
                      /\ seen'[x] = {y \in Xid : /\ y < x /\ y \notin xid2active_set_'[x]
                                                 /\ outcome'[y] = "committed"}
    BY DEF Snapshots
  <2>0. \A y \in Xid : y \in Nat /\ (outcome[y] = "none" <=> y >= n)
    BY DEF Inv, Outcomes, n, Xid
  <2>1. CASE x = n
    <3>1. \A y \in Xid : outcome[y] # "none" => y < n
      BY <2>0, <1>0
    <3>2. \A y \in xid2active_set_'[x] : y < x
      BY <3>1, <2>1, <1>4, <1>7
    <3>3. \A y \in Xid : y < n => outcome[y] \in {"active", "committed", "aborted"} /\ outcome'[y] = outcome[y]
      BY <2>0, <1>0, <1>6, <1>t DEF Outcome
    <3>4. \A y \in Xid : y < x /\ y \notin xid2active_set_'[x] => outcome'[y] \in {"committed", "aborted"}
      BY <3>3, <2>1, <1>4, <1>7
    <3>5. \A y \in Xid : outcome[y] = "committed" <=>
            y < n /\ y \notin Active /\ outcome'[y] = "committed"
      BY <3>1, <3>3, <1>4
    <3>6. seen'[x] = {y \in Xid : y < n /\ y \notin Active /\ outcome'[y] = "committed"}
      BY <3>5, <2>1, <1>8
    <3> QED BY <3>2, <3>4, <3>6, <2>1, <1>7
  <2>2. CASE x # n
    <3>0. outcome[x] = "active" /\ x < n
      BY <2>0, <2>2, <1>0, <1>6
    <3>1. /\ \A y \in xid2active_set_[x] : y < x
          /\ \A y \in Xid : y < x /\ y \notin xid2active_set_[x] => outcome[y] \in {"committed", "aborted"}
          /\ seen[x] = {y \in Xid : y < x /\ y \notin xid2active_set_[x] /\ outcome[y] = "committed"}
      BY <3>0 DEF Inv, Snapshots
    <3>2. \A y \in Xid : y < x => outcome'[y] = outcome[y]
      BY <3>0, <2>0, <1>0, <1>6
    <3> QED BY <3>1, <3>2, <2>2, <1>7, <1>8
  <2> QED BY <2>1, <2>2
<1>12. ASSUME NEW i \in 1 .. Len(records)
       PROVE  /\ records[i].xmin \in Xid /\ records[i].xmin # n /\ records[i].xmax # n
              /\ records[i].xmax \in Xid \/ records[i].xmax = NULL_XID
              /\ n \notin deleters[i] /\ i \in Rid
  <2>1. VersionOK(i)
    BY DEF Inv, Versions
  <2>2. records[i].xmin \in Xid /\ (records[i].xmax \in Xid \/ records[i].xmax = NULL_XID)
        /\ NULL_XID \notin Xid /\ i \in Rid
    BY Header DEF Inv
  <2> QED BY <2>1, <2>2, <1>0, <1>1 DEF VersionOK, n
<1>13. Versions'
  <2>1. ASSUME NEW i \in 1 .. Len(records) PROVE VersionOK(i)'
    <3>1. /\ VersionOK(i)
          /\ \A y \in deleters[i] : y \in Xid
      BY <1>12 DEF Inv, Versions, Typed
    <3>2. outcome'[records[i].xmin] = outcome[records[i].xmin]
      BY <1>6, <1>12
    <3>3. ASSUME records[i].xmax # NULL_XID PROVE outcome'[records[i].xmax] = outcome[records[i].xmax]
      <4>1. records[i].xmax \in Xid /\ records[i].xmax # n
        BY <3>3, <1>12
      <4> QED BY <4>1, <1>6
    <3>4. \A y \in deleters[i] : outcome'[y] = outcome[y]
      BY <3>1, <1>6, <1>12
    <3> QED BY <3>1, <3>2, <3>3, <3>4, <1>2 DEF VersionOK
  <2> QED BY <2>1, <1>2 DEF Inv, Versions
<1>14. \A y \in Xid, i \in 1 .. Len(records) : Usable(y, i) => Usable(y, i)'
  <2> SUFFICES ASSUME NEW y \in Xid, NEW i \in 1 .. Len(records), Usable(y, i)
               PROVE  records'[i].xmin = y \/ outcome'[records'[i].xmin] = "committed"
    BY DEF Usable
  <2>1. records[i].xmin \in Xid /\ records[i].xmin # n /\ records' = records
    BY <1>2, <1>12
  <2>2. outcome'[records[i].xmin] = outcome[records[i].xmin]
    BY <2>1, <1>6
  <2> QED BY <2>1, <2>2 DEF Usable
<1>15. Statements'
  BY <1>2, <1>14 DEF Inv, Statements, StatementOK
<1>16. MarksLocked' /\ InsertsLocked'
  <2>1. ASSUME NEW i \in 1 .. Len(records), records[i].xmax # NULL_XID, outcome'[records[i].xmax] = "active"
        PROVE  "X" \in heldRow[records[i].xmax][TableOid][i]
    <3>1. records[i].xmax \in Xid /\ records[i].xmax # n
      BY <2>1, <1>12
    <3>2. outcome[records[i].xmax] = "active"
      BY <2>1, <3>1, <1>6
    <3> QED BY <2>1, <3>2 DEF Inv, MarksLocked
  <2>2. ASSUME NEW i \in 1 .. Len(records), outcome'[records[i].xmin] = "active"
        PROVE  "IX" \in heldTable[records[i].xmin][TableOid]
    <3>1. records[i].xmin \in Xid /\ records[i].xmin # n
      BY <1>12
    <3>2. outcome[records[i].xmin] = "active"
      BY <2>2, <3>1, <1>6
    <3> QED BY <3>2 DEF Inv, InsertsLocked
  <2> QED BY <2>1, <2>2, <1>2 DEF MarksLocked, InsertsLocked, lockVars
<1>17. LocksUsable'
  <2> SUFFICES ASSUME NEW y \in Xid, NEW i \in Rid, heldRow[y][TableOid][i] # {}
               PROVE  i <= Len(records) /\ Usable(y, i)'
    BY <1>2 DEF LocksUsable, lockVars
  <2>1. i <= Len(records) /\ Usable(y, i)
    BY DEF Inv, LocksUsable
  <2>2. i \in 1 .. Len(records)
    BY <2>1, RowBounds DEF Rid, Inv, Typed
  <2> QED BY <2>1, <2>2, <1>14
<1> QED BY <1>2, <1>9, <1>10, <1>11, <1>13, <1>15, <1>16, <1>17, LockUnchanged DEF Inv

\* The end of a transaction, whichever way: what it keeps of the invariant
\* when versions keep xmin and cid.
Ends(xid) ==
  /\ outcome[xid] = "active" /\ stmt[xid] = NoStmt
  /\ TM!LM!ReleaseLocks(xid) /\ TM!Forget(xid)
  /\ \A y \in Xid \ {xid} : outcome'[y] = outcome[y]
  /\ outcome'[xid] \in {"committed", "aborted"}
  /\ outcome' \in [Xid -> Outcome]
  /\ records' \in Seq(Record) /\ Len(records') = Len(records)
  /\ \A i \in 1 .. Len(records) : /\ records'[i].xmin = records[i].xmin
                                  /\ records'[i].cid = records[i].cid
                                  /\ \/ records'[i].xmax = records[i].xmax
                                     \/ records'[i].xmax \in {NULL_XID, xid}
  /\ deleters' \in [Rid -> SUBSET Xid]
  /\ UNCHANGED <<stmt, seen>>

LEMMA EndStep ==
  ASSUME Inv, NEW xid \in Xid, Ends(xid), Versions'
  PROVE  Inv'
<1>1. /\ LMP!LockInv'
      /\ \A y \in Xid \ {xid} : heldTable'[y] = heldTable[y] /\ heldRow'[y] = heldRow[y]
      /\ \A i \in Rid : heldRow'[xid][TableOid][i] = {}
  BY ReleaseStep DEF Inv, Ends
<1>2. /\ xid2cid_' \in [Xid -> 0 .. MaxCid + 1]
      /\ \A x \in Xid : xid2cid_'[x] = IF x = xid THEN 0 ELSE xid2cid_[x]
      /\ xid2active_set_' \in [Xid -> SUBSET (0 .. MaxXid)]
      /\ \A x \in Xid \ {xid} : xid2active_set_'[x] = xid2active_set_[x]
      /\ next_xid_' = next_xid_
  <2>1. 0 \in 0 .. MaxCid + 1 /\ {0} \in SUBSET (0 .. MaxXid)
    BY XactBounds
  <2> QED BY <2>1 DEF Inv, Typed, Ends, TM!Forget, TM!NoCid, TM!NoSnapshot
<1>3. Typed'
  BY <1>2 DEF Inv, Typed, Ends
<1>4. Outcomes'
  <2>1. \A x \in Xid : xid2cid_'[x] # 0 <=> outcome'[x] = "active"
    BY <1>2 DEF Inv, Outcomes, Ends
  <2>2. \A x \in Xid : outcome'[x] = "none" <=> x >= next_xid_'
    BY <1>2 DEF Inv, Outcomes, Ends
  <2>3. \A x \in Xid : stmt'[x] # NoStmt => outcome'[x] = "active"
    BY DEF Inv, Outcomes, Ends
  <2> QED BY <2>1, <2>2, <2>3 DEF Outcomes
<1>5. Snapshots'
  <2> SUFFICES ASSUME NEW x \in Xid, outcome'[x] = "active"
               PROVE  /\ \A y \in xid2active_set_'[x] : y < x
                      /\ \A y \in Xid : y < x /\ y \notin xid2active_set_'[x] =>
                           outcome'[y] \in {"committed", "aborted"}
                      /\ seen'[x] = {y \in Xid : /\ y < x /\ y \notin xid2active_set_'[x]
                                                 /\ outcome'[y] = "committed"}
    BY DEF Snapshots
  <2>1. x # xid /\ outcome[x] = "active"
    BY DEF Ends
  <2>2. /\ \A y \in xid2active_set_[x] : y < x
        /\ \A y \in Xid : y < x /\ y \notin xid2active_set_[x] => outcome[y] \in {"committed", "aborted"}
        /\ seen[x] = {y \in Xid : y < x /\ y \notin xid2active_set_[x] /\ outcome[y] = "committed"}
    BY <2>1 DEF Inv, Snapshots
  <2>3. \A y \in Xid : y < x /\ y \notin xid2active_set_[x] => outcome'[y] = outcome[y]
    BY <2>2 DEF Ends
  <2>4. seen'[x] = seen[x] /\ xid2active_set_'[x] = xid2active_set_[x]
    BY <2>1, <1>2 DEF Ends
  <2>5. seen[x] = {y \in Xid : y < x /\ y \notin xid2active_set_[x] /\ outcome'[y] = "committed"}
    BY <2>2, <2>3
  <2> QED BY <2>2, <2>3, <2>4, <2>5
<1>6. \A y \in Xid \ {xid}, i \in 1 .. Len(records) : Usable(y, i) => Usable(y, i)'
  <2> SUFFICES ASSUME NEW y \in Xid \ {xid}, NEW i \in 1 .. Len(records), Usable(y, i)
               PROVE  Usable(y, i)'
    OBVIOUS
  <2>1. records'[i].xmin = records[i].xmin /\ records[i].xmin \in Xid
    BY Header DEF Inv, Ends
  <2> QED BY <2>1 DEF Usable, Ends
<1>7. Statements'
  <2> SUFFICES ASSUME NEW y \in Xid, stmt'[y] # NoStmt PROVE StatementOK(y)'
    BY DEF Statements
  <2>1. y # xid /\ stmt'[y] = stmt[y] /\ StatementOK(y)
    BY DEF Inv, Statements, Ends
  <2>2. /\ Len(records') = Len(records)
        /\ \A i \in 1 .. Len(records) : records'[i].xmin = records[i].xmin /\ records'[i].cid = records[i].cid
    BY DEF Ends
  <2> QED BY <2>1, <2>2, <1>6 DEF StatementOK
<1>8. MarksLocked'
  <2> SUFFICES ASSUME NEW i \in 1 .. Len(records), records'[i].xmax # NULL_XID,
                      outcome'[records'[i].xmax] = "active"
               PROVE  "X" \in heldRow'[records'[i].xmax][TableOid][i]
    BY DEF MarksLocked, Ends
  <2>1. records'[i].xmax = records[i].xmax /\ records[i].xmax # xid
    BY DEF Ends
  <2>2. records[i].xmax \in Xid
    BY <2>1, Header DEF Inv
  <2>3. "X" \in heldRow[records[i].xmax][TableOid][i]
    BY <2>1, <2>2 DEF Inv, MarksLocked, Ends
  <2> QED BY <2>1, <2>2, <2>3, <1>1
<1>9. InsertsLocked'
  <2> SUFFICES ASSUME NEW i \in 1 .. Len(records), outcome'[records'[i].xmin] = "active"
               PROVE  "IX" \in heldTable'[records'[i].xmin][TableOid]
    BY DEF InsertsLocked, Ends
  <2>1. records'[i].xmin = records[i].xmin /\ records[i].xmin # xid /\ records[i].xmin \in Xid
    BY Header DEF Inv, Ends
  <2>2. "IX" \in heldTable[records[i].xmin][TableOid]
    BY <2>1 DEF Inv, InsertsLocked, Ends
  <2> QED BY <2>1, <2>2, <1>1
<1>10. LocksUsable'
  <2> SUFFICES ASSUME NEW y \in Xid, NEW i \in Rid, heldRow'[y][TableOid][i] # {}
               PROVE  i <= Len(records') /\ Usable(y, i)'
    BY DEF LocksUsable
  <2>1. y # xid /\ heldRow[y][TableOid][i] # {}
    BY <1>1
  <2>2. i <= Len(records) /\ Usable(y, i)
    BY <2>1 DEF Inv, LocksUsable
  <2>3. i \in 1 .. Len(records)
    BY <2>2, RowBounds DEF Rid, Inv, Typed
  <2> QED BY <2>1, <2>2, <2>3, <1>6 DEF Ends
<1> QED BY <1>1, <1>3, <1>4, <1>5, <1>7, <1>8, <1>9, <1>10 DEF Inv

\* Commit turns the transaction's marks and versions into committed ones.
LEMMA CommitStep ==
  ASSUME Inv, NEW xid \in Xid, Commit(xid)
  PROVE  Inv'
<1>1. outcome[xid] = "active" /\ stmt[xid] = NoStmt
  BY ActiveSet DEF Inv, Commit, Idle
<1>2. /\ outcome' \in [Xid -> Outcome]
      /\ outcome'[xid] = "committed"
      /\ \A y \in Xid \ {xid} : outcome'[y] = outcome[y]
  BY DEF Inv, Typed, Commit, Outcome
<1>3. UNCHANGED <<records, stmt, seen, deleters, redeleted>>
  BY DEF Commit
<1>4. Ends(xid)
  BY <1>1, <1>2, <1>3 DEF Ends, Commit, TM!Commit, Inv, Typed
<1>5. Versions'
  <2>1. ASSUME NEW i \in 1 .. Len(records) PROVE VersionOK(i)'
    <3>1. /\ VersionOK(i) /\ records[i].xmin \in Xid
          /\ records[i].xmax \in Xid \/ records[i].xmax = NULL_XID
          /\ \A y \in deleters[i] : y \in Xid
      BY Header DEF Inv, Versions, Typed
    <3>2. outcome'[records[i].xmin] =
            IF records[i].xmin = xid THEN "committed" ELSE outcome[records[i].xmin]
      BY <3>1, <1>2
    <3>3. records[i].xmax # NULL_XID => outcome'[records[i].xmax] # "none"
      BY <3>1, <1>2 DEF VersionOK
    <3>4. \A y \in deleters[i] : outcome'[y] \in {"active", "committed"}
      BY <3>1, <1>2 DEF VersionOK
    <3> QED BY <3>1, <3>2, <3>3, <3>4, <1>1, <1>3 DEF VersionOK
  <2> QED BY <2>1, <1>3 DEF Inv, Versions
<1> QED BY <1>4, <1>5, EndStep

\* What Undo leaves of version i.
LEMMA UndoVersion ==
  ASSUME Inv, NEW xid \in Xid
  PROVE  /\ Undo(xid) \in Seq(Record) /\ Len(Undo(xid)) = Len(records)
         /\ \A i \in 1 .. Len(records) :
              /\ Undo(xid)[i].xmin = records[i].xmin /\ Undo(xid)[i].cid = records[i].cid
              /\ Undo(xid)[i].xmax = IF records[i].xmin = xid THEN xid
                                     ELSE IF records[i].xmax = xid THEN NULL_XID
                                     ELSE records[i].xmax
              /\ records[i].xmin # xid /\ records[i].xmax # xid => Undo(xid)[i] = records[i]
<1>0. NULL_XID \in Xid \cup {NULL_XID} /\ Len(records) \in Nat
  BY DEF Inv, Typed
<1>1. ASSUME NEW i \in 1 .. Len(records)
      PROVE  /\ Undo(xid)[i] \in Record
             /\ Undo(xid)[i].xmin = records[i].xmin /\ Undo(xid)[i].cid = records[i].cid
             /\ Undo(xid)[i].xmax = IF records[i].xmin = xid THEN xid
                                    ELSE IF records[i].xmax = xid THEN NULL_XID
                                    ELSE records[i].xmax
             /\ records[i].xmin # xid /\ records[i].xmax # xid => Undo(xid)[i] = records[i]
  <2>0. records[i] \in Record
    BY Header DEF Inv
  <2>1. CASE records[i].xmin = xid
    <3>1. Undo(xid)[i] = [records[i] EXCEPT !.xmax = xid]
      BY <2>1 DEF Undo, UndoInsert, DeleteRecord
    <3> QED BY <2>0, <2>1, <3>1 DEF Record
  <2>2. CASE records[i].xmin # xid /\ records[i].xmax = xid
    <3>1. Undo(xid)[i] = [records[i] EXCEPT !.xmax = NULL_XID]
      BY <2>2 DEF Undo, UndoDelete, UndoDeleteRecord
    <3> QED BY <2>0, <2>2, <3>1 DEF Record
  <2>3. CASE records[i].xmin # xid /\ records[i].xmax # xid
    <3>1. Undo(xid)[i] = records[i]
      BY <2>3 DEF Undo
    <3> QED BY <2>0, <2>3, <3>1 DEF Record
  <2> QED BY <2>1, <2>2, <2>3
<1>2. Undo(xid) \in [1 .. Len(records) -> Record]
  <2>1. Undo(xid) = [i \in 1 .. Len(records) |-> Undo(xid)[i]]
    BY DEF Undo
  <2> QED BY <2>1, <1>1
<1>3. Undo(xid) \in Seq(Record) /\ Len(Undo(xid)) = Len(records)
  BY <1>0, <1>2
<1> QED BY <1>1, <1>3

\* Rollback hides its transaction's versions for good and withdraws its marks.
LEMMA RollbackStep ==
  ASSUME Inv, NEW xid \in Xid, Rollback(xid)
  PROVE  Inv'
<1>1. outcome[xid] = "active" /\ stmt[xid] = NoStmt
  BY ActiveSet DEF Inv, Rollback, Idle
<1>2. /\ outcome' \in [Xid -> Outcome]
      /\ outcome'[xid] = "aborted"
      /\ \A y \in Xid \ {xid} : outcome'[y] = outcome[y]
  BY DEF Inv, Typed, Rollback, Outcome
<1>3. UNCHANGED <<stmt, seen, redeleted>>
  BY DEF Rollback
<1>4. /\ records' \in Seq(Record) /\ Len(records') = Len(records)
      /\ \A i \in 1 .. Len(records) :
           /\ records'[i].xmin = records[i].xmin /\ records'[i].cid = records[i].cid
           /\ records'[i].xmax = IF records[i].xmin = xid THEN xid
                                 ELSE IF records[i].xmax = xid THEN NULL_XID
                                 ELSE records[i].xmax
  BY UndoVersion DEF Rollback
<1>5. /\ deleters' \in [Rid -> SUBSET Xid]
      /\ \A i \in Rid : deleters'[i] = deleters[i] \ {xid}
  BY DEF Inv, Typed, Rollback
<1>6. Ends(xid)
  BY <1>1, <1>2, <1>3, <1>4, <1>5 DEF Ends, Rollback, TM!Rollback
<1>7. Versions'
  <2>1. ASSUME NEW i \in 1 .. Len(records) PROVE VersionOK(i)'
    <3>1. /\ VersionOK(i) /\ records[i].xmin \in Xid /\ i \in Rid
          /\ records[i].xmax \in Xid \/ records[i].xmax = NULL_XID
          /\ NULL_XID \notin Xid
      BY Header DEF Inv, Versions
    <3>2. \A y \in deleters[i] : y \in Xid
      BY <3>1 DEF Inv, Typed
    <3>3. \A y \in deleters'[i] : outcome'[y] \in {"active", "committed"}
      BY <3>1, <3>2, <1>2, <1>5 DEF VersionOK
    <3>4. CASE records[i].xmin = xid
      <4>1. outcome'[records'[i].xmin] = "aborted" /\ records'[i].xmax = xid /\ records'[i].xmin = xid
        BY <3>4, <1>2, <1>4
      <4>2. deleters'[i] = {}
        BY <3>1, <3>4, <1>1, <1>5 DEF VersionOK
      <4> QED BY <4>1, <4>2 DEF VersionOK
    <3>5. CASE records[i].xmin # xid
      <4>1. records'[i].xmin = records[i].xmin /\ outcome'[records'[i].xmin] = outcome[records[i].xmin]
        BY <3>1, <3>5, <1>2, <1>4
      <4>2. CASE records[i].xmax = xid
        <5>1. records'[i].xmax = NULL_XID
          BY <3>5, <4>2, <1>4
        <5>2. outcome[records[i].xmin] = "committed"
          BY <3>1, <3>5, <4>2 DEF VersionOK, Inv, Typed, Outcome
        <5>3. i \notin redeleted' => deleters'[i] = {}
          BY <3>1, <5>2, <4>2, <1>3, <1>5 DEF VersionOK
        <5> QED BY <3>3, <4>1, <5>1, <5>2, <5>3 DEF VersionOK
      <4>3. CASE records[i].xmax # xid
        <5>1. records'[i].xmax = records[i].xmax
          BY <3>5, <4>3, <1>4
        <5>2. records[i].xmax # NULL_XID => outcome'[records[i].xmax] # "none"
          BY <3>1, <4>3, <1>2 DEF VersionOK
        <5>3. deleters'[i] \subseteq deleters[i]
          BY <3>1, <1>5
        <5>4. outcome[records[i].xmin] # "aborted" /\ i \notin redeleted =>
                deleters'[i] = IF records[i].xmax = NULL_XID THEN {} ELSE {records[i].xmax}
          BY <3>1, <4>3, <1>5 DEF VersionOK
        <5> QED BY <3>1, <3>3, <4>1, <5>1, <5>2, <5>3, <5>4, <1>3 DEF VersionOK
      <4> QED BY <4>2, <4>3
    <3> QED BY <3>4, <3>5
  <2>2. \A i \in Rid : i > Len(records') => deleters'[i] = {}
    BY <1>4, <1>5 DEF Inv, Versions
  <2> QED BY <2>1, <2>2, <1>4 DEF Versions
<1> QED BY <1>6, <1>7, EndStep

----------------------------------------------------------------------------

\* The initial state: the versions one committed transaction left.
LEMMA InvInit == Init => Inv
<1> SUFFICES ASSUME Init PROVE Inv
  OBVIOUS
<1>0. 1 \in Xid /\ NULL_XID \notin Xid /\ InitRows \in Nat /\ InitRows <= MaxRows /\ 1 \in 1 .. MaxCid + 1
  BY XactBounds, RowBounds DEF Xid, NULL_XID
<1>1. LMP!LockInv
  <2>1. LMP!Init
    BY DEF Init, LM!Init, LMP!Init
  <2> QED BY <2>1, NoLockType, LMP!InitInv
<1> DEFINE v == [xmin |-> 1, xmax |-> NULL_XID, cid |-> 1]
<1>2. v \in Record /\ v.xmin = 1 /\ v.xmax = NULL_XID
  BY <1>0 DEF Record
<1>3. records = [i \in 1 .. InitRows |-> v]
  BY DEF Init
<1> HIDE DEF v
<1>4. /\ records \in Seq(Record) /\ Len(records) = InitRows
      /\ \A i \in 1 .. Len(records) : records[i] = v
  BY <1>0, <1>2, <1>3
<1>5. /\ outcome \in [Xid -> Outcome] /\ outcome[1] = "committed"
      /\ \A x \in Xid \ {1} : outcome[x] = "none"
  BY <1>0 DEF Init, Outcome
<1>6. Typed
  <2>1. next_xid_ \in 2 .. MaxXid + 1 /\ 0 \in 0 .. MaxCid + 1 /\ {0} \in SUBSET (0 .. MaxXid)
    BY XactBounds DEF Init
  <2>2. /\ xid2cid_ \in [Xid -> 0 .. MaxCid + 1]
        /\ xid2active_set_ \in [Xid -> SUBSET (0 .. MaxXid)]
    BY <2>1 DEF Init, TM!NoCid, TM!NoSnapshot
  <2>3. /\ stmt \in [Xid -> {NoStmt} \cup Stmt] /\ seen \in [Xid -> SUBSET Xid]
        /\ deleters \in [Rid -> SUBSET Xid]
    BY DEF Init
  <2> QED BY <2>1, <2>2, <2>3, <1>0, <1>4, <1>5 DEF Typed
<1>7. Outcomes
  <2>1. \A x \in Xid : outcome[x] = "none" <=> x >= next_xid_
    BY <1>5 DEF Init, Xid
  <2>2. \A x \in Xid : xid2cid_[x] = 0 /\ outcome[x] # "active" /\ stmt[x] = NoStmt
    BY <1>5 DEF Init, TM!NoCid
  <2> QED BY <2>1, <2>2 DEF Outcomes
<1>8. Snapshots
  BY <1>5 DEF Snapshots
<1>9. Versions
  <2>1. ASSUME NEW i \in 1 .. Len(records) PROVE VersionOK(i)
    <3>1. deleters[i] = {}
      BY <1>6, Header DEF Init
    <3> QED BY <3>1, <1>2, <1>4, <1>5 DEF VersionOK
  <2> QED BY <2>1 DEF Init, Versions
<1>10. Statements /\ MarksLocked /\ InsertsLocked
  BY <1>0, <1>2, <1>4, <1>5 DEF Statements, MarksLocked, InsertsLocked, Init
<1>11. LocksUsable
  BY OneTable DEF LocksUsable, Init, LM!Init, Xid
<1> QED BY <1>1, <1>6, <1>7, <1>8, <1>9, <1>10, <1>11 DEF Inv

\* A step that changes nothing.
LEMMA InvUnchanged ==
  ASSUME Inv, UNCHANGED vars
  PROVE  Inv'
<1>1. LMP!LockInv'
  BY LockUnchanged DEF Inv, vars, lockVars
<1>2. Typed' /\ Outcomes' /\ Snapshots'
  BY DEF Inv, vars, Typed, Outcomes, Snapshots
<1>3. Versions'
  BY DEF Inv, vars, Versions, VersionOK
<1>4. Statements'
  BY DEF Inv, vars, Statements, StatementOK, Usable
<1>5. MarksLocked' /\ InsertsLocked' /\ LocksUsable'
  BY DEF Inv, vars, MarksLocked, InsertsLocked, LocksUsable, Usable
<1> QED BY <1>1, <1>2, <1>3, <1>4, <1>5 DEF Inv

\* Every reachable state satisfies the invariant.
THEOREM MvccInvariant == Spec => []Inv
<1>1. Inv /\ [Next]_vars => Inv'
  <2> SUFFICES ASSUME Inv, [Next]_vars PROVE Inv'
    OBVIOUS
  <2>1. CASE UNCHANGED vars
    BY <2>1, InvUnchanged
  <2>2. CASE Next
    BY <2>2, BeginStep, StartStep, ScanNextStep, LockRowsStep, DeleteStep, UpdateStep, InsertStep,
       LockStatementStep, CommitStep, RollbackStep DEF Next
  <2> QED BY <2>1, <2>2
<1> QED BY <1>1, InvInit, PTL DEF Spec

\* The state keeps its shape, and no statement deletes or updates a version it
\* has made itself.
THEOREM MvccConsistent == Spec => []MvccInv
<1>1. Inv => MvccInv BY InvShape
<1> QED BY <1>1, MvccInvariant, PTL

\* Under READ COMMITTED and SERIALIZABLE a statement sees exactly the versions
\* those levels promise.
THEOREM ReadsCommitted == Spec => []ReadCommittedExact
<1>1. Inv => ReadCommittedExact BY InvExact
<1> QED BY <1>1, MvccInvariant, PTL

\* Under REPEATABLE READ a transaction sees exactly its snapshot and its own
\* changes, at any time.
THEOREM ReadsSnapshot == Spec => []SnapshotExact
<1>1. Inv => SnapshotExact BY InvExact
<1> QED BY <1>1, MvccInvariant, PTL

----------------------------------------------------------------------------
(* Writes.                                                                 *)

\* Who was granted the X lock on a row shares it with no other.
ExclusiveRows ==
  \A x, y \in Xid, i \in Rid : x # y /\ "X" \in heldRow[x][TableOid][i] =>
    heldRow[y][TableOid][i] = {} /\ heldTable[y][TableOid] \cap {"S", "X"} = {}

LEMMA RowsExclusive == Inv => ExclusiveRows
<1> SUFFICES ASSUME Inv, NEW x \in Xid, NEW y \in Xid, NEW i \in Rid,
                    x # y, "X" \in heldRow[x][TableOid][i]
             PROVE  heldRow[y][TableOid][i] = {} /\ heldTable[y][TableOid] \cap {"S", "X"} = {}
  BY DEF ExclusiveRows
<1> USE OneTable
<1>1. /\ \A a \in heldTable[x][TableOid], b \in heldTable[y][TableOid] : LMP!Compatible(a, b)
      /\ \A a \in heldRow[x][TableOid][i], b \in heldRow[y][TableOid][i] : LMP!Compatible(a, b)
      /\ \A a \in heldRow[x][TableOid][i] : LMP!Intention(a) \in heldTable[x][TableOid]
  BY DEF Inv, LMP!LockInv, LMP!GrantedCompatible, LMP!RowHasIntention, Xid
<1>2. "IX" \in heldTable[x][TableOid]
  BY <1>1 DEF LMP!Intention
<1> QED BY <1>1, <1>2 DEF LMP!Compatible, LMP!CompatibleWith

\* Who was granted the IX lock on the table shares it with no S or X lock.
LEMMA IntentionExcludes ==
  ASSUME Inv, NEW x \in Xid, NEW y \in Xid, x # y, "IX" \in heldTable[x][TableOid]
  PROVE  heldTable[y][TableOid] \cap {"S", "X"} = {}
<1> USE OneTable
<1>1. \A a \in heldTable[x][TableOid], b \in heldTable[y][TableOid] : LMP!Compatible(a, b)
  BY DEF Inv, LMP!LockInv, LMP!GrantedCompatible, Xid
<1> QED BY <1>1 DEF LMP!Compatible, LMP!CompatibleWith

\* Version i is written by x alone: what WritesAreExclusive asks of a change.
WrittenBy(x, i) ==
  /\ \/ "X" \in heldRow'[x][TableOid][i] \cup heldRow[x][TableOid][i]
     \/ records[i].xmin = x
  /\ \A y \in Active \ {x} :
       /\ heldRow[y][TableOid][i] = {}
       /\ heldTable[y][TableOid] \cap {"S", "X"} = {}
       /\ records[i].xmax # y

\* Whose X lock is granted before or by the step writes alone.
LEMMA LockedWrite ==
  ASSUME Inv, ExclusiveRows, ExclusiveRows', NEW x \in Active, NEW i \in 1 .. Len(records),
         "X" \in heldRow[x][TableOid][i] \/ (Grows(x) /\ "X" \in heldRow'[x][TableOid][i])
  PROVE  WrittenBy(x, i)
<1>1. x \in Xid /\ i \in Rid /\ Active = {y \in Xid : outcome[y] = "active"}
  BY ActiveSet, Header DEF Inv
<1>2. ASSUME NEW y \in Active \ {x}
      PROVE  heldRow[y][TableOid][i] = {} /\ heldTable[y][TableOid] \cap {"S", "X"} = {}
  <2>0. y \in Xid \ {x}
    BY <1>1
  <2>1. CASE "X" \in heldRow[x][TableOid][i]
    BY <1>1, <2>0, <2>1 DEF ExclusiveRows
  <2>2. CASE Grows(x) /\ "X" \in heldRow'[x][TableOid][i]
    <3>1. heldRow'[y][TableOid][i] = {} /\ heldTable'[y][TableOid] \cap {"S", "X"} = {}
      BY <1>1, <2>0, <2>2 DEF ExclusiveRows
    <3>2. heldRow'[y][TableOid][i] = heldRow[y][TableOid][i] /\ heldTable'[y][TableOid] = heldTable[y][TableOid]
      BY <1>1, <2>0, <2>2 DEF Grows
    <3> QED BY <3>1, <3>2
  <2> QED BY <2>1, <2>2
<1>3. ASSUME NEW y \in Active \ {x} PROVE records[i].xmax # y
  <2>1. y \in Xid /\ outcome[y] = "active" /\ y # NULL_XID
    BY <1>1, Header DEF Inv
  <2>2. records[i].xmax = y => "X" \in heldRow[y][TableOid][i]
    BY <2>1 DEF Inv, MarksLocked
  <2> QED BY <2>2, <1>2
<1> QED BY <1>2, <1>3 DEF WrittenBy

\* What a step of a modifying executor or a rollback changes, it writes alone.
LEMMA WriteExclusive ==
  ASSUME Inv, Next, ExclusiveRows, ExclusiveRows',
         NEW i \in 1 .. Len(records), records'[i] # records[i]
  PROVE  \E x \in Active : WrittenBy(x, i)
<1>a. Active = {y \in Xid : outcome[y] = "active"} /\ i \in Rid
  BY ActiveSet, Header DEF Inv
<1>1. ASSUME NEW x \in Xid, Delete(x) \/ Update(x) PROVE \E y \in Active : WrittenBy(y, i)
  <2> DEFINE rid == stmt[x].record
  <2>1. stmt[x] # NoStmt /\ stmt[x].at = "apply" /\ LM!LockRow(x, "X", TableOid, rid)
    BY <1>1 DEF Delete, Update
  <2>2. x \in Active
    BY <1>a, <2>1, Running
  <2>3. /\ Grows(x) /\ rid \in 1 .. Len(records)
        /\ LM!LockRowGranted(x, "X", TableOid, rid) => "X" \in heldRow'[x][TableOid][rid]
    BY <2>1, WriteLock
  <2>4. LM!LockRowGranted(x, "X", TableOid, rid)
    BY <1>1 DEF Delete, Update
  <2>5. records \in Seq(Record) /\ Len(records) \in Nat
    BY DEF Inv, Typed
  <2>6. \A j \in 1 .. Len(records) : j # rid => Deleted(rid, x)[j] = records[j]
    BY <2>3, <2>5 DEF Deleted
  <2>7. Deleted(rid, x) \in Seq(Record) /\ Len(Deleted(rid, x)) = Len(records)
    <3> DEFINE v == DeleteRecord(records[rid], x)
    <3>1. v \in Record
      BY <2>3, Header DEF Inv, DeleteRecord, Record
    <3>2. Deleted(rid, x) = [records EXCEPT ![rid] = v]
      BY <2>3, <2>5 DEF Deleted
    <3> HIDE DEF v
    <3> QED BY <2>3, <2>5, <3>1, <3>2
  <2>8. \/ records' = Deleted(rid, x)
        \/ \E cid \in 1 .. MaxCid : records' = Inserted(Deleted(rid, x), x, cid)
    <3>1. stmt[x].cid \in 1 .. MaxCid
      BY <2>1, Running DEF Stmt
    <3> QED BY <1>1, <2>4, <3>1 DEF Delete, Update
  <2>9. records'[i] = Deleted(rid, x)[i]
    BY <2>7, <2>8, AppendVersion
  <2>10. i = rid
    BY <2>6, <2>9
  <2>11. WrittenBy(x, i)
    BY <2>2, <2>3, <2>4, <2>10, LockedWrite
  <2> QED BY <2>2, <2>11
<1>2. ASSUME NEW x \in Xid, Rollback(x) PROVE \E y \in Active : WrittenBy(y, i)
  <2>1. x \in Active /\ outcome[x] = "active"
    BY <1>a, <1>2 DEF Rollback, Idle
  <2>2. records[i].xmin = x \/ records[i].xmax = x
    BY <1>2, UndoVersion DEF Rollback
  <2>3. CASE records[i].xmin = x
    <3>1. ASSUME NEW y \in Active \ {x} PROVE heldRow[y][TableOid][i] = {}
      BY <1>a, <2>1, <2>3, <3>1 DEF Inv, LocksUsable, Usable
    <3>2. ASSUME NEW y \in Active \ {x} PROVE heldTable[y][TableOid] \cap {"S", "X"} = {}
      <4>1. "IX" \in heldTable[x][TableOid]
        BY <2>1, <2>3 DEF Inv, InsertsLocked
      <4> QED BY <4>1, <1>a, IntentionExcludes
    <3>3. ASSUME NEW y \in Active \ {x} PROVE records[i].xmax # y
      <4>1. records[i].xmax \in {NULL_XID, x}
        BY <2>1, <2>3 DEF Inv, Versions, VersionOK
      <4>2. y # NULL_XID
        BY <1>a, Header DEF Inv
      <4> QED BY <4>1, <4>2
    <3> QED BY <2>1, <2>3, <3>1, <3>2, <3>3 DEF WrittenBy
  <2>4. CASE records[i].xmax = x
    <3>1. x # NULL_XID
      BY Header DEF Inv
    <3>2. "X" \in heldRow[x][TableOid][i]
      BY <2>1, <2>4, <3>1 DEF Inv, MarksLocked
    <3> QED BY <2>1, <3>2, LockedWrite
  <2> QED BY <2>2, <2>3, <2>4
<1>3. ASSUME NEW x \in Xid, Insert(x) PROVE FALSE
  <2>1. stmt[x].cid \in 1 .. MaxCid
    BY <1>3, Running DEF Insert, Stmt
  <2>2. records' = records \/ records' = Inserted(records, x, stmt[x].cid)
    BY <1>3 DEF Insert
  <2> QED BY <2>1, <2>2, AppendVersion DEF Inv, Typed
<1>4. ASSUME NEW x \in Xid,
             \/ Start(x) \/ ScanNext(x) \/ LockRows(x) \/ LockNewRow(x)
             \/ LockStatement(x) \/ Commit(x)
      PROVE  FALSE
  BY <1>4 DEF Start, ScanNext, LockRows, LockNewRow, LockStatement, Commit
<1>5. CASE Begin
  BY <1>5 DEF Begin
<1> QED BY <1>1, <1>2, <1>3, <1>4, <1>5 DEF Next

\* A version changes only at the hands of its inserter or of the one holder of
\* the X lock on its row, rollbacks included.
THEOREM WritesExclusive == Spec => WritesAreExclusive
<1> DEFINE A == \A i \in 1 .. Len(records) :
                  records'[i] # records[i] =>
                    \E x \in Active :
                      /\ \/ "X" \in heldRow'[x][TableOid][i] \cup heldRow[x][TableOid][i]
                         \/ records[i].xmin = x
                      /\ \A y \in Active \ {x} :
                           /\ heldRow[y][TableOid][i] = {}
                           /\ heldTable[y][TableOid] \cap {"S", "X"} = {}
                           /\ records[i].xmax # y
<1>1. Inv /\ ExclusiveRows /\ ExclusiveRows' /\ [Next]_vars => [A]_vars
  <2> SUFFICES ASSUME Inv, ExclusiveRows, ExclusiveRows', Next PROVE A
    OBVIOUS
  <2> QED BY WriteExclusive DEF WrittenBy
<1> QED BY <1>1, MvccInvariant, RowsExclusive, PTL DEF Spec, WritesAreExclusive
============================================================================
