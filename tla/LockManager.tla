---------------------------- MODULE LockManager ----------------------------
(***************************************************************************)
(* The multi-granularity lock table of HuaDB                               *)
(* (transaction/lock_manager.h, transaction/lock_manager.cpp).             *)
(*                                                                         *)
(* lock_map maps each transaction to a vector of Lock entries.  An entry   *)
(* is pushed only when the transaction has none for that table (or row),   *)
(* so the vector is a partial function from resources to lock types; it is *)
(* split here into its TABLE entries and its ROW entries.                  *)
(*                                                                         *)
(* A call never waits: it answers true or false, and it records (or        *)
(* upgrades) the caller's entry before it compares it with the entries of  *)
(* the other transactions, so a refused request stays in lock_map until    *)
(* ReleaseLocks.  What was really granted - the requests answered true -   *)
(* is kept in the history variables heldTable and heldRow, which no guard  *)
(* reads.                                                                  *)
(***************************************************************************)

CONSTANTS
  Xid,      \* transaction identifiers
  Table,    \* table oids
  Rid,      \* record identifiers: page id and slot id
  NoLock    \* absence of an entry

LockType == {"IS", "IX", "S", "SIX", "X"}

ASSUME NoLockAssumption == NoLock \notin LockType

\* The types the callers pass: sequential scan IS, insert IX, and S or X from
\* the LOCK statement; rows are locked S (FOR SHARE) or X only.
TableRequest == {"IS", "IX", "S", "X"}
RowRequest == {"S", "X"}

VARIABLES
  tableLocks,   \* the TABLE entries of lock_map
  rowLocks,     \* the ROW entries of lock_map
  heldTable,    \* history: table lock types granted to each transaction
  heldRow       \* history: row lock types granted to each transaction

vars == <<tableLocks, rowLocks, heldTable, heldRow>>

----------------------------------------------------------------------------

\* LockManager::Compatible, as the set of types each type tolerates.
CompatibleWith ==
  [S   |-> {"S", "IS"},
   X   |-> {},
   IS  |-> {"IS", "IX", "S", "SIX"},
   IX  |-> {"IS", "IX"},
   SIX |-> {"IS"}]

Compatible(type_a, type_b) == type_b \in CompatibleWith[type_a]

\* Mutant of Upgrade: the new type overwrites the old one.
UpgradeOverwrites(self, other) == other

\* LockManager::Upgrade.  Upgrade("S", "SIX") is "S" in the code as well.
Upgrade(self, other) ==
  CASE self = "S"   -> (CASE other = "X" -> "X" [] other = "IX" -> "SIX" [] OTHER -> "S")
    [] self = "X"   -> "X"
    [] self = "IS"  -> other
    [] self = "IX"  -> (CASE other = "S" -> "SIX" [] other \in {"X", "SIX"} -> other [] OTHER -> "IX")
    [] self = "SIX" -> (IF other = "X" THEN "X" ELSE "SIX")

\* Mutant of Recorded: the pushed entry gets the intention type.
RecordedAsIntention(entry, lock_type) ==
  IF entry = NoLock THEN (IF lock_type = "S" THEN "IS" ELSE "IX") ELSE Upgrade(entry, lock_type)

\* The entry a request leaves behind: a pushed one, or the old one upgraded.
Recorded(entry, lock_type) ==
  IF entry = NoLock THEN lock_type ELSE Upgrade(entry, lock_type)

\* Mutant of Intention: every row lock is announced as a shared one.
IntentionShared(lock_type) == "IS"

\* The intention lock a row lock puts on its table.
Intention(lock_type) == IF lock_type = "S" THEN "IS" ELSE "IX"

\* The comparison loop: every other transaction's entry tolerates lock_type.
TableCompatible(xid, lock_type, oid) ==
  \A other \in Xid \ {xid} :
    tableLocks[other][oid] # NoLock => Compatible(tableLocks[other][oid], lock_type)

RowCompatible(xid, lock_type, oid, rid) ==
  \A other \in Xid \ {xid} :
    rowLocks[other][oid][rid] # NoLock => Compatible(rowLocks[other][oid][rid], lock_type)

----------------------------------------------------------------------------

Init ==
  /\ tableLocks = [x \in Xid |-> [t \in Table |-> NoLock]]
  /\ rowLocks = [x \in Xid |-> [t \in Table |-> [r \in Rid |-> NoLock]]]
  /\ heldTable = [x \in Xid |-> [t \in Table |-> {}]]
  /\ heldRow = [x \in Xid |-> [t \in Table |-> [r \in Rid |-> {}]]]

\* Mutant of LockTableGranted: an upgrade of an existing entry is not compared.
GrantedIfPresent(xid, lock_type, oid) ==
  tableLocks[xid][oid] # NoLock \/ TableCompatible(xid, lock_type, oid)

\* What LockTable answers.
LockTableGranted(xid, lock_type, oid) ==
  TableCompatible(xid, Recorded(tableLocks[xid][oid], lock_type), oid)

LockTable(xid, lock_type, oid) ==
  /\ tableLocks' = [tableLocks EXCEPT ![xid][oid] = Recorded(@, lock_type)]
  /\ heldTable' = IF LockTableGranted(xid, lock_type, oid)
                    THEN [heldTable EXCEPT ![xid][oid] = @ \cup {lock_type}]
                    ELSE heldTable
  /\ UNCHANGED <<rowLocks, heldRow>>

\* What LockRow answers: both its table entry and its row entry must be
\* tolerated by the other transactions' entries.
LockRowGranted(xid, lock_type, oid, rid) ==
  /\ TableCompatible(xid, Recorded(tableLocks[xid][oid], Intention(lock_type)), oid)
  /\ RowCompatible(xid, Recorded(rowLocks[xid][oid][rid], lock_type), oid, rid)

LockRow(xid, lock_type, oid, rid) ==
  /\ tableLocks' = [tableLocks EXCEPT ![xid][oid] = Recorded(@, Intention(lock_type))]
  /\ rowLocks' = [rowLocks EXCEPT ![xid][oid][rid] = Recorded(@, lock_type)]
  /\ IF LockRowGranted(xid, lock_type, oid, rid)
       THEN /\ heldTable' = [heldTable EXCEPT ![xid][oid] = @ \cup {Intention(lock_type)}]
            /\ heldRow' = [heldRow EXCEPT ![xid][oid][rid] = @ \cup {lock_type}]
       ELSE UNCHANGED <<heldTable, heldRow>>

ReleaseLocks(xid) ==
  /\ tableLocks' = [tableLocks EXCEPT ![xid] = [t \in Table |-> NoLock]]
  /\ rowLocks' = [rowLocks EXCEPT ![xid] = [t \in Table |-> [r \in Rid |-> NoLock]]]
  /\ heldTable' = [heldTable EXCEPT ![xid] = [t \in Table |-> {}]]
  /\ heldRow' = [heldRow EXCEPT ![xid] = [t \in Table |-> [r \in Rid |-> {}]]]

Next ==
  \E xid \in Xid :
    \/ \E lock_type \in TableRequest, oid \in Table : LockTable(xid, lock_type, oid)
    \/ \E lock_type \in RowRequest, oid \in Table, rid \in Rid :
         LockRow(xid, lock_type, oid, rid)
    \/ ReleaseLocks(xid)

Spec == Init /\ [][Next]_vars

----------------------------------------------------------------------------

\* The lock table and its history keep their shape: at most one entry per
\* transaction and resource, rows never carry an intention lock.
TypeOK ==
  /\ tableLocks \in [Xid -> [Table -> LockType \cup {NoLock}]]
  /\ rowLocks \in [Xid -> [Table -> [Rid -> RowRequest \cup {NoLock}]]]
  /\ heldTable \in [Xid -> [Table -> SUBSET TableRequest]]
  /\ heldRow \in [Xid -> [Table -> [Rid -> SUBSET RowRequest]]]

\* Two locks LockTable or LockRow granted to different transactions on the
\* same table or row, in whatever order and after whatever refusals and
\* upgrades, are compatible.
GrantedCompatible ==
  \A x, y \in Xid, t \in Table :
    x # y =>
      /\ \A a \in heldTable[x][t], b \in heldTable[y][t] : Compatible(a, b)
      /\ \A r \in Rid : \A a \in heldRow[x][t][r], b \in heldRow[y][t][r] : Compatible(a, b)

\* A granted table lock protects the rows below it: while one transaction
\* holds a row of a table, no other transaction was granted a table lock that
\* conflicts with using the row (the intention locks LockRow adds see to it).
TableLockCoversRows ==
  \A x, y \in Xid, t \in Table, r \in Rid :
    x # y =>
      /\ "X" \in heldRow[x][t][r] => heldTable[y][t] \cap {"S", "X"} = {}
      /\ "S" \in heldRow[x][t][r] => "X" \notin heldTable[y][t]

\* An entry stands for a granted type when it excludes all that the type does.
Covers(entry, type) ==
  /\ entry # NoLock
  /\ CompatibleWith[entry] \subseteq CompatibleWith[type]

\* lock_map never forgets or weakens a granted lock before ReleaseLocks: the
\* recorded entry excludes everything each granted type excludes, although
\* Upgrade overwrites the entry on every later call.
GrantedStaysRecorded ==
  \A x \in Xid, t \in Table :
    /\ \A a \in heldTable[x][t] : Covers(tableLocks[x][t], a)
    /\ \A r \in Rid : \A a \in heldRow[x][t][r] : Covers(rowLocks[x][t][r], a)

\* The intention lock of a granted row lock was granted with it.
RowHasIntention ==
  \A x \in Xid, t \in Table, r \in Rid :
    \A a \in heldRow[x][t][r] : Intention(a) \in heldTable[x][t]

\* The inductive invariant behind GrantedCompatible and TableLockCoversRows.
LockInv == TypeOK /\ GrantedStaysRecorded /\ GrantedCompatible /\ RowHasIntention

============================================================================
