------------------------- MODULE TransactionManager -------------------------
(***************************************************************************)
(* The transaction table of HuaDB (transaction/transaction_manager.cpp)    *)
(* composed with the lock manager it owns a reference to.                  *)
(*                                                                         *)
(* xid2cid_ is both the command counter of a transaction and, by its keys, *)
(* the set of active transactions; xid2active_set_ is the snapshot taken   *)
(* by Begin.  A transaction that is not in a map has NoCid, respectively   *)
(* NoSnapshot, there.  The executors and the LOCK statement call the lock  *)
(* manager only on behalf of an active transaction.                        *)
(***************************************************************************)
EXTENDS Integers

CONSTANTS
  MaxXid,     \* bound on the transactions of a run (xid_t is 32 bits wide)
  MaxCid,     \* bound on the commands of one transaction
  Table,
  Rid,
  NoLock

FIRST_XID == 1
FIRST_CID == 1
NoCid == 0
NoSnapshot == {0}    \* no snapshot contains xid 0, which is DDL_XID

Xid == FIRST_XID .. MaxXid

ASSUME BoundsAssumption == MaxXid \in Nat /\ MaxCid \in Nat

VARIABLES
  next_xid_,
  xid2cid_,
  xid2active_set_,
  tableLocks, rowLocks, heldTable, heldRow    \* the lock manager's state

lockVars == <<tableLocks, rowLocks, heldTable, heldRow>>
xactVars == <<next_xid_, xid2cid_, xid2active_set_>>
vars == <<next_xid_, xid2cid_, xid2active_set_, tableLocks, rowLocks, heldTable, heldRow>>

LM == INSTANCE LockManager

----------------------------------------------------------------------------

\* GetActiveTransactions: the keys of xid2cid_.
GetActiveTransactions == {x \in Xid : xid2cid_[x] # NoCid}

GetSnapshot(xid) == xid2active_set_[xid]

Init ==
  /\ next_xid_ = FIRST_XID
  /\ xid2cid_ = [x \in Xid |-> NoCid]
  /\ xid2active_set_ = [x \in Xid |-> NoSnapshot]
  /\ LM!Init

\* Mutant of Begin: the snapshot is left empty.
BeginEmptySnapshot ==
  /\ next_xid_ <= MaxXid
  /\ next_xid_' = next_xid_ + 1
  /\ xid2active_set_' = [xid2active_set_ EXCEPT ![next_xid_] = {}]
  /\ xid2cid_' = [xid2cid_ EXCEPT ![next_xid_] = FIRST_CID]
  /\ UNCHANGED lockVars

Begin ==
  /\ next_xid_ <= MaxXid
  /\ next_xid_' = next_xid_ + 1
  /\ xid2active_set_' = [xid2active_set_ EXCEPT ![next_xid_] = GetActiveTransactions]
  /\ xid2cid_' = [xid2cid_ EXCEPT ![next_xid_] = FIRST_CID]
  /\ UNCHANGED lockVars

\* Mutant of GetCidAndIncrement: locks last for one statement only.
GetCidReleasesLocks(xid) ==
  /\ xid \in GetActiveTransactions
  /\ xid2cid_[xid] <= MaxCid
  /\ xid2cid_' = [xid2cid_ EXCEPT ![xid] = @ + 1]
  /\ LM!ReleaseLocks(xid)
  /\ UNCHANGED <<next_xid_, xid2active_set_>>

\* Returns xid2cid_[xid] and increments it; throws for an unknown xid.
GetCidAndIncrement(xid) ==
  /\ xid \in GetActiveTransactions
  /\ xid2cid_[xid] <= MaxCid
  /\ xid2cid_' = [xid2cid_ EXCEPT ![xid] = @ + 1]
  /\ UNCHANGED <<next_xid_, xid2active_set_, lockVars>>

\* Mutant of Forget: the snapshot is not erased.
ForgetKeepsSnapshot(xid) ==
  /\ xid2cid_' = [xid2cid_ EXCEPT ![xid] = NoCid]
  /\ UNCHANGED <<next_xid_, xid2active_set_>>

\* Erasing the transaction from both maps, shared by Commit and Rollback.
Forget(xid) ==
  /\ xid2cid_' = [xid2cid_ EXCEPT ![xid] = NoCid]
  /\ xid2active_set_' = [xid2active_set_ EXCEPT ![xid] = NoSnapshot]
  /\ UNCHANGED next_xid_

Finishable(xid) == xid \in GetActiveTransactions /\ xid2active_set_[xid] # NoSnapshot

\* Mutant of Commit: the locks are not released.
CommitKeepsLocks(xid) ==
  /\ Finishable(xid)
  /\ Forget(xid)
  /\ UNCHANGED lockVars

\* Mutant of Commit: only the table locks are released.
CommitKeepsRowLocks(xid) ==
  /\ Finishable(xid)
  /\ tableLocks' = [tableLocks EXCEPT ![xid] = [t \in Table |-> NoLock]]
  /\ heldTable' = [heldTable EXCEPT ![xid] = [t \in Table |-> {}]]
  /\ Forget(xid)
  /\ UNCHANGED <<rowLocks, heldRow>>

Commit(xid) ==
  /\ Finishable(xid)
  /\ LM!ReleaseLocks(xid)
  /\ Forget(xid)

Rollback(xid) ==
  /\ Finishable(xid)
  /\ LM!ReleaseLocks(xid)
  /\ Forget(xid)

\* Mutant of SetNextXid: the comparison is missing.
SetNextXidAlways(next_xid) ==
  /\ next_xid_' = next_xid
  /\ UNCHANGED <<xid2cid_, xid2active_set_, lockVars>>

\* SetNextXid never moves the counter back (called by recovery).
SetNextXid(next_xid) ==
  /\ next_xid_' = IF next_xid > next_xid_ THEN next_xid ELSE next_xid_
  /\ UNCHANGED <<xid2cid_, xid2active_set_, lockVars>>

LockTable(xid, lock_type, oid) ==
  /\ xid \in GetActiveTransactions
  /\ LM!LockTable(xid, lock_type, oid)
  /\ UNCHANGED xactVars

LockRow(xid, lock_type, oid, rid) ==
  /\ xid \in GetActiveTransactions
  /\ LM!LockRow(xid, lock_type, oid, rid)
  /\ UNCHANGED xactVars

Next ==
  \/ Begin
  \/ \E xid \in Xid :
       \/ GetCidAndIncrement(xid)
       \/ Commit(xid)
       \/ Rollback(xid)
       \/ \E lock_type \in LM!TableRequest, oid \in Table : LockTable(xid, lock_type, oid)
       \/ \E lock_type \in LM!RowRequest, oid \in Table, rid \in Rid :
            LockRow(xid, lock_type, oid, rid)
  \/ GetActiveTransactions = {} /\ \E n \in Xid : SetNextXid(n)   \* recovery only

Spec == Init /\ [][Next]_vars

----------------------------------------------------------------------------

\* Both maps have the same keys, all of them below next_xid_.
TypeOK ==
  /\ next_xid_ \in FIRST_XID .. MaxXid + 1
  /\ xid2cid_ \in [Xid -> NoCid .. MaxCid + 1]
  /\ xid2active_set_ \in [Xid -> (SUBSET Xid) \cup {NoSnapshot}]
  /\ \A x \in Xid : xid2cid_[x] = NoCid <=> xid2active_set_[x] = NoSnapshot
  /\ \A x \in GetActiveTransactions : x < next_xid_

\* A snapshot separates the transactions that are still running: of two
\* active transactions the one that began later has the other in its
\* snapshot, and never the reverse.  CanGet relies on it to tell a concurrent
\* transaction from one that committed before.
SnapshotsSeparate ==
  \A x, y \in GetActiveTransactions :
    x \in xid2active_set_[y] <=> x < y

\* Locks live exactly as long as their transaction: an entry of lock_map
\* belongs to an active transaction, so a finished transaction can never make
\* another one's request fail.
LocksOfActiveOnly ==
  \A x \in Xid \ GetActiveTransactions, t \in Table :
    tableLocks[x][t] = NoLock /\ \A r \in Rid : rowLocks[x][t][r] = NoLock

\* Two-phase locking: a transaction gives up a granted lock only by ending.
LockUntilEnd ==
  [][\A x \in Xid, t \in Table :
       x \in GetActiveTransactions' =>
         /\ heldTable[x][t] \subseteq heldTable'[x][t]
         /\ \A r \in Rid : heldRow[x][t][r] \subseteq heldRow'[x][t][r]]_vars

\* Transaction identifiers are not reused: the counter never falls, whatever
\* SetNextXid is called with, and who becomes active was not below it.
XidNotReused ==
  [][/\ next_xid_' >= next_xid_
     /\ \A x \in Xid : x \in GetActiveTransactions' \ GetActiveTransactions =>
          next_xid_ <= x /\ x < next_xid_']_vars

\* Seen through the lock variables, the composition only takes steps of the
\* lock manager, so the lock manager's theorems hold of it.
LocksRefine == LM!Spec
============================================================================
