---------------------- MODULE TransactionManagerProofs ----------------------
(***************************************************************************)
(* Proofs about TransactionManager for any number of transactions and      *)
(* commands, any tables and rows.                                          *)
(*                                                                         *)
(* The argument: a snapshot is the set of active transactions at Begin, so *)
(* it holds only smaller identifiers (SnapshotBelow), and next_xid_ is     *)
(* above all active ones (TypeOK).  Hence a transaction is in the          *)
(* snapshots of exactly the active transactions that began after it.       *)
(***************************************************************************)
EXTENDS TransactionManager, TLAPS

\* Snapshots hold older transactions only.
SnapshotBelow ==
  \A y \in GetActiveTransactions : \A x \in xid2active_set_[y] : x < y

\* The inductive invariant about the transaction table.
XactInv == TypeOK /\ SnapshotBelow /\ SnapshotsSeparate

----------------------------------------------------------------------------

\* Init has no transactions.
LEMMA XactInit == Init => XactInv
<1> SUFFICES ASSUME Init PROVE XactInv
  OBVIOUS
<1> USE BoundsAssumption
<1>1. GetActiveTransactions = {}
  BY DEF Init, GetActiveTransactions
<1>2. TypeOK
  BY <1>1 DEF Init, TypeOK, Xid, FIRST_XID, NoCid, NoSnapshot
<1> QED BY <1>1, <1>2 DEF XactInv, SnapshotBelow, SnapshotsSeparate

\* Begin adds next_xid_, above all others, with the others as its snapshot.
LEMMA XactBegin ==
  ASSUME XactInv, Begin
  PROVE  XactInv'
<1> USE BoundsAssumption DEF FIRST_XID, FIRST_CID, NoCid
<1> DEFINE n == next_xid_
<1>1. /\ n \in Xid
      /\ n \notin GetActiveTransactions
      /\ n + 1 \in FIRST_XID .. MaxXid + 1
  BY DEF XactInv, TypeOK, Begin, Xid
<1>2. /\ xid2cid_' \in [Xid -> NoCid .. MaxCid + 1]
      /\ \A x \in Xid : xid2cid_'[x] = IF x = n THEN 1 ELSE xid2cid_[x]
  BY <1>1 DEF XactInv, TypeOK, Begin
<1>3. GetActiveTransactions \in SUBSET Xid /\ GetActiveTransactions # NoSnapshot
  BY DEF GetActiveTransactions, NoSnapshot, Xid
<1>4. /\ xid2active_set_' \in [Xid -> (SUBSET Xid) \cup {NoSnapshot}]
      /\ \A x \in Xid : xid2active_set_'[x] = IF x = n THEN GetActiveTransactions
                                                       ELSE xid2active_set_[x]
  BY <1>1, <1>3 DEF XactInv, TypeOK, Begin
<1>5. GetActiveTransactions' = GetActiveTransactions \cup {n}
  BY <1>1, <1>2 DEF GetActiveTransactions
<1>6. \A x \in GetActiveTransactions : x \in Int /\ x < n
  BY DEF XactInv, TypeOK, GetActiveTransactions, Xid
<1>7. TypeOK'
  <2>1. \A x \in Xid : xid2cid_'[x] = NoCid <=> xid2active_set_'[x] = NoSnapshot
    BY <1>2, <1>3, <1>4 DEF XactInv, TypeOK
  <2>2. \A x \in GetActiveTransactions' : x < next_xid_'
    BY <1>1, <1>5, <1>6 DEF Begin, Xid
  <2> QED BY <1>1, <1>2, <1>4, <2>1, <2>2 DEF TypeOK, Begin
<1>8. SnapshotBelow'
  BY <1>1, <1>3, <1>4, <1>5, <1>6 DEF XactInv, SnapshotBelow
<1>9. SnapshotsSeparate'
  <2> SUFFICES ASSUME NEW x \in GetActiveTransactions', NEW y \in GetActiveTransactions'
               PROVE  x \in xid2active_set_'[y] <=> x < y
    BY DEF SnapshotsSeparate
  <2>1. x \in Xid /\ y \in Xid
    BY <1>1, <1>3, <1>5
  <2>2. CASE y = n
    BY <2>1, <2>2, <1>1, <1>4, <1>5, <1>6 DEF Xid
  <2>3. CASE y # n /\ x = n
    <3>1. y \in GetActiveTransactions /\ y < n /\ xid2active_set_'[y] = xid2active_set_[y]
      BY <2>1, <2>3, <1>4, <1>5, <1>6
    <3>2. n \notin xid2active_set_[y]
      BY <3>1, <2>1, <1>1 DEF XactInv, SnapshotBelow, Xid
    <3> QED BY <2>1, <2>3, <3>1, <3>2, <1>1 DEF Xid
  <2>4. CASE y # n /\ x # n
    BY <2>1, <2>4, <1>4, <1>5 DEF XactInv, SnapshotsSeparate
  <2> QED BY <2>2, <2>3, <2>4
<1> QED BY <1>7, <1>8, <1>9 DEF XactInv

\* Taking a command id changes no key.
LEMMA XactGetCid ==
  ASSUME XactInv, NEW xid \in Xid, GetCidAndIncrement(xid)
  PROVE  XactInv'
<1> USE BoundsAssumption DEF NoCid
<1>1. /\ xid2cid_' \in [Xid -> NoCid .. MaxCid + 1]
      /\ \A x \in Xid : xid2cid_'[x] = NoCid <=> xid2cid_[x] = NoCid
  BY DEF XactInv, TypeOK, GetCidAndIncrement, GetActiveTransactions
<1>2. GetActiveTransactions' = GetActiveTransactions
  BY <1>1 DEF GetActiveTransactions
<1>3. xid2active_set_' = xid2active_set_ /\ next_xid_' = next_xid_
  BY DEF GetCidAndIncrement
<1> QED BY <1>1, <1>2, <1>3 DEF XactInv, TypeOK, SnapshotBelow, SnapshotsSeparate

\* Forgetting a transaction removes one key of both maps.
LEMMA XactForget ==
  ASSUME XactInv, NEW xid \in Xid, Forget(xid)
  PROVE  XactInv' /\ GetActiveTransactions' = GetActiveTransactions \ {xid}
<1> USE BoundsAssumption DEF NoCid
<1>1. /\ xid2cid_' \in [Xid -> NoCid .. MaxCid + 1]
      /\ \A x \in Xid : xid2cid_'[x] = IF x = xid THEN NoCid ELSE xid2cid_[x]
  BY DEF XactInv, TypeOK, Forget
<1>2. /\ xid2active_set_' \in [Xid -> (SUBSET Xid) \cup {NoSnapshot}]
      /\ \A x \in Xid : xid2active_set_'[x] = IF x = xid THEN NoSnapshot ELSE xid2active_set_[x]
  BY DEF XactInv, TypeOK, Forget
<1>3. GetActiveTransactions' = GetActiveTransactions \ {xid}
  BY <1>1 DEF GetActiveTransactions
<1>4. \A x \in GetActiveTransactions' : x \in Xid /\ xid2active_set_'[x] = xid2active_set_[x]
  BY <1>2, <1>3 DEF GetActiveTransactions
<1>5. TypeOK'
  BY <1>1, <1>2, <1>3 DEF XactInv, TypeOK, Forget
<1> QED BY <1>3, <1>4, <1>5 DEF XactInv, SnapshotBelow, SnapshotsSeparate

\* Nothing is active when recovery sets the counter.
LEMMA XactSetNextXid ==
  ASSUME XactInv, GetActiveTransactions = {}, NEW n \in Xid, SetNextXid(n)
  PROVE  XactInv'
<1>1. GetActiveTransactions' = {}
  BY DEF SetNextXid, GetActiveTransactions
<1>2. next_xid_' \in FIRST_XID .. MaxXid + 1
  BY BoundsAssumption DEF XactInv, TypeOK, SetNextXid, Xid, FIRST_XID
<1> QED BY <1>1, <1>2 DEF XactInv, TypeOK, SnapshotBelow, SnapshotsSeparate, SetNextXid

\* Steps of the lock manager leave the transaction table alone.
LEMMA XactUnchanged ==
  ASSUME XactInv, UNCHANGED xactVars
  PROVE  XactInv'
BY DEF XactInv, TypeOK, SnapshotBelow, SnapshotsSeparate, GetActiveTransactions, xactVars

\* Every reachable state satisfies the invariant.
THEOREM TransactionTableInv == Spec => []XactInv
<1>1. XactInv /\ [Next]_vars => XactInv'
  <2> SUFFICES ASSUME XactInv, [Next]_vars PROVE XactInv'
    OBVIOUS
  <2>1. CASE UNCHANGED vars
    BY <2>1, XactUnchanged DEF vars, xactVars
  <2>2. CASE Begin
    BY <2>2, XactBegin
  <2>3. ASSUME NEW xid \in Xid, GetCidAndIncrement(xid) PROVE XactInv'
    BY <2>3, XactGetCid
  <2>4. ASSUME NEW xid \in Xid, Commit(xid) \/ Rollback(xid) PROVE XactInv'
    BY <2>4, XactForget DEF Commit, Rollback
  <2>5. ASSUME NEW xid \in Xid, NEW lock_type, NEW oid, LockTable(xid, lock_type, oid)
        PROVE  XactInv'
    BY <2>5, XactUnchanged DEF LockTable
  <2>6. ASSUME NEW xid \in Xid, NEW lock_type, NEW oid, NEW rid, LockRow(xid, lock_type, oid, rid)
        PROVE  XactInv'
    BY <2>6, XactUnchanged DEF LockRow
  <2>7. ASSUME GetActiveTransactions = {}, NEW n \in Xid, SetNextXid(n) PROVE XactInv'
    BY <2>7, XactSetNextXid
  <2> QED BY <2>1, <2>2, <2>3, <2>4, <2>5, <2>6, <2>7 DEF Next
<1> QED BY <1>1, XactInit, PTL DEF Spec

\* The two maps of the transaction manager keep the same keys, below next_xid_.
THEOREM TypeCorrect == Spec => []TypeOK
<1>1. XactInv => TypeOK BY DEF XactInv
<1> QED BY <1>1, TransactionTableInv, PTL

\* Of two active transactions, the later one has the earlier in its snapshot
\* and not the reverse, for any number of transactions.
THEOREM SnapshotsAreSeparate == Spec => []SnapshotsSeparate
<1>1. XactInv => SnapshotsSeparate BY DEF XactInv
<1> QED BY <1>1, TransactionTableInv, PTL

\* No transaction identifier becomes active twice.
THEOREM XidsAreNotReused == Spec => XidNotReused
<1> DEFINE A == /\ next_xid_' >= next_xid_
                /\ \A x \in Xid : x \in GetActiveTransactions' \ GetActiveTransactions =>
                     next_xid_ <= x /\ x < next_xid_'
<1>1. XactInv /\ [Next]_vars => [A]_vars
  <2> SUFFICES ASSUME XactInv, Next PROVE A
    OBVIOUS
  <2>0. next_xid_ \in Int
    BY DEF XactInv, TypeOK
  <2>1. CASE Begin
    <3>1. \A x \in Xid : x # next_xid_ => xid2cid_'[x] = xid2cid_[x]
      BY <2>1 DEF XactInv, TypeOK, Begin
    <3>2. next_xid_' = next_xid_ + 1
      BY <2>1 DEF Begin
    <3> QED BY <2>0, <3>1, <3>2 DEF GetActiveTransactions
  <2>2. ASSUME NEW xid \in Xid, GetCidAndIncrement(xid) PROVE A
    <3>1. \A x \in Xid : x # xid => xid2cid_'[x] = xid2cid_[x]
      BY <2>2 DEF XactInv, TypeOK, GetCidAndIncrement
    <3>2. next_xid_' = next_xid_ /\ xid \in GetActiveTransactions
      BY <2>2 DEF GetCidAndIncrement
    <3> QED BY <2>0, <3>1, <3>2 DEF GetActiveTransactions
  <2>3. ASSUME NEW xid \in Xid, Commit(xid) \/ Rollback(xid) PROVE A
    <3>1. GetActiveTransactions' \subseteq GetActiveTransactions
      BY <2>3, XactForget DEF Commit, Rollback
    <3>2. next_xid_' = next_xid_
      BY <2>3 DEF Commit, Rollback, Forget
    <3> QED BY <2>0, <3>1, <3>2
  <2>4. ASSUME UNCHANGED xactVars PROVE A
    BY <2>0, <2>4 DEF xactVars, GetActiveTransactions
  <2>5. ASSUME NEW xid \in Xid, NEW lock_type, NEW oid, LockTable(xid, lock_type, oid) PROVE A
    BY <2>4, <2>5 DEF LockTable
  <2>6. ASSUME NEW xid \in Xid, NEW lock_type, NEW oid, NEW rid, LockRow(xid, lock_type, oid, rid)
        PROVE  A
    BY <2>4, <2>6 DEF LockRow
  <2>7. ASSUME NEW n \in Xid, SetNextXid(n) PROVE A
    BY <2>0, <2>7 DEF SetNextXid, GetActiveTransactions, Xid, FIRST_XID
  <2> QED BY <2>1, <2>2, <2>3, <2>5, <2>6, <2>7 DEF Next
<1>2. A <=> /\ next_xid_' >= next_xid_
            /\ \A x \in Xid : x \in GetActiveTransactions' \ GetActiveTransactions =>
                 next_xid_ <= x /\ x < next_xid_'
  OBVIOUS
<1> QED BY <1>1, TransactionTableInv, PTL DEF Spec, XidNotReused

----------------------------------------------------------------------------
(* Locks.                                                                  *)

\* A map with an entry for every transaction and table; and for every row.
TableMap(f) == DOMAIN f = Xid /\ \A x \in Xid : DOMAIN f[x] = Table

RowMap(f) == TableMap(f) /\ \A x \in Xid, t \in Table : DOMAIN f[x][t] = Rid

\* The lock manager's maps have an entry for every transaction and resource.
LockShape == TableMap(tableLocks) /\ RowMap(rowLocks) /\ TableMap(heldTable) /\ RowMap(heldRow)

\* LocksOfActiveOnly with the shape of the maps, which makes it inductive.
LockLifeInv == XactInv /\ LockShape /\ LocksOfActiveOnly

\* The update of one entry.
SetTable(f, a, b, v) == [f EXCEPT ![a][b] = v]

SetRow(f, a, b, c, v) == [f EXCEPT ![a][b][c] = v]

\* A table request updates one entry of a map: what the new map looks like.
LEMMA TableUpdate ==
  ASSUME NEW f, TableMap(f), NEW a \in Xid, NEW b \in Table, NEW v
  PROVE  /\ TableMap(SetTable(f, a, b, v))
         /\ \A x \in Xid, t \in Table :
              SetTable(f, a, b, v)[x][t] = IF x = a /\ t = b THEN v ELSE f[x][t]
<1> DEFINE g == SetTable(f, a, b, v)
<1>1. /\ DOMAIN g = Xid
      /\ g[a] = [f[a] EXCEPT ![b] = v]
      /\ \A x \in Xid : x # a => g[x] = f[x]
  BY DEF TableMap, SetTable
<1>2. /\ DOMAIN g[a] = Table
      /\ \A t \in Table : g[a][t] = IF t = b THEN v ELSE f[a][t]
  BY <1>1 DEF TableMap
<1> HIDE DEF g
<1>3. TableMap(g) /\ \A x \in Xid, t \in Table : g[x][t] = IF x = a /\ t = b THEN v ELSE f[x][t]
  BY <1>1, <1>2 DEF TableMap
<1> QED BY <1>3 DEF g

\* The same for a row request.
LEMMA RowUpdate ==
  ASSUME NEW f, RowMap(f), NEW a \in Xid, NEW b \in Table, NEW c \in Rid, NEW v
  PROVE  /\ RowMap(SetRow(f, a, b, c, v))
         /\ \A x \in Xid, t \in Table, r \in Rid :
              SetRow(f, a, b, c, v)[x][t][r] =
                IF x = a /\ t = b /\ r = c THEN v ELSE f[x][t][r]
<1> DEFINE h == [f[a][b] EXCEPT ![c] = v]
           g == SetTable(f, a, b, h)
<1>1. SetRow(f, a, b, c, v) = g
  BY DEF RowMap, TableMap, SetRow, SetTable
<1>2. /\ DOMAIN h = Rid
      /\ \A r \in Rid : h[r] = IF r = c THEN v ELSE f[a][b][r]
  BY DEF RowMap
<1> HIDE DEF h
<1>3. /\ TableMap(g)
      /\ \A x \in Xid, t \in Table : g[x][t] = IF x = a /\ t = b THEN h ELSE f[x][t]
  BY TableUpdate DEF RowMap
<1> HIDE DEF g
<1>4. RowMap(g)
  BY <1>2, <1>3 DEF RowMap
<1>5. \A x \in Xid, t \in Table, r \in Rid :
        g[x][t][r] = IF x = a /\ t = b /\ r = c THEN v ELSE f[x][t][r]
  BY <1>2, <1>3
<1> QED BY <1>1, <1>4, <1>5

\* What a lock request leaves alone: the entries of the other transactions,
\* and everything that was granted before.
OnlyAdds(xid) ==
  /\ \A x \in Xid \ {xid}, t \in Table :
       /\ tableLocks'[x][t] = tableLocks[x][t]
       /\ \A r \in Rid : rowLocks'[x][t][r] = rowLocks[x][t][r]
  /\ \A x \in Xid, t \in Table :
       /\ heldTable[x][t] \subseteq heldTable'[x][t]
       /\ \A r \in Rid : heldRow[x][t][r] \subseteq heldRow'[x][t][r]

\* A table request only adds.
LEMMA LockTableEffect ==
  ASSUME LockShape, NEW xid \in Xid, NEW lock_type, NEW oid \in Table,
         LM!LockTable(xid, lock_type, oid)
  PROVE  LockShape' /\ OnlyAdds(xid)
<1>1. PICK v : tableLocks' = SetTable(tableLocks, xid, oid, v)
  BY DEF LM!LockTable, SetTable
<1>2. \/ heldTable' = heldTable
      \/ heldTable' = SetTable(heldTable, xid, oid, heldTable[xid][oid] \cup {lock_type})
  BY DEF LM!LockTable, SetTable
<1>3. rowLocks' = rowLocks /\ heldRow' = heldRow
  BY DEF LM!LockTable, SetTable
<1>4. /\ TableMap(tableLocks')
      /\ \A x \in Xid \ {xid}, t \in Table : tableLocks'[x][t] = tableLocks[x][t]
  BY <1>1, TableUpdate DEF LockShape
<1>5. /\ TableMap(heldTable')
      /\ \A x \in Xid, t \in Table : heldTable[x][t] \subseteq heldTable'[x][t]
  <2>1. CASE heldTable' = heldTable
    BY <2>1 DEF LockShape
  <2>2. CASE heldTable' = SetTable(heldTable, xid, oid, heldTable[xid][oid] \cup {lock_type})
    BY <2>2, TableUpdate DEF LockShape
  <2> QED BY <1>2, <2>1, <2>2
<1>6. LockShape'
  BY <1>3, <1>4, <1>5 DEF LockShape, RowMap, TableMap
<1> QED BY <1>3, <1>4, <1>5, <1>6 DEF OnlyAdds

\* A row request only adds.
LEMMA LockRowEffect ==
  ASSUME LockShape, NEW xid \in Xid, NEW lock_type, NEW oid \in Table, NEW rid \in Rid,
         LM!LockRow(xid, lock_type, oid, rid)
  PROVE  LockShape' /\ OnlyAdds(xid)
<1> DEFINE i == LM!Intention(lock_type)
<1>1. PICK v : tableLocks' = SetTable(tableLocks, xid, oid, v)
  BY DEF LM!LockRow, SetTable, SetRow
<1>2. PICK w : rowLocks' = SetRow(rowLocks, xid, oid, rid, w)
  BY DEF LM!LockRow, SetTable, SetRow
<1>3. \/ heldTable' = heldTable
      \/ heldTable' = SetTable(heldTable, xid, oid, heldTable[xid][oid] \cup {i})
  BY DEF LM!LockRow, SetTable, SetRow
<1>4. \/ heldRow' = heldRow
      \/ heldRow' = SetRow(heldRow, xid, oid, rid, heldRow[xid][oid][rid] \cup {lock_type})
  BY DEF LM!LockRow, SetTable, SetRow
<1>5. /\ TableMap(tableLocks')
      /\ \A x \in Xid \ {xid}, t \in Table : tableLocks'[x][t] = tableLocks[x][t]
  BY <1>1, TableUpdate DEF LockShape
<1>6. /\ RowMap(rowLocks')
      /\ \A x \in Xid \ {xid}, t \in Table, r \in Rid : rowLocks'[x][t][r] = rowLocks[x][t][r]
  BY <1>2, RowUpdate DEF LockShape
<1> HIDE DEF i
<1>7. /\ TableMap(heldTable')
      /\ \A x \in Xid, t \in Table : heldTable[x][t] \subseteq heldTable'[x][t]
  <2>1. CASE heldTable' = heldTable
    BY <2>1 DEF LockShape
  <2>2. CASE heldTable' = SetTable(heldTable, xid, oid, heldTable[xid][oid] \cup {i})
    BY <2>2, TableUpdate DEF LockShape
  <2> QED BY <1>3, <2>1, <2>2
<1>8. /\ RowMap(heldRow')
      /\ \A x \in Xid, t \in Table, r \in Rid : heldRow[x][t][r] \subseteq heldRow'[x][t][r]
  <2>1. CASE heldRow' = heldRow
    BY <2>1 DEF LockShape
  <2>2. CASE heldRow' = SetRow(heldRow, xid, oid, rid, heldRow[xid][oid][rid] \cup {lock_type})
    BY <2>2, RowUpdate DEF LockShape
  <2> QED BY <1>4, <2>1, <2>2
<1>9. LockShape'
  BY <1>5, <1>6, <1>7, <1>8 DEF LockShape, RowMap, TableMap
<1> QED BY <1>5, <1>6, <1>7, <1>8, <1>9 DEF OnlyAdds

\* ReleaseLocks empties the entries of one transaction.
LEMMA ReleaseEffect ==
  ASSUME LockShape, NEW xid \in Xid, LM!ReleaseLocks(xid)
  PROVE  /\ LockShape'
         /\ \A t \in Table :
              tableLocks'[xid][t] = NoLock /\ \A r \in Rid : rowLocks'[xid][t][r] = NoLock
         /\ \A x \in Xid \ {xid} :
              /\ tableLocks'[x] = tableLocks[x] /\ rowLocks'[x] = rowLocks[x]
              /\ heldTable'[x] = heldTable[x] /\ heldRow'[x] = heldRow[x]
<1>1. /\ TableMap(tableLocks')
      /\ \A t \in Table : tableLocks'[xid][t] = NoLock
      /\ \A x \in Xid \ {xid} : tableLocks'[x] = tableLocks[x]
  BY DEF LockShape, LM!ReleaseLocks, TableMap
<1>2. /\ RowMap(rowLocks')
      /\ \A t \in Table, r \in Rid : rowLocks'[xid][t][r] = NoLock
      /\ \A x \in Xid \ {xid} : rowLocks'[x] = rowLocks[x]
  BY DEF LockShape, LM!ReleaseLocks, RowMap, TableMap
<1>3. TableMap(heldTable') /\ \A x \in Xid \ {xid} : heldTable'[x] = heldTable[x]
  BY DEF LockShape, LM!ReleaseLocks, TableMap
<1>4. RowMap(heldRow') /\ \A x \in Xid \ {xid} : heldRow'[x] = heldRow[x]
  BY DEF LockShape, LM!ReleaseLocks, RowMap, TableMap
<1>5. LockShape'
  BY <1>1, <1>2, <1>3, <1>4 DEF LockShape, RowMap, TableMap
<1> QED BY <1>1, <1>2, <1>3, <1>4, <1>5

\* Init has no locks at all.
LEMMA LockLifeInit == Init => LockLifeInv
<1> SUFFICES ASSUME Init PROVE LockLifeInv
  OBVIOUS
<1>1. LockShape BY DEF Init, LM!Init, LockShape, RowMap, TableMap
<1>2. LocksOfActiveOnly BY DEF Init, LM!Init, LocksOfActiveOnly
<1> QED BY <1>1, <1>2, XactInit DEF LockLifeInv

\* The actions that touch locks, each with the transaction it is for.
LEMMA LockLifeStep ==
  ASSUME LockLifeInv, [Next]_vars, XactInv'
  PROVE  LockLifeInv'
<1> SUFFICES LockShape' /\ LocksOfActiveOnly'
  BY DEF LockLifeInv
<1> USE DEF LockLifeInv
<1>1. ASSUME UNCHANGED lockVars, GetActiveTransactions \subseteq GetActiveTransactions'
      PROVE  LockShape' /\ LocksOfActiveOnly'
  BY <1>1 DEF lockVars, LockShape, RowMap, TableMap, LocksOfActiveOnly
<1>2. CASE UNCHANGED vars
  <2>1. UNCHANGED lockVars /\ GetActiveTransactions' = GetActiveTransactions
    BY <1>2 DEF vars, lockVars, GetActiveTransactions
  <2> QED BY <2>1, <1>1
<1>3. CASE Begin
  <2>1. \A x \in Xid : x # next_xid_ => xid2cid_'[x] = xid2cid_[x]
    BY <1>3 DEF XactInv, TypeOK, Begin
  <2>2. next_xid_ \in Xid => xid2cid_'[next_xid_] # NoCid
    BY <1>3 DEF XactInv, TypeOK, Begin, FIRST_CID, NoCid
  <2>3. GetActiveTransactions \subseteq GetActiveTransactions'
    BY <2>1, <2>2 DEF GetActiveTransactions
  <2> QED BY <1>1, <1>3, <2>3 DEF Begin
<1>4. ASSUME NEW xid \in Xid, GetCidAndIncrement(xid) PROVE LockShape' /\ LocksOfActiveOnly'
  <2>1. \A x \in Xid : xid2cid_[x] # NoCid => xid2cid_'[x] # NoCid
    BY <1>4, BoundsAssumption DEF XactInv, TypeOK, GetCidAndIncrement, NoCid
  <2>2. GetActiveTransactions \subseteq GetActiveTransactions'
    BY <2>1 DEF GetActiveTransactions
  <2> QED BY <1>1, <1>4, <2>2 DEF GetCidAndIncrement
<1>5. ASSUME NEW xid \in Xid, Commit(xid) \/ Rollback(xid) PROVE LockShape' /\ LocksOfActiveOnly'
  <2>1. LM!ReleaseLocks(xid) /\ GetActiveTransactions' = GetActiveTransactions \ {xid}
    BY <1>5, XactForget DEF Commit, Rollback
  <2> QED BY <2>1, ReleaseEffect DEF LocksOfActiveOnly
<1>6. ASSUME NEW xid \in Xid, NEW lock_type, NEW oid \in Table, LockTable(xid, lock_type, oid)
      PROVE  LockShape' /\ LocksOfActiveOnly'
  <2>1. xid \in GetActiveTransactions /\ GetActiveTransactions' = GetActiveTransactions
    BY <1>6 DEF LockTable, xactVars, GetActiveTransactions
  <2>2. LockShape' /\ OnlyAdds(xid)
    BY <1>6, LockTableEffect DEF LockTable
  <2> QED BY <2>1, <2>2 DEF LocksOfActiveOnly, OnlyAdds
<1>7. ASSUME NEW xid \in Xid, NEW lock_type, NEW oid \in Table, NEW rid \in Rid,
             LockRow(xid, lock_type, oid, rid)
      PROVE  LockShape' /\ LocksOfActiveOnly'
  <2>1. xid \in GetActiveTransactions /\ GetActiveTransactions' = GetActiveTransactions
    BY <1>7 DEF LockRow, xactVars, GetActiveTransactions
  <2>2. LockShape' /\ OnlyAdds(xid)
    BY <1>7, LockRowEffect DEF LockRow
  <2> QED BY <2>1, <2>2 DEF LocksOfActiveOnly, OnlyAdds
<1>8. ASSUME NEW n, SetNextXid(n) PROVE LockShape' /\ LocksOfActiveOnly'
  <2>1. GetActiveTransactions' = GetActiveTransactions
    BY <1>8 DEF SetNextXid, GetActiveTransactions
  <2> QED BY <1>1, <1>8, <2>1 DEF SetNextXid
<1> QED BY <1>2, <1>3, <1>4, <1>5, <1>6, <1>7, <1>8 DEF Next

\* The invariant about the life of locks.
THEOREM LockLife == Spec => []LockLifeInv
<1>1. LockLifeInv /\ XactInv' /\ [Next]_vars => LockLifeInv'
  BY LockLifeStep
<1> QED BY <1>1, LockLifeInit, TransactionTableInv, PTL DEF Spec

\* An entry of lock_map belongs to an active transaction.
THEOREM LocksBelongToActive == Spec => []LocksOfActiveOnly
<1>1. LockLifeInv => LocksOfActiveOnly BY DEF LockLifeInv
<1> QED BY <1>1, LockLife, PTL

\* Strict two-phase locking: a granted lock is kept until its transaction ends.
THEOREM TwoPhaseLocking == Spec => LockUntilEnd
<1> DEFINE A == \A x \in Xid, t \in Table :
                  x \in GetActiveTransactions' =>
                    /\ heldTable[x][t] \subseteq heldTable'[x][t]
                    /\ \A r \in Rid : heldRow[x][t][r] \subseteq heldRow'[x][t][r]
<1>1. LockLifeInv /\ [Next]_vars => [A]_vars
  <2> SUFFICES ASSUME LockLifeInv, Next PROVE A
    OBVIOUS
  <2> USE DEF LockLifeInv
  <2>1. ASSUME UNCHANGED lockVars PROVE A
    BY <2>1 DEF lockVars
  <2>2. CASE Begin
    BY <2>1, <2>2 DEF Begin
  <2>3. ASSUME NEW xid \in Xid, GetCidAndIncrement(xid) PROVE A
    BY <2>1, <2>3 DEF GetCidAndIncrement
  <2>4. ASSUME NEW xid \in Xid, Commit(xid) \/ Rollback(xid) PROVE A
    <3>1. LM!ReleaseLocks(xid) /\ GetActiveTransactions' = GetActiveTransactions \ {xid}
      BY <2>4, XactForget DEF Commit, Rollback
    <3> QED BY <3>1, ReleaseEffect
  <2>5. ASSUME NEW xid \in Xid, NEW lock_type, NEW oid \in Table, LockTable(xid, lock_type, oid)
        PROVE  A
    BY <2>5, LockTableEffect DEF LockTable, OnlyAdds
  <2>6. ASSUME NEW xid \in Xid, NEW lock_type, NEW oid \in Table, NEW rid \in Rid,
               LockRow(xid, lock_type, oid, rid)
        PROVE  A
    BY <2>6, LockRowEffect DEF LockRow, OnlyAdds
  <2>7. ASSUME NEW n, SetNextXid(n) PROVE A
    BY <2>1, <2>7 DEF SetNextXid
  <2> QED BY <2>2, <2>3, <2>4, <2>5, <2>6, <2>7 DEF Next
<1> QED BY <1>1, LockLife, PTL DEF Spec, LockUntilEnd

\* The composition implements the lock manager: what LockManagerProofs proves
\* of its specification holds of the locks transactions take.
THEOREM ImplementsLockManager == Spec => LocksRefine
<1>1. Init => LM!Init
  BY DEF Init
<1>2. [Next]_vars => [LM!Next]_(LM!vars)
  <2> SUFFICES ASSUME [Next]_vars, ~UNCHANGED LM!vars PROVE LM!Next
    OBVIOUS
  <2>0. UNCHANGED lockVars => UNCHANGED LM!vars
    BY DEF lockVars, LM!vars
  <2>1. CASE UNCHANGED vars
    BY <2>0, <2>1 DEF vars, lockVars
  <2>2. CASE Begin
    BY <2>0, <2>2 DEF Begin
  <2>3. ASSUME NEW xid \in Xid, GetCidAndIncrement(xid) PROVE LM!Next
    BY <2>0, <2>3 DEF GetCidAndIncrement
  <2>4. ASSUME NEW xid \in Xid, Commit(xid) \/ Rollback(xid) PROVE LM!Next
    BY <2>4 DEF Commit, Rollback, LM!Next
  <2>5. ASSUME NEW xid \in Xid, NEW lock_type \in LM!TableRequest, NEW oid \in Table,
               LockTable(xid, lock_type, oid)
        PROVE  LM!Next
    BY <2>5 DEF LockTable, LM!Next
  <2>6. ASSUME NEW xid \in Xid, NEW lock_type \in LM!RowRequest, NEW oid \in Table,
               NEW rid \in Rid, LockRow(xid, lock_type, oid, rid)
        PROVE  LM!Next
    BY <2>6 DEF LockRow, LM!Next
  <2>7. ASSUME NEW n, SetNextXid(n) PROVE LM!Next
    BY <2>0, <2>7 DEF SetNextXid
  <2> QED BY <2>1, <2>2, <2>3, <2>4, <2>5, <2>6, <2>7 DEF Next
<1> QED BY <1>1, <1>2, PTL DEF Spec, LocksRefine, LM!Spec
============================================================================
