------------------------- MODULE LockManagerProofs -------------------------
(***************************************************************************)
(* Proofs about LockManager for any transactions, tables and rows.         *)
(*                                                                         *)
(* The argument: Upgrade never weakens an entry (UpgradeCovers), so the    *)
(* recorded entry always stands for everything that was granted            *)
(* (GrantedStaysRecorded); a request is granted only against the recorded  *)
(* entries of all other transactions, hence against everything they were   *)
(* granted, and compatibility is symmetric.                                *)
(***************************************************************************)
EXTENDS LockManager, TLAPS

\* An update of one cell of a nested function keeps its type and the others.
LEMMA Except2 ==
  ASSUME NEW A, NEW B, NEW C, NEW f \in [A -> [B -> C]], NEW a \in A, NEW b \in B, NEW v \in C
  PROVE  /\ [f EXCEPT ![a][b] = v] \in [A -> [B -> C]]
         /\ \A x \in A, y \in B :
              [f EXCEPT ![a][b] = v][x][y] = IF x = a /\ y = b THEN v ELSE f[x][y]
OBVIOUS

\* The same for three levels.
LEMMA Except3 ==
  ASSUME NEW A, NEW B, NEW C, NEW D, NEW f \in [A -> [B -> [C -> D]]],
         NEW a \in A, NEW b \in B, NEW c \in C, NEW v \in D
  PROVE  /\ [f EXCEPT ![a][b][c] = v] \in [A -> [B -> [C -> D]]]
         /\ \A x \in A, y \in B, z \in C :
              [f EXCEPT ![a][b][c] = v][x][y][z] =
                 IF x = a /\ y = b /\ z = c THEN v ELSE f[x][y][z]
<1>1. [f EXCEPT ![a][b][c] = v] = [f EXCEPT ![a][b] = [f[a][b] EXCEPT ![c] = v]]
  OBVIOUS
<1>2. [f[a][b] EXCEPT ![c] = v] \in [C -> D]
  OBVIOUS
<1>3. \A z \in C : [f[a][b] EXCEPT ![c] = v][z] = IF z = c THEN v ELSE f[a][b][z]
  OBVIOUS
<1> QED BY <1>1, <1>2, <1>3, Except2

\* Compatible is symmetric on the five lock types.
LEMMA CompatibleSymmetric ==
  ASSUME NEW a \in LockType, NEW b \in LockType
  PROVE  Compatible(a, b) <=> Compatible(b, a)
BY DEF Compatible, CompatibleWith, LockType

\* Upgrade yields a type that covers both its arguments for every type a
\* caller of LockTable or LockRow passes.
LEMMA UpgradeCovers ==
  ASSUME NEW a \in LockType, NEW b \in TableRequest
  PROVE  /\ Upgrade(a, b) \in LockType
         /\ CompatibleWith[Upgrade(a, b)] \subseteq CompatibleWith[a]
         /\ CompatibleWith[Upgrade(a, b)] \subseteq CompatibleWith[b]
<1> USE DEF Upgrade, CompatibleWith, LockType, TableRequest
<1>1. CASE a = "S" BY <1>1
<1>2. CASE a = "X" BY <1>2
<1>3. CASE a = "IS" BY <1>3
<1>4. CASE a = "IX" BY <1>4
<1>5. CASE a = "SIX" BY <1>5
<1> QED BY <1>1, <1>2, <1>3, <1>4, <1>5

\* A row entry stays S or X under the row requests.
LEMMA UpgradeRow ==
  ASSUME NEW a \in RowRequest, NEW b \in RowRequest
  PROVE  Upgrade(a, b) \in RowRequest
BY DEF Upgrade, RowRequest

\* The entry a request leaves behind covers the request and what the old
\* entry covered.
LEMMA RecordedCovers ==
  ASSUME NEW e \in LockType \cup {NoLock}, NEW b \in TableRequest
  PROVE  /\ Recorded(e, b) \in LockType
         /\ Covers(Recorded(e, b), b)
         /\ \A a \in LockType : Covers(e, a) => Covers(Recorded(e, b), a)
<1>1. CASE e = NoLock
  BY <1>1, NoLockAssumption DEF Recorded, Covers, LockType, TableRequest
<1>2. CASE e \in LockType
  <2>1. e # NoLock /\ Recorded(e, b) = Upgrade(e, b)
    BY <1>2, NoLockAssumption DEF Recorded
  <2> QED BY <1>2, <2>1, UpgradeCovers, NoLockAssumption DEF Covers
<1> QED BY <1>1, <1>2

\* Row entries stay S or X.
LEMMA RecordedRow ==
  ASSUME NEW e \in RowRequest \cup {NoLock}, NEW b \in RowRequest
  PROVE  Recorded(e, b) \in RowRequest
BY UpgradeRow, NoLockAssumption DEF Recorded, RowRequest, LockType

\* What tolerates a type tolerates each type it covers.
LEMMA CoversCompatible ==
  ASSUME NEW e \in LockType, NEW f \in LockType, NEW a \in LockType, NEW b \in LockType,
         Covers(e, a), Covers(f, b), Compatible(e, f)
  PROVE  Compatible(a, b) /\ Compatible(b, a)
<1>1. Compatible(a, f) BY DEF Covers, Compatible
<1>2. Compatible(f, a) BY <1>1, CompatibleSymmetric
<1>3. Compatible(b, a) BY <1>2 DEF Covers, Compatible
<1> QED BY <1>3, CompatibleSymmetric


----------------------------------------------------------------------------

\* Granted types are lock types.
LEMMA HeldTypes ==
  ASSUME TypeOK, NEW x \in Xid, NEW t \in Table
  PROVE  /\ heldTable[x][t] \subseteq TableRequest
         /\ heldTable[x][t] \subseteq LockType
         /\ \A r \in Rid : heldRow[x][t][r] \subseteq RowRequest
         /\ \A r \in Rid : heldRow[x][t][r] \subseteq LockType
<1>1. heldTable[x][t] \in SUBSET TableRequest
  BY DEF TypeOK
<1>2. \A r \in Rid : heldRow[x][t][r] \in SUBSET RowRequest
  BY DEF TypeOK
<1>3. TableRequest \subseteq LockType /\ RowRequest \subseteq LockType
  BY DEF TableRequest, RowRequest, LockType
<1> QED BY <1>1, <1>2, <1>3

\* The entry and answer of a table request, as the three facts every case uses.
LEMMA TableEntry ==
  ASSUME LockInv, NEW x \in Xid, NEW t \in Table, NEW b \in TableRequest
  PROVE  LET e == Recorded(tableLocks[x][t], b) IN
         /\ e \in LockType
         /\ Covers(e, b)
         /\ \A a \in heldTable[x][t] : Covers(e, a)
         /\ TableCompatible(x, e, t) =>
              \A y \in Xid \ {x} : \A a \in heldTable[y][t] : Compatible(a, b) /\ Compatible(b, a)
<1> DEFINE e == Recorded(tableLocks[x][t], b)
<1>1. tableLocks[x][t] \in LockType \cup {NoLock}
  BY DEF LockInv, TypeOK
<1>2. /\ e \in LockType
      /\ Covers(e, b)
      /\ \A a \in LockType : Covers(tableLocks[x][t], a) => Covers(e, a)
  BY <1>1, RecordedCovers
<1>3. \A a \in heldTable[x][t] : Covers(e, a)
  <2> TAKE a \in heldTable[x][t]
  <2>1. a \in LockType /\ Covers(tableLocks[x][t], a)
    BY HeldTypes DEF LockInv, GrantedStaysRecorded
  <2> QED BY <1>2, <2>1
<1>4. ASSUME TableCompatible(x, e, t), NEW y \in Xid \ {x}, NEW a \in heldTable[y][t]
      PROVE  Compatible(a, b) /\ Compatible(b, a)
  <2>1. a \in LockType /\ b \in LockType
    BY HeldTypes DEF LockInv, TableRequest, LockType
  <2>2. Covers(tableLocks[y][t], a)
    BY DEF LockInv, GrantedStaysRecorded
  <2>3. tableLocks[y][t] \in LockType
    BY <2>2 DEF LockInv, TypeOK, Covers
  <2>4. Compatible(tableLocks[y][t], e)
    BY <1>4, <2>2 DEF TableCompatible, Covers
  <2> QED BY <1>2, <2>1, <2>2, <2>3, <2>4, CoversCompatible
<1> QED BY <1>2, <1>3, <1>4

\* The same facts for the row entry of a row request.
LEMMA RowEntry ==
  ASSUME LockInv, NEW x \in Xid, NEW t \in Table, NEW r \in Rid, NEW b \in RowRequest
  PROVE  LET e == Recorded(rowLocks[x][t][r], b) IN
         /\ e \in RowRequest
         /\ Covers(e, b)
         /\ \A a \in heldRow[x][t][r] : Covers(e, a)
         /\ RowCompatible(x, e, t, r) =>
              \A y \in Xid \ {x} : \A a \in heldRow[y][t][r] : Compatible(a, b) /\ Compatible(b, a)
<1> DEFINE e == Recorded(rowLocks[x][t][r], b)
<1>1. rowLocks[x][t][r] \in RowRequest \cup {NoLock}
  BY DEF LockInv, TypeOK
<1>2. e \in RowRequest
  BY <1>1, RecordedRow
<1>3. /\ Covers(e, b)
      /\ \A a \in LockType : Covers(rowLocks[x][t][r], a) => Covers(e, a)
  <2>1. /\ rowLocks[x][t][r] \in LockType \cup {NoLock}
        /\ b \in TableRequest
    BY <1>1 DEF RowRequest, LockType, TableRequest
  <2> QED BY <2>1, RecordedCovers
<1>4. \A a \in heldRow[x][t][r] : Covers(e, a)
  <2> TAKE a \in heldRow[x][t][r]
  <2>1. a \in LockType /\ Covers(rowLocks[x][t][r], a)
    BY HeldTypes DEF LockInv, GrantedStaysRecorded
  <2> QED BY <1>3, <2>1
<1>5. ASSUME RowCompatible(x, e, t, r), NEW y \in Xid \ {x}, NEW a \in heldRow[y][t][r]
      PROVE  Compatible(a, b) /\ Compatible(b, a)
  <2>1. a \in LockType /\ b \in LockType /\ e \in LockType
    BY <1>2, HeldTypes DEF LockInv, RowRequest, LockType
  <2>2. Covers(rowLocks[y][t][r], a)
    BY DEF LockInv, GrantedStaysRecorded
  <2>3. rowLocks[y][t][r] \in LockType
    BY <2>2 DEF LockInv, TypeOK, Covers, RowRequest, LockType
  <2>4. Compatible(rowLocks[y][t][r], e)
    BY <1>5, <2>2 DEF RowCompatible, Covers
  <2> QED BY <1>3, <2>1, <2>2, <2>3, <2>4, CoversCompatible
<1> QED BY <1>2, <1>3, <1>4, <1>5

\* No entry and no granted lock: the invariant holds in an empty lock table.
LEMMA InitInv == Init => LockInv
<1> SUFFICES ASSUME Init PROVE LockInv
  OBVIOUS
<1>1. TypeOK BY DEF Init, TypeOK
<1>2. GrantedStaysRecorded BY DEF Init, GrantedStaysRecorded
<1>3. GrantedCompatible BY DEF Init, GrantedCompatible
<1>4. RowHasIntention BY DEF Init, RowHasIntention
<1> QED BY <1>1, <1>2, <1>3, <1>4 DEF LockInv

\* LockTable preserves the invariant, granted or refused.
LEMMA LockTableInv ==
  ASSUME LockInv, NEW xid \in Xid, NEW lock_type \in TableRequest, NEW oid \in Table,
         LockTable(xid, lock_type, oid)
  PROVE  LockInv'
<1> DEFINE e == Recorded(tableLocks[xid][oid], lock_type)
<1>1. /\ e \in LockType
      /\ Covers(e, lock_type)
      /\ \A a \in heldTable[xid][oid] : Covers(e, a)
      /\ TableCompatible(xid, e, oid) =>
           \A y \in Xid \ {xid} : \A a \in heldTable[y][oid] :
             Compatible(a, lock_type) /\ Compatible(lock_type, a)
  BY TableEntry
<1>2. tableLocks' = [tableLocks EXCEPT ![xid][oid] = e]
  BY DEF LockTable
<1>3. /\ rowLocks' = rowLocks
      /\ heldRow' = heldRow
      /\ heldTable' = [heldTable EXCEPT ![xid][oid] = @ \cup {lock_type}]
           \/ heldTable' = heldTable
  BY DEF LockTable
<1>c. /\ tableLocks \in [Xid -> [Table -> LockType \cup {NoLock}]]
      /\ heldTable \in [Xid -> [Table -> SUBSET TableRequest]]
      /\ heldTable[xid][oid] \cup {lock_type} \in SUBSET TableRequest
  BY DEF LockInv, TypeOK
<1> HIDE DEF e
<1>h. /\ heldTable' \in [Xid -> [Table -> SUBSET TableRequest]]
      /\ \A x \in Xid, t \in Table : heldTable'[x][t] \subseteq heldTable[x][t] \cup {lock_type}
      /\ \A x \in Xid, t \in Table : ~(x = xid /\ t = oid) => heldTable'[x][t] = heldTable[x][t]
      /\ \A x \in Xid, t \in Table : heldTable[x][t] \subseteq heldTable'[x][t]
  <2>1. CASE heldTable' = heldTable
    BY <2>1, <1>c
  <2>2. CASE heldTable' = [heldTable EXCEPT ![xid][oid] = heldTable[xid][oid] \cup {lock_type}]
    <3>1. /\ heldTable' \in [Xid -> [Table -> SUBSET TableRequest]]
          /\ \A x \in Xid, t \in Table :
               heldTable'[x][t] = IF x = xid /\ t = oid THEN heldTable[xid][oid] \cup {lock_type}
                                                        ELSE heldTable[x][t]
      BY <2>2, <1>c, Except2
    <3> QED BY <3>1
  <2> QED BY <2>1, <2>2, <1>3
<1>t. /\ tableLocks' \in [Xid -> [Table -> LockType \cup {NoLock}]]
      /\ \A x \in Xid, t \in Table :
           tableLocks'[x][t] = IF x = xid /\ t = oid THEN e ELSE tableLocks[x][t]
  BY <1>1, <1>2, <1>c, Except2
<1>4. TypeOK'
  BY <1>3, <1>h, <1>t DEF LockInv, TypeOK
<1>5. GrantedStaysRecorded'
  BY <1>1, <1>3, <1>h, <1>t DEF LockInv, GrantedStaysRecorded
<1>6. GrantedCompatible'
  <2> SUFFICES ASSUME NEW x \in Xid, NEW y \in Xid, NEW t \in Table, x # y,
                      NEW a \in heldTable'[x][t], NEW b \in heldTable'[y][t]
               PROVE  Compatible(a, b)
    BY <1>3 DEF LockInv, GrantedCompatible
  <2>1. CASE a \in heldTable[x][t] /\ b \in heldTable[y][t]
    BY <2>1 DEF LockInv, GrantedCompatible
  <2>2. CASE a \notin heldTable[x][t] \/ b \notin heldTable[y][t]
    <3>1. TableCompatible(xid, e, oid)
      BY <2>2, <1>3 DEF LockTable, LockTableGranted, e
    <3>2. t = oid /\ ((x = xid /\ a = lock_type) \/ (y = xid /\ b = lock_type))
      BY <2>2, <1>h
    <3> QED BY <3>1, <3>2, <1>1, <1>h, <2>2
  <2> QED BY <2>1, <2>2
<1>7. RowHasIntention'
  BY <1>3, <1>h DEF LockInv, RowHasIntention
<1> QED BY <1>4, <1>5, <1>6, <1>7 DEF LockInv

\* LockRow preserves the invariant, granted or refused.
LEMMA LockRowInv ==
  ASSUME LockInv, NEW xid \in Xid, NEW lock_type \in RowRequest, NEW oid \in Table,
         NEW rid \in Rid, LockRow(xid, lock_type, oid, rid)
  PROVE  LockInv'
<1> DEFINE i == Intention(lock_type)
<1> DEFINE e == Recorded(tableLocks[xid][oid], i)
<1> DEFINE f == Recorded(rowLocks[xid][oid][rid], lock_type)
<1>i. i \in TableRequest
  BY DEF Intention, TableRequest
<1>1. /\ e \in LockType
      /\ Covers(e, i)
      /\ \A a \in heldTable[xid][oid] : Covers(e, a)
      /\ TableCompatible(xid, e, oid) =>
           \A y \in Xid \ {xid} : \A a \in heldTable[y][oid] : Compatible(a, i) /\ Compatible(i, a)
  BY <1>i, TableEntry
<1>2. /\ f \in RowRequest
      /\ Covers(f, lock_type)
      /\ \A a \in heldRow[xid][oid][rid] : Covers(f, a)
      /\ RowCompatible(xid, f, oid, rid) =>
           \A y \in Xid \ {xid} : \A a \in heldRow[y][oid][rid] :
             Compatible(a, lock_type) /\ Compatible(lock_type, a)
  BY RowEntry
<1>3. /\ tableLocks' = [tableLocks EXCEPT ![xid][oid] = e]
      /\ rowLocks' = [rowLocks EXCEPT ![xid][oid][rid] = f]
  BY DEF LockRow
<1>g. \/ /\ TableCompatible(xid, e, oid)
         /\ RowCompatible(xid, f, oid, rid)
         /\ heldTable' = [heldTable EXCEPT ![xid][oid] = @ \cup {i}]
         /\ heldRow' = [heldRow EXCEPT ![xid][oid][rid] = @ \cup {lock_type}]
      \/ heldTable' = heldTable /\ heldRow' = heldRow
  BY DEF LockRow, LockRowGranted
<1> HIDE DEF i, e, f
<1>c. /\ tableLocks \in [Xid -> [Table -> LockType \cup {NoLock}]]
      /\ rowLocks \in [Xid -> [Table -> [Rid -> RowRequest \cup {NoLock}]]]
      /\ heldTable \in [Xid -> [Table -> SUBSET TableRequest]]
      /\ heldRow \in [Xid -> [Table -> [Rid -> SUBSET RowRequest]]]
  BY DEF LockInv, TypeOK
<1>d. /\ heldTable[xid][oid] \cup {i} \in SUBSET TableRequest
      /\ heldRow[xid][oid][rid] \cup {lock_type} \in SUBSET RowRequest
  BY <1>c, <1>i
<1>h. /\ heldTable' \in [Xid -> [Table -> SUBSET TableRequest]]
      /\ \A x \in Xid, t \in Table : heldTable'[x][t] \subseteq heldTable[x][t] \cup {i}
      /\ \A x \in Xid, t \in Table : ~(x = xid /\ t = oid) => heldTable'[x][t] = heldTable[x][t]
      /\ \A x \in Xid, t \in Table : heldTable[x][t] \subseteq heldTable'[x][t]
  <2>1. CASE heldTable' = heldTable
    BY <2>1, <1>c
  <2>2. CASE heldTable' = [heldTable EXCEPT ![xid][oid] = heldTable[xid][oid] \cup {i}]
    <3>1. /\ heldTable' \in [Xid -> [Table -> SUBSET TableRequest]]
          /\ \A x \in Xid, t \in Table :
               heldTable'[x][t] = IF x = xid /\ t = oid THEN heldTable[xid][oid] \cup {i}
                                                        ELSE heldTable[x][t]
      BY <2>2, <1>c, <1>d, Except2
    <3> QED BY <3>1
  <2> QED BY <2>1, <2>2, <1>g
<1>k. /\ heldRow' \in [Xid -> [Table -> [Rid -> SUBSET RowRequest]]]
      /\ \A x \in Xid, t \in Table, r \in Rid :
           heldRow'[x][t][r] \subseteq heldRow[x][t][r] \cup {lock_type}
      /\ \A x \in Xid, t \in Table, r \in Rid :
           ~(x = xid /\ t = oid /\ r = rid) => heldRow'[x][t][r] = heldRow[x][t][r]
  <2>1. CASE heldRow' = heldRow
    BY <2>1, <1>c
  <2>2. CASE heldRow' = [heldRow EXCEPT ![xid][oid][rid] = heldRow[xid][oid][rid] \cup {lock_type}]
    <3>1. /\ heldRow' \in [Xid -> [Table -> [Rid -> SUBSET RowRequest]]]
          /\ \A x \in Xid, t \in Table, r \in Rid :
               heldRow'[x][t][r] = IF x = xid /\ t = oid /\ r = rid
                                     THEN heldRow[xid][oid][rid] \cup {lock_type}
                                     ELSE heldRow[x][t][r]
      BY <2>2, <1>c, <1>d, Except3
    <3>2. \A x \in Xid, t \in Table, r \in Rid :
            heldRow'[x][t][r] \subseteq heldRow[x][t][r] \cup {lock_type}
      BY <3>1
    <3>3. \A x \in Xid, t \in Table, r \in Rid :
            ~(x = xid /\ t = oid /\ r = rid) => heldRow'[x][t][r] = heldRow[x][t][r]
      BY <3>1
    <3> QED BY <3>1, <3>2, <3>3
  <2> QED BY <2>1, <2>2, <1>g
<1>t. /\ tableLocks' \in [Xid -> [Table -> LockType \cup {NoLock}]]
      /\ \A x \in Xid, t \in Table :
           tableLocks'[x][t] = IF x = xid /\ t = oid THEN e ELSE tableLocks[x][t]
  BY <1>1, <1>3, <1>c, Except2
<1>r. /\ rowLocks' \in [Xid -> [Table -> [Rid -> RowRequest \cup {NoLock}]]]
      /\ \A x \in Xid, t \in Table, r \in Rid :
           rowLocks'[x][t][r] = IF x = xid /\ t = oid /\ r = rid THEN f ELSE rowLocks[x][t][r]
  BY <1>2, <1>3, <1>c, Except3
<1>4. TypeOK'
  BY <1>h, <1>k, <1>t, <1>r DEF TypeOK
<1>5. GrantedStaysRecorded'
  <2>1. ASSUME NEW x \in Xid, NEW t \in Table, NEW a \in heldTable'[x][t]
        PROVE  Covers(tableLocks'[x][t], a)
    BY <1>1, <1>h, <1>t DEF LockInv, GrantedStaysRecorded
  <2>2. ASSUME NEW x \in Xid, NEW t \in Table, NEW r \in Rid, NEW a \in heldRow'[x][t][r]
        PROVE  Covers(rowLocks'[x][t][r], a)
    <3>1. CASE x = xid /\ t = oid /\ r = rid
      <4>1. rowLocks'[x][t][r] = f
        BY <3>1, <1>r
      <4>2. a \in heldRow[xid][oid][rid] \/ a = lock_type
        BY <2>2, <3>1, <1>k
      <4> QED BY <4>1, <4>2, <1>2
    <3>2. CASE ~(x = xid /\ t = oid /\ r = rid)
      <4>1. rowLocks'[x][t][r] = rowLocks[x][t][r]
        BY <3>2, <1>r
      <4>2. a \in heldRow[x][t][r]
        BY <2>2, <3>2, <1>k
      <4> QED BY <4>1, <4>2 DEF LockInv, GrantedStaysRecorded
    <3> QED BY <3>1, <3>2
  <2> QED BY <2>1, <2>2 DEF GrantedStaysRecorded, Covers
<1>6. GrantedCompatible'
  <2>1. ASSUME NEW x \in Xid, NEW y \in Xid, NEW t \in Table, x # y,
               NEW a \in heldTable'[x][t], NEW b \in heldTable'[y][t]
        PROVE  Compatible(a, b)
    <3>1. CASE a \in heldTable[x][t] /\ b \in heldTable[y][t]
      BY <2>1, <3>1 DEF LockInv, GrantedCompatible
    <3>2. CASE a \notin heldTable[x][t] \/ b \notin heldTable[y][t]
      <4>1. TableCompatible(xid, e, oid)
        BY <2>1, <3>2, <1>g
      <4>2. t = oid /\ ((x = xid /\ a = i) \/ (y = xid /\ b = i))
        BY <2>1, <3>2, <1>h
      <4> QED BY <2>1, <3>2, <4>1, <4>2, <1>1, <1>h
    <3> QED BY <3>1, <3>2
  <2>2. ASSUME NEW x \in Xid, NEW y \in Xid, NEW t \in Table, NEW r \in Rid, x # y,
               NEW a \in heldRow'[x][t][r], NEW b \in heldRow'[y][t][r]
        PROVE  Compatible(a, b)
    <3>1. CASE a \in heldRow[x][t][r] /\ b \in heldRow[y][t][r]
      BY <2>2, <3>1 DEF LockInv, GrantedCompatible
    <3>2. CASE a \notin heldRow[x][t][r] \/ b \notin heldRow[y][t][r]
      <4>1. RowCompatible(xid, f, oid, rid)
        BY <2>2, <3>2, <1>g
      <4>2. t = oid /\ r = rid /\ ((x = xid /\ a = lock_type) \/ (y = xid /\ b = lock_type))
        BY <2>2, <3>2, <1>k
      <4> QED BY <2>2, <3>2, <4>1, <4>2, <1>2, <1>k
    <3> QED BY <3>1, <3>2
  <2> QED BY <2>1, <2>2 DEF GrantedCompatible
<1>7. RowHasIntention'
  <2> SUFFICES ASSUME NEW x \in Xid, NEW t \in Table, NEW r \in Rid, NEW a \in heldRow'[x][t][r]
               PROVE  Intention(a) \in heldTable'[x][t]
    BY DEF RowHasIntention
  <2>1. CASE a \in heldRow[x][t][r]
    BY <2>1, <1>h DEF LockInv, RowHasIntention
  <2>2. CASE a \notin heldRow[x][t][r]
    <3>1. x = xid /\ t = oid /\ a = lock_type
      BY <2>2, <1>k
    <3>2. heldTable' = [heldTable EXCEPT ![xid][oid] = @ \cup {i}]
      BY <2>2, <1>g
    <3> QED BY <3>1, <3>2 DEF i, LockInv, TypeOK
  <2> QED BY <2>1, <2>2
<1> QED BY <1>4, <1>5, <1>6, <1>7 DEF LockInv

\* Dropping all entries and granted locks of one transaction preserves it.
LEMMA ReleaseLocksInv ==
  ASSUME LockInv, NEW xid \in Xid, ReleaseLocks(xid)
  PROVE  LockInv'
<1>1. TypeOK'
  BY DEF LockInv, TypeOK, ReleaseLocks
<1>2. /\ \A x \in Xid \ {xid} : /\ tableLocks'[x] = tableLocks[x]
                                /\ rowLocks'[x] = rowLocks[x]
                                /\ heldTable'[x] = heldTable[x]
                                /\ heldRow'[x] = heldRow[x]
  BY DEF LockInv, TypeOK, ReleaseLocks
<1>6. heldTable'[xid] = [t \in Table |-> {}] /\ heldRow'[xid] = [t \in Table |-> [r \in Rid |-> {}]]
  BY DEF LockInv, TypeOK, ReleaseLocks
<1>3. GrantedStaysRecorded'
  BY <1>2, <1>6 DEF LockInv, GrantedStaysRecorded
<1>4. GrantedCompatible'
  BY <1>2, <1>6 DEF LockInv, GrantedCompatible
<1>5. RowHasIntention'
  BY <1>2, <1>6 DEF LockInv, RowHasIntention
<1> QED BY <1>1, <1>3, <1>4, <1>5 DEF LockInv

\* Every reachable state of the lock manager satisfies the invariant.
THEOREM LockManagerInv == Spec => []LockInv
<1>1. LockInv /\ [Next]_vars => LockInv'
  <2> SUFFICES ASSUME LockInv, [Next]_vars PROVE LockInv'
    OBVIOUS
  <2>1. CASE UNCHANGED vars
    BY <2>1 DEF vars, LockInv, TypeOK, GrantedStaysRecorded, GrantedCompatible, RowHasIntention
  <2>2. CASE Next
    BY <2>2, LockTableInv, LockRowInv, ReleaseLocksInv DEF Next
  <2> QED BY <2>1, <2>2
<1> QED BY <1>1, InitInv, PTL DEF Spec

\* The lock table keeps its type: one entry per resource, S or X on rows.
THEOREM TypeCorrect == Spec => []TypeOK
<1>1. LockInv => TypeOK BY DEF LockInv
<1> QED BY <1>1, LockManagerInv, PTL

\* Locks granted to different transactions on one table or row are compatible.
THEOREM GrantedLocksCompatible == Spec => []GrantedCompatible
<1>1. LockInv => GrantedCompatible BY DEF LockInv
<1> QED BY <1>1, LockManagerInv, PTL

\* lock_map keeps excluding whatever a granted lock excludes.
THEOREM GrantedLocksRecorded == Spec => []GrantedStaysRecorded
<1>1. LockInv => GrantedStaysRecorded BY DEF LockInv
<1> QED BY <1>1, LockManagerInv, PTL

\* A table lock granted to one transaction excludes the row locks granted to
\* the others that conflict with it.
THEOREM TableLocksCoverRows == Spec => []TableLockCoversRows
<1>1. LockInv => TableLockCoversRows
  <2> SUFFICES ASSUME LockInv, NEW x \in Xid, NEW y \in Xid, NEW t \in Table, NEW r \in Rid, x # y
               PROVE  /\ "X" \in heldRow[x][t][r] => heldTable[y][t] \cap {"S", "X"} = {}
                      /\ "S" \in heldRow[x][t][r] => "X" \notin heldTable[y][t]
    BY DEF TableLockCoversRows
  <2>1. \A a \in heldRow[x][t][r], b \in heldTable[y][t] : Compatible(Intention(a), b)
    BY DEF LockInv, RowHasIntention, GrantedCompatible
  <2> QED BY <2>1 DEF Compatible, CompatibleWith, Intention
<1> QED BY <1>1, LockManagerInv, PTL
============================================================================
