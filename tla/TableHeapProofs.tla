-------------------------- MODULE TableHeapProofs --------------------------
(***************************************************************************)
(* Proofs about TableHeap: the chain of pages, the rids of the log and the *)
(* rows a scan sees, through rollbacks, crashes and recoveries.            *)
(***************************************************************************)
EXTENDS TableHeap, WellFoundedInduction, FiniteSetTheorems, TLAPS

----------------------------------------------------------------------------
(* The inductive invariant.                                                *)

SlotType == [row : Int, xmin : 0 .. MaxXid, xmax : 0 .. MaxXid]

PageType ==
  {page \in [lsn : 0 .. MaxLsn, next : 0 .. NULL_PAGE_ID, slots : Seq(SlotType), exists : BOOLEAN] :
     Len(page.slots) <= Capacity}

PagesType == [PageId -> PageType]

RecordType ==
  [type : {"BEGIN", "NEW_PAGE", "INSERT", "DELETE", "COMMIT", "ROLLBACK"}, xid : Xid,
   page : 0 .. NULL_PAGE_ID, prev : 0 .. NULL_PAGE_ID, slot : 0 .. Capacity, row : Int]

\* The types, which also hold when recovery has gone wrong.
Typed ==
  /\ pages \in PagesType /\ disk \in PagesType
  /\ log \in Seq(RecordType) /\ Len(log) <= MaxLsn
  /\ flushed_lsn_ \in 0 .. Len(log)
  /\ att_ \subseteq Xid /\ active \subseteq att_
  /\ dpt_ \in [PageId -> 0 .. MaxLsn]
  /\ checkpoint \in [pos : 0 .. MaxLsn, att : SUBSET Xid, dpt : [PageId -> 0 .. MaxLsn]]
  /\ checkpoint.pos <= flushed_lsn_
  /\ next_xid_ \in 1 .. MaxXid + 1 /\ control_xid \in 1 .. MaxXid + 1
  /\ undone \subseteq PageId
  /\ initial \in 0 .. Capacity

IsNewPage(r) == r.type = "NEW_PAGE"
IsInsert(r) == r.type = "INSERT"
IsDelete(r) == r.type = "DELETE"
IsEnd(r) == r.type \in {"COMMIT", "ROLLBACK"}

\* Two records of the same row.
SameRid(r, s) == r.page = s.page /\ r.slot = s.slot

\* What one record names.
RecordShape(r) ==
  /\ IsNewPage(r) => \/ r.page = 0 /\ r.prev = NULL_PAGE_ID
                     \/ r.page \in 1 .. MaxPage /\ r.prev = r.page - 1
  /\ IsInsert(r) \/ IsDelete(r) => r.page \in PageId /\ r.slot >= 1
  /\ r.page \in PageId => IsNewPage(r) \/ IsInsert(r) \/ IsDelete(r)

\* r before s in the log: pages are opened in order, a page is opened before
\* anything else happens to it, its slots are filled in order, a row is deleted
\* after it was inserted, and nothing follows the end of a transaction.
InOrder(r, s) ==
  /\ IsNewPage(r) /\ IsNewPage(s) => r.page < s.page
  /\ IsNewPage(s) => r.page # s.page
  /\ IsInsert(r) /\ IsInsert(s) /\ r.page = s.page => r.slot < s.slot
  /\ IsDelete(r) /\ IsInsert(s) => ~SameRid(r, s)
  /\ IsEnd(r) => r.xid # s.xid

LogShape(lg) ==
  /\ \A n \in DOMAIN lg : RecordShape(lg[n])
  /\ \A m, n \in DOMAIN lg : m < n => InOrder(lg[m], lg[n])

\* The transactions whose changes count.
Live == Committed(log) \cup active

\* The slot i of page p is of a row of the log, or was there at the start.
RowOf(p, i, s) ==
  \/ /\ s.row \in DOMAIN log /\ IsInsert(log[s.row])
     /\ log[s.row].page = p /\ log[s.row].slot = i /\ log[s.row].xid = s.xmin
  \/ p = 0 /\ i <= initial /\ s.row = -i /\ s.xmin = NULL_XID

RowsExact == \A p \in PageId : \A i \in DOMAIN pages[p].slots : RowOf(p, i, pages[p].slots[i])

InsertsPresent ==
  \A n \in DOMAIN log : IsInsert(log[n]) =>
    /\ log[n].slot \in DOMAIN pages[log[n].page].slots
    /\ pages[log[n].page].slots[log[n].slot].row = n

InitialPresent ==
  \A i \in 1 .. initial : i \in DOMAIN pages[0].slots /\ pages[0].slots[i].row = -i

\* Among the records K of a log, x has inserted or deleted the row at slot i
\* of page p, or opened page p.
InsertsIn(lg, K, x, p, i) ==
  \E n \in K : IsInsert(lg[n]) /\ lg[n].xid = x /\ lg[n].page = p /\ lg[n].slot = i
DeletesIn(lg, K, x, p, i) ==
  \E n \in K : IsDelete(lg[n]) /\ lg[n].xid = x /\ lg[n].page = p /\ lg[n].slot = i
OpensIn(lg, K, x, p) == \E n \in K : IsNewPage(lg[n]) /\ lg[n].xid = x /\ lg[n].page = p

Deletes(x, p, i) == DeletesIn(log, DOMAIN log, x, p, i)
OpenedBy(x, p) == OpensIn(log, DOMAIN log, x, p)

\* The rows of transactions that were undone carry their own mark, the others
\* that of the one transaction whose deletion counts.
MarkOf(p, i, s) ==
  IF s.xmin \in Live \cup {NULL_XID}
  THEN /\ s.xmax = NULL_XID \/ (s.xmax \in Live /\ Deletes(s.xmax, p, i))
       /\ \A x \in Live : Deletes(x, p, i) => s.xmax = x
  ELSE s.xmax = s.xmin

MarksExact == \A p \in PageId : \A i \in DOMAIN pages[p].slots : MarkOf(p, i, pages[p].slots[i])

\* Only rows that count are deleted, and by one transaction at a time.
DeletesExact ==
  /\ \A n \in DOMAIN log : IsDelete(log[n]) =>
       /\ log[n].slot \in DOMAIN pages[log[n].page].slots
       /\ LET s == pages[log[n].page].slots[log[n].slot] IN
          /\ log[n].row = s.row /\ s.row < n
          /\ s.xmin \in Committed(log) \cup {NULL_XID, log[n].xid}
  /\ \A m, n \in DOMAIN log :
       IsDelete(log[m]) /\ IsDelete(log[n]) /\ SameRid(log[m], log[n]) /\ m < n => log[m].xid \notin Live

RowsInv == RowsExact /\ InsertsPresent /\ InitialPresent /\ MarksExact /\ DeletesExact

Opened(p) == \E n \in DOMAIN log : IsNewPage(log[n]) /\ log[n].page = p
OpenedByRolledBack(p) == \E x \in RolledBack(log) : OpenedBy(x, p)

PagesExact ==
  /\ \A p \in PageId : pages[p].exists <=> Opened(p) \/ (p = 0 /\ initial > 0)
  /\ \A p \in PageId : ~pages[p].exists => pages[p] = NoPage
  /\ \A p \in 1 .. MaxPage : pages[p].exists => pages[p - 1].exists
  /\ initial > 0 => ~Opened(0)
  /\ \A n \in DOMAIN log : log[n].page \in PageId =>
       n <= flushed_lsn_ \/ n <= pages[log[n].page].lsn
  /\ \A p \in PageId : pages[p].lsn <= Len(log)

\* A link leads to a later page.
Forward(pg) == \A p \in PageId : pg[p].next \in p + 1 .. NULL_PAGE_ID

\* Where the links will lead after redo: a page opened and not rolled back
\* is linked again.
RelinkedIn(pg, lg) ==
  [p \in PageId |->
     [pg[p] EXCEPT !.next = IF \E x \in Xid \ RolledBack(lg) : OpensIn(lg, DOMAIN lg, x, p + 1) THEN p + 1 ELSE @]]
Relinked == RelinkedIn(pages, log)

LinksExact ==
  /\ Forward(pages)
  /\ \A p \in PageId : pages[p].next # NULL_PAGE_ID => pages[pages[p].next].exists
  /\ \A p \in 1 .. MaxPage : \A x \in Live : OpenedBy(x, p) => pages[p - 1].next = p
  /\ \A p \in PageId \ Chain(pages) : \A i \in DOMAIN pages[p].slots :
       pages[p].slots[i].xmin \notin Live \cup {NULL_XID}
  /\ \A p \in PageId \ Chain(Relinked) : \A i \in DOMAIN pages[p].slots :
       pages[p].slots[i].xmin \in RolledBack(log)
  /\ \A p \in 1 .. MaxPage - 1 : \A x \in active, y \in Xid :
       OpenedBy(x, p) /\ OpenedBy(y, p + 1) => y \in Live \cup RolledBack(log)
  /\ \A p \in Chain(Relinked) : pages[p].next \in Chain(Relinked) \cup {NULL_PAGE_ID}
  /\ \A p \in 1 .. MaxPage : \A y \in Xid \ (Live \cup RolledBack(log)), x \in active :
       OpenedBy(y, p) => ~OpenedBy(x, pages[p - 1].next)

\* The table file holds the first slots of each page.
DiskRows ==
  /\ \A p \in PageId : \A i \in DOMAIN disk[p].slots :
       /\ i \in DOMAIN pages[p].slots
       /\ disk[p].slots[i].row = pages[p].slots[i].row
       /\ disk[p].slots[i].xmin = pages[p].slots[i].xmin
       /\ disk[p].slots[i].row <= flushed_lsn_
  /\ \A i \in 1 .. initial : i \in DOMAIN disk[0].slots
  /\ \A p \in PageId : ~disk[p].exists => disk[p] = NoPage
  /\ \A p \in PageId : disk[p].exists =>
       \/ p = 0 /\ initial > 0
       \/ \E n \in 1 .. flushed_lsn_ : IsNewPage(log[n]) /\ log[n].page = p
  /\ initial > 0 => disk[0].exists
  /\ \A p \in PageId : disk[p].lsn <= flushed_lsn_
  /\ Forward(disk)
  /\ \A p \in 1 .. MaxPage : OpenedByRolledBack(p) /\ p - 1 \notin undone =>
       disk[p - 1].next = pages[p - 1].next

\* Its marks are of durable deletions, or of rows that were undone; those of
\* transactions that were rolled back are gone, except for pages in undone.
DiskMarks ==
  \A p \in PageId : \A i \in DOMAIN disk[p].slots :
    LET s == disk[p].slots[i] IN
    /\ \/ s.xmax = NULL_XID
       \/ s.xmax = s.xmin /\ s.xmin \notin Live
       \/ DeletesIn(log, 1 .. flushed_lsn_, s.xmax, p, i)
    /\ p \notin undone =>
         /\ s.xmin \in RolledBack(log) => s.xmax = s.xmin
         /\ s.xmax \in RolledBack(log) => s.xmax = s.xmin

\* The effect of a record is in the table file.
OnDisk(n) ==
  LET r == log[n]
      slots == disk[r.page].slots
  IN
  /\ IsNewPage(r) => disk[r.page].exists
  /\ IsInsert(r) => r.slot \in DOMAIN slots
  /\ IsDelete(r) /\ r.xid \in Live => r.slot \in DOMAIN slots /\ slots[r.slot].xmax = r.xid

\* What it misses is behind the page lsn and the recovery lsn of its page.
Coverage ==
  /\ \A n \in DOMAIN log : log[n].page \in PageId /\ ~OnDisk(n) =>
       /\ n > disk[log[n].page].lsn
       /\ InRange(dpt_, n)
       /\ n <= checkpoint.pos => InRange(checkpoint.dpt, n)
  /\ \A p \in PageId : dpt_[p] <= Len(log) /\ checkpoint.dpt[p] <= checkpoint.pos

\* The undone state of the transaction that wrote n is in the table file.
UndoneOnDisk(n) ==
  LET r == log[n]
      s == disk[r.page].slots[r.slot]
  IN
  r.slot \in DOMAIN disk[r.page].slots =>
    /\ IsInsert(r) => s.xmax = r.xid
    /\ IsDelete(r) /\ s.xmin # r.xid => s.xmax # r.xid

Ended == Committed(log) \cup RolledBack(log)

\* A transaction without an end that recovery no longer knows of is undone in
\* the table file, and redo leaves its records alone.
Settled(att, dpt, pos) ==
  \A n \in 1 .. pos :
    log[n].page \in PageId /\ log[n].xid \notin att \cup Ended => ~InRange(dpt, n) /\ UndoneOnDisk(n)

XactsExact ==
  /\ Committed(log) \cap RolledBack(log) = {}
  /\ att_ \cap Ended = {}
  /\ \A n \in DOMAIN log : IsEnd(log[n]) => n <= flushed_lsn_
  /\ \A n \in 1 .. checkpoint.pos :
       /\ IsEnd(log[n]) => log[n].xid \notin checkpoint.att
       /\ log[n].xid \in active => log[n].xid \in checkpoint.att

RecoverInv ==
  /\ DiskRows /\ DiskMarks /\ Coverage /\ XactsExact
  /\ Settled(att_, dpt_, Len(log))
  /\ Settled(checkpoint.att, checkpoint.dpt, checkpoint.pos)

Exact == LogShape(log) /\ RowsInv /\ PagesExact /\ LinksExact /\ RecoverInv

IInv == Typed /\ (gaps = {} => Exact)

----------------------------------------------------------------------------
(* Induction and iteration.                                                *)

\* A set of natural numbers that is not empty has a least element.
LEMMA LeastExists ==
  ASSUME NEW S, S \subseteq Nat, S # {}
  PROVE  \E m \in S : \A n \in S : m <= n
<1> DEFINE R == OpToRel(<, Nat)
<1>1. IsWellFoundedOn(R, Nat)
  BY NatLessThanWellFounded
<1>2. \A x, y \in Nat : <<x, y>> \in R <=> x < y
  BY DEF OpToRel
<1> HIDE DEF R
<1>3. PICK m \in S : \A y \in S : ~(<<y, m>> \in R)
  BY <1>1, WFMin
<1>4. ASSUME NEW y \in S PROVE m <= y
  <2>1. y \in Nat /\ m \in Nat /\ ~(<<y, m>> \in R)
    BY <1>3
  <2>2. ~(y < m)
    BY <2>1, <1>2
  <2> QED BY <2>1, <2>2
<1> QED BY <1>4

\* A set of numbers up to N that is not empty has a greatest element.
LEMMA GreatestExists ==
  ASSUME NEW N \in Nat, NEW S, S \subseteq 0 .. N, S # {}
  PROVE  \E m \in S : \A n \in S : n <= m
<1> DEFINE T == {N - n : n \in S}
<1>1. T \subseteq Nat /\ T # {}
  <2>1. \A n \in S : N - n \in Nat
    OBVIOUS
  <2> QED BY <2>1
<1>2. PICK t \in T : \A n \in T : t <= n
  <2> HIDE DEF T
  <2> QED BY <1>1, LeastExists
<1>3. PICK m \in S : t = N - m
  OBVIOUS
<1>4. ASSUME NEW n \in S PROVE n <= m
  <2>1. N - m <= N - n
    BY <1>2, <1>3
  <2>2. m \in Nat /\ n \in Nat
    OBVIOUS
  <2> QED BY <2>1, <2>2
<1> QED BY <1>4

\* Induction up to N, for the members of a set.
LEMMA UpTo ==
  ASSUME NEW N \in Nat, NEW T, 0 \in T, \A n \in 0 .. N - 1 : n \in T => n + 1 \in T
  PROVE  \A n \in 0 .. N : n \in T
<1> DEFINE B == {n \in 0 .. N : n \notin T}
<1> SUFFICES ASSUME B # {} PROVE FALSE
  OBVIOUS
<1>1. PICK m \in B : \A n \in B : m <= n
  <2>1. B \subseteq Nat
    OBVIOUS
  <2> HIDE DEF B
  <2> QED BY <2>1, LeastExists
<1>2. m # 0 /\ m \in 1 .. N /\ m - 1 \in 0 .. N - 1
  OBVIOUS
<1>3. m - 1 \in T
  <2>1. ~(m <= m - 1) /\ m - 1 \in 0 .. N
    BY <1>2
  <2> QED BY <1>1, <2>1
<1>4. (m - 1) + 1 = m
  BY <1>2
<1> QED BY <1>2, <1>3, <1>4

\* The same from N downwards.
LEMMA DownFrom ==
  ASSUME NEW N \in Nat, NEW T, N \in T, \A n \in 0 .. N - 1 : n + 1 \in T => n \in T
  PROVE  \A n \in 0 .. N : n \in T
<1> DEFINE U == {k \in 0 .. N : N - k \in T}
<1>1. 0 \in U
  OBVIOUS
<1>2. ASSUME NEW k \in 0 .. N - 1, k \in U PROVE k + 1 \in U
  <2> DEFINE j == N - (k + 1)
  <2>1. j \in 0 .. N - 1 /\ j + 1 = N - k /\ k + 1 \in 0 .. N
    OBVIOUS
  <2>2. j \in T
    <3> HIDE DEF j
    <3> QED BY <1>2, <2>1
  <2> QED BY <2>1, <2>2
<1>3. \A k \in 0 .. N : k \in U
  <2> HIDE DEF U
  <2> QED BY <1>1, <1>2, UpTo
<1>4. ASSUME NEW n \in 0 .. N PROVE n \in T
  <2>1. N - n \in 0 .. N /\ N - (N - n) = n
    OBVIOUS
  <2> QED BY <1>3, <2>1
<1> QED BY <1>4

\* f starts with a and continues with the steps G.
Runs(f, N, a, G) == f[0] = a /\ \A n \in 1 .. N : f[n] = G[n][f[n - 1]]

\* A function can be given by its first value and its steps.
LEMMA Iteration ==
  ASSUME NEW N \in Nat, NEW S, NEW a \in S, NEW G \in [1 .. N -> [S -> S]]
  PROVE  \E f \in [0 .. N -> S] : Runs(f, N, a, G)
<1> DEFINE IsRun(f, n) == f[0] = a /\ \A k \in 1 .. n : f[k] = G[k][f[k - 1]]
           T == {n \in 0 .. N : \E f \in [0 .. n -> S] : IsRun(f, n)}
<1>1. 0 \in T
  <2> DEFINE f == [k \in 0 .. 0 |-> a]
  <2>1. f \in [0 .. 0 -> S] /\ f[0] = a /\ 1 .. 0 = {}
    OBVIOUS
  <2>2. IsRun(f, 0)
    BY <2>1
  <2> HIDE DEF f, IsRun
  <2> QED BY <2>1, <2>2
<1>2. ASSUME NEW n \in 0 .. N - 1, n \in T PROVE n + 1 \in T
  <2>1. PICK f \in [0 .. n -> S] : IsRun(f, n)
    BY <1>2
  <2> DEFINE g == [k \in 0 .. n + 1 |-> IF k = n + 1 THEN G[n + 1][f[n]] ELSE f[k]]
  <2>2. n + 1 \in 1 .. N /\ n \in 0 .. n
    OBVIOUS
  <2>3. f[n] \in S /\ G[n + 1] \in [S -> S] /\ G[n + 1][f[n]] \in S
    BY <2>2
  <2>4. g \in [0 .. n + 1 -> S]
    <3>1. \A k \in 0 .. n + 1 : k # n + 1 => k \in 0 .. n
      OBVIOUS
    <3> QED BY <2>3, <3>1
  <2>5. g[0] = a
    BY <2>1
  <2>6. ASSUME NEW k \in 1 .. n + 1 PROVE g[k] = G[k][g[k - 1]]
    <3>1. k \in 0 .. n + 1 /\ k - 1 \in 0 .. n + 1 /\ k - 1 \in 0 .. n /\ k - 1 # n + 1
      OBVIOUS
    <3>2. g[k - 1] = f[k - 1]
      BY <3>1
    <3>3. CASE k = n + 1
      BY <3>1, <3>2, <3>3
    <3>4. CASE k # n + 1
      <4>1. k \in 1 .. n /\ g[k] = f[k]
        BY <3>1, <3>4
      <4> QED BY <2>1, <3>2, <4>1
    <3> QED BY <3>3, <3>4
  <2>7. IsRun(g, n + 1)
    BY <2>5, <2>6
  <2>8. n + 1 \in 0 .. N
    OBVIOUS
  <2> HIDE DEF g, IsRun
  <2> QED BY <2>8, <2>4, <2>7
<1>3. N \in T
  <2>1. \A n \in 0 .. N : n \in T
    <3> HIDE DEF T
    <3> QED BY <1>1, <1>2, UpTo
  <2> QED BY <2>1
<1>4. PICK f \in [0 .. N -> S] : IsRun(f, N)
  BY <1>3
<1>5. Runs(f, N, a, G)
  BY <1>4 DEF Runs
<1> QED BY <1>5

----------------------------------------------------------------------------
(* The types of pages and slots.                                           *)

LEMMA PageFacts ==
  ASSUME NEW pg \in PagesType, NEW p \in PageId
  PROVE  /\ pg[p] \in PageType
         /\ pg[p].lsn \in 0 .. MaxLsn /\ pg[p].next \in 0 .. NULL_PAGE_ID /\ pg[p].exists \in BOOLEAN
         /\ pg[p].slots \in Seq(SlotType) /\ Len(pg[p].slots) \in Nat /\ Len(pg[p].slots) <= Capacity
         /\ DOMAIN pg[p].slots = 1 .. Len(pg[p].slots)
<1>1. pg[p] \in PageType
  BY DEF PagesType
<1> QED BY <1>1 DEF PageType

LEMMA SlotFacts ==
  ASSUME NEW pg \in PagesType, NEW p \in PageId, NEW i \in DOMAIN pg[p].slots
  PROVE  /\ pg[p].slots[i] \in SlotType
         /\ pg[p].slots[i].row \in Int
         /\ pg[p].slots[i].xmin \in 0 .. MaxXid /\ pg[p].slots[i].xmax \in 0 .. MaxXid
         /\ i \in 1 .. Capacity
<1>1. pg[p].slots \in Seq(SlotType) /\ i \in 1 .. Len(pg[p].slots) /\ Len(pg[p].slots) <= Capacity
      /\ Len(pg[p].slots) \in Nat /\ Capacity \in Nat
  BY PageFacts, HeapBounds
<1>2. pg[p].slots[i] \in SlotType
  BY <1>1
<1> QED BY <1>1, <1>2 DEF SlotType

----------------------------------------------------------------------------
(* What undoing does to the pages.                                         *)

\* q has the rows of pg, with other marks and links perhaps.
SameRows(pg, q) ==
  \A p \in PageId :
    /\ q[p].lsn = pg[p].lsn /\ q[p].exists = pg[p].exists
    /\ DOMAIN q[p].slots = DOMAIN pg[p].slots
    /\ \A i \in DOMAIN pg[p].slots :
         q[p].slots[i].row = pg[p].slots[i].row /\ q[p].slots[i].xmin = pg[p].slots[i].xmin

LEMMA PageIntro ==
  ASSUME NEW lsn \in 0 .. MaxLsn, NEW next \in 0 .. NULL_PAGE_ID, NEW slots \in Seq(SlotType),
         Len(slots) <= Capacity, NEW exists \in BOOLEAN
  PROVE  [lsn |-> lsn, next |-> next, slots |-> slots, exists |-> exists] \in PageType
  BY DEF PageType

LEMMA SetXmaxEffect ==
  ASSUME NEW pg \in PagesType, NEW r \in RecordType, NEW x \in 0 .. MaxXid
  PROVE  LET q == SetXmax(pg, r, x) IN
         /\ q \in PagesType
         /\ SameRows(pg, q)
         /\ \A p \in PageId : q[p].next = pg[p].next
         /\ \A p \in PageId : \A i \in DOMAIN pg[p].slots :
              q[p].slots[i].xmax = IF p = r.page /\ i = r.slot THEN x ELSE pg[p].slots[i].xmax
<1> DEFINE q == SetXmax(pg, r, x)
           marked(p) == [pg[p].slots EXCEPT ![r.slot] = [@ EXCEPT !.xmax = x]]
<1>1. ASSUME NEW p \in PageId
      PROVE  /\ pg[p] \in PageType /\ pg[p].slots \in Seq(SlotType) /\ Len(pg[p].slots) <= Capacity
             /\ pg[p].lsn \in 0 .. MaxLsn /\ pg[p].next \in 0 .. NULL_PAGE_ID /\ pg[p].exists \in BOOLEAN
             /\ pg[p] = [lsn |-> pg[p].lsn, next |-> pg[p].next, slots |-> pg[p].slots, exists |-> pg[p].exists]
  BY DEF PagesType, PageType
<1>2. ASSUME NEW p \in PageId
      PROVE  /\ marked(p) \in Seq(SlotType) /\ Len(marked(p)) = Len(pg[p].slots)
             /\ DOMAIN marked(p) = DOMAIN pg[p].slots
             /\ \A i \in DOMAIN pg[p].slots :
                  /\ marked(p)[i].row = pg[p].slots[i].row /\ marked(p)[i].xmin = pg[p].slots[i].xmin
                  /\ marked(p)[i].xmax = IF i = r.slot THEN x ELSE pg[p].slots[i].xmax
  <2>1. pg[p].slots \in Seq(SlotType)
    BY <1>1
  <2> DEFINE s == pg[p].slots
  <2>2. \A i \in 1 .. Len(s) : s[i] \in SlotType
    BY <2>1
  <2>3. \A i \in 1 .. Len(s) : [s[i] EXCEPT !.xmax = x] \in SlotType
    BY <2>2 DEF SlotType
  <2>4. marked(p) \in [1 .. Len(s) -> SlotType]
    <3>1. marked(p) = [i \in 1 .. Len(s) |-> IF i = r.slot THEN [s[i] EXCEPT !.xmax = x] ELSE s[i]]
      <4>1. DOMAIN s = 1 .. Len(s)
        BY <2>1
      <4>2. marked(p) = [i \in DOMAIN s |-> IF i = r.slot THEN [s[i] EXCEPT !.xmax = x] ELSE s[i]]
        BY Zenon
      <4> QED BY <4>1, <4>2
    <3> HIDE DEF marked
    <3> QED BY <2>2, <2>3, <3>1
  <2>5. ASSUME NEW i \in 1 .. Len(s)
        PROVE  /\ marked(p)[i].row = s[i].row /\ marked(p)[i].xmin = s[i].xmin
               /\ marked(p)[i].xmax = IF i = r.slot THEN x ELSE s[i].xmax
    <3>1. marked(p)[i] = IF i = r.slot THEN [s[i] EXCEPT !.xmax = x] ELSE s[i]
      BY <2>1
    <3>2. s[i] \in SlotType
      BY <2>2
    <3> QED BY <3>1, <3>2 DEF SlotType
  <2>6. marked(p) \in Seq(SlotType) /\ Len(marked(p)) = Len(s) /\ DOMAIN s = 1 .. Len(s)
        /\ DOMAIN marked(p) = 1 .. Len(s)
    BY <2>1, <2>4
  <2> QED BY <2>5, <2>6
<1>3. ASSUME NEW p \in PageId
      PROVE  q[p] = IF p = r.page THEN [pg[p] EXCEPT !.slots = marked(p)] ELSE pg[p]
  BY DEF SetXmax, PagesType
<1>4. DOMAIN q = PageId /\ q = [p \in PageId |-> q[p]]
  BY DEF SetXmax, PagesType
<1> HIDE DEF q, marked
<1>5. ASSUME NEW p \in PageId
      PROVE  /\ q[p] \in PageType
             /\ q[p].lsn = pg[p].lsn /\ q[p].next = pg[p].next /\ q[p].exists = pg[p].exists
             /\ q[p].slots = IF p = r.page THEN marked(p) ELSE pg[p].slots
  <2>1. CASE p = r.page
    <3>1. q[p] = [pg[p] EXCEPT !.slots = marked(p)]
      BY <1>3, <2>1
    <3>2. q[p] = [lsn |-> pg[p].lsn, next |-> pg[p].next, slots |-> marked(p), exists |-> pg[p].exists]
      BY <1>1, <3>1
    <3>3. marked(p) \in Seq(SlotType) /\ Len(marked(p)) <= Capacity
      BY <1>1, <1>2
    <3>4. q[p] \in PageType
      BY <1>1, <3>2, <3>3, PageIntro
    <3> QED BY <2>1, <3>2, <3>4
  <2>2. CASE p # r.page
    BY <1>1, <1>3, <2>2
  <2> QED BY <2>1, <2>2
<1>6. q \in PagesType
  BY <1>4, <1>5 DEF PagesType
<1>7. SameRows(pg, q)
  BY <1>2, <1>5 DEF SameRows
<1>8. ASSUME NEW p \in PageId PROVE q[p].next = pg[p].next
  BY <1>5
<1>9. ASSUME NEW p \in PageId, NEW i \in DOMAIN pg[p].slots
      PROVE  q[p].slots[i].xmax = IF p = r.page /\ i = r.slot THEN x ELSE pg[p].slots[i].xmax
  BY <1>2, <1>5
<1>10. q = SetXmax(pg, r, x)
  BY DEF q
<1> QED BY <1>6, <1>7, <1>8, <1>9, <1>10

\* The effect of undoing one record.
UndoEffect(r, pg, q) ==
  /\ q \in PagesType
  /\ SameRows(pg, q)
  /\ \A p \in PageId : q[p].next = IF IsNewPage(r) /\ r.prev = p THEN pg[r.page].next ELSE pg[p].next
  /\ \A p \in PageId : \A i \in DOMAIN pg[p].slots :
       q[p].slots[i].xmax = IF p = r.page /\ i = r.slot /\ IsInsert(r) THEN r.xid
                            ELSE IF p = r.page /\ i = r.slot /\ IsDelete(r) THEN NULL_XID
                            ELSE pg[p].slots[i].xmax

LEMMA UndoRecordEffect ==
  ASSUME NEW pg \in PagesType, NEW r \in RecordType, RecordShape(r)
  PROVE  UndoEffect(r, pg, UndoRecord(r, pg))
<1> USE HeapBounds
<1>1. r.xid \in 0 .. MaxXid /\ 0 \in 0 .. MaxXid
  BY DEF RecordType, Xid
<1>2. CASE IsInsert(r)
  <2>1. UndoRecord(r, pg) = SetXmax(pg, r, r.xid) /\ ~IsNewPage(r) /\ ~IsDelete(r)
    BY <1>2 DEF IsInsert, IsNewPage, IsDelete, UndoRecord
  <2> QED BY <1>1, <1>2, <2>1, SetXmaxEffect DEF UndoEffect
<1>3. CASE IsDelete(r)
  <2>1. UndoRecord(r, pg) = SetXmax(pg, r, NULL_XID) /\ ~IsNewPage(r) /\ ~IsInsert(r)
    BY <1>3 DEF IsInsert, IsNewPage, IsDelete, UndoRecord
  <2> QED BY <1>1, <1>3, <2>1, SetXmaxEffect DEF UndoEffect, NULL_XID
<1>4. CASE IsNewPage(r) /\ r.prev # NULL_PAGE_ID
  <2> DEFINE q == [pg EXCEPT ![r.prev].next = pg[r.page].next]
  <2>1. UndoRecord(r, pg) = q /\ ~IsDelete(r) /\ ~IsInsert(r)
    BY <1>4 DEF IsInsert, IsNewPage, IsDelete, UndoRecord
  <2>2. r.page \in PageId /\ r.prev \in PageId
    BY <1>4 DEF RecordShape, PageId, NULL_PAGE_ID
  <2>3. \A p \in PageId : pg[p] \in PageType
    BY DEF PagesType
  <2>4. ASSUME NEW p \in PageId
        PROVE  /\ q[p] \in PageType
               /\ q[p] = [pg[p] EXCEPT !.next = IF p = r.prev THEN pg[r.page].next ELSE @]
    BY <2>2, <2>3 DEF PagesType, PageType
  <2>5. q \in PagesType
    BY <2>4 DEF PagesType
  <2>6. ASSUME NEW p \in PageId
        PROVE  /\ q[p].lsn = pg[p].lsn /\ q[p].exists = pg[p].exists /\ q[p].slots = pg[p].slots
               /\ q[p].next = IF p = r.prev THEN pg[r.page].next ELSE pg[p].next
    BY <2>3, <2>4 DEF PageType
  <2>7. SameRows(pg, q)
    BY <2>6 DEF SameRows
  <2> HIDE DEF q
  <2> QED BY <2>1, <2>5, <2>6, <2>7, <1>4 DEF UndoEffect
<1>5. CASE ~IsInsert(r) /\ ~IsDelete(r) /\ ~(IsNewPage(r) /\ r.prev # NULL_PAGE_ID)
  <2>1. UndoRecord(r, pg) = pg
    BY <1>5 DEF IsInsert, IsNewPage, IsDelete, UndoRecord
  <2>2. \A p \in PageId : IsNewPage(r) => r.prev # p
    BY <1>5 DEF PageId, NULL_PAGE_ID
  <2> QED BY <1>5, <2>1, <2>2 DEF UndoEffect, SameRows
<1> QED BY <1>2, <1>3, <1>4, <1>5

\* The walk over the log of a rollback, record by record.
UndoStep(lg, x, n, pg) == IF lg[n].xid = x THEN UndoRecord(lg[n], pg) ELSE pg

LEMMA UndoStepType ==
  ASSUME NEW lg \in Seq(RecordType), NEW n \in 1 .. Len(lg), RecordShape(lg[n]), NEW x,
         NEW pg \in PagesType
  PROVE  UndoStep(lg, x, n, pg) \in PagesType
<1>1. lg[n] \in RecordType
  OBVIOUS
<1> QED BY <1>1, UndoRecordEffect DEF UndoStep, UndoEffect

LEMMA RollbackRun ==
  ASSUME NEW pg \in PagesType, NEW lg \in Seq(RecordType), \A n \in DOMAIN lg : RecordShape(lg[n]), NEW x
  PROVE  \E u \in [0 .. Len(lg) -> PagesType] :
           /\ u[Len(lg)] = pg
           /\ \A n \in 0 .. Len(lg) - 1 : u[n] = UndoStep(lg, x, n + 1, u[n + 1])
           /\ RolledBackPages(pg, lg, x) = u[0]
<1> DEFINE N == Len(lg)
           G == [k \in 1 .. N |-> [q \in PagesType |-> UndoStep(lg, x, N + 1 - k, q)]]
           F(f) == [n \in 0 .. N |-> IF n = N THEN pg
                                     ELSE IF lg[n + 1].xid = x THEN UndoRecord(lg[n + 1], f[n + 1])
                                     ELSE f[n + 1]]
<1>1. N \in Nat
  OBVIOUS
<1>2. \A k \in 1 .. N : N + 1 - k \in 1 .. N
  BY <1>1
<1>3. G \in [1 .. N -> [PagesType -> PagesType]]
  <2>1. ASSUME NEW k \in 1 .. N, NEW q \in PagesType PROVE UndoStep(lg, x, N + 1 - k, q) \in PagesType
    BY <1>2, UndoStepType
  <2> HIDE DEF N
  <2> QED BY <2>1
<1>4. PICK g \in [0 .. N -> PagesType] : Runs(g, N, pg, G)
  <2>1. pg \in PagesType
    OBVIOUS
  <2> HIDE DEF G, N
  <2> QED BY <1>1, <1>3, <2>1, Iteration
<1> DEFINE u == [n \in 0 .. N |-> g[N - n]]
<1>5. u \in [0 .. N -> PagesType] /\ u[N] = pg
  BY <1>1, <1>4 DEF Runs
<1>6. ASSUME NEW n \in 0 .. N - 1 PROVE u[n] = UndoStep(lg, x, n + 1, u[n + 1])
  <2> DEFINE k == N - n
  <2>1. k \in 1 .. N /\ n + 1 \in 0 .. N /\ n \in 0 .. N /\ k - 1 = N - (n + 1) /\ N + 1 - k = n + 1
        /\ k - 1 \in 0 .. N
    BY <1>1
  <2>2. u[n] = g[k] /\ u[n + 1] = g[k - 1]
    BY <2>1
  <2>3. g[k] = G[k][g[k - 1]] /\ g[k - 1] \in PagesType
    BY <1>4, <2>1 DEF Runs
  <2>4. G[k][g[k - 1]] = UndoStep(lg, x, N + 1 - k, g[k - 1])
    BY <2>1, <2>3
  <2> QED BY <2>1, <2>2, <2>3, <2>4
<1> HIDE DEF G
<1>7. ASSUME NEW f, f = F(f) PROVE f = u
  <2> DEFINE T == {n \in 0 .. N : f[n] = u[n]}
  <2>0. /\ f[N] = pg
        /\ \A n \in 0 .. N - 1 : f[n] = UndoStep(lg, x, n + 1, f[n + 1])
        /\ DOMAIN f = 0 .. N
    <3>1. \A n \in 0 .. N : F(f)[n] = IF n = N THEN pg
                                     ELSE IF lg[n + 1].xid = x THEN UndoRecord(lg[n + 1], f[n + 1])
                                     ELSE f[n + 1]
      OBVIOUS
    <3>2. DOMAIN F(f) = 0 .. N
      OBVIOUS
    <3> HIDE DEF F, N
    <3> QED BY <1>1, <1>7, <3>1, <3>2 DEF UndoStep
  <2>1. N \in T
    BY <1>1, <1>5, <2>0
  <2>2. ASSUME NEW n \in 0 .. N - 1, n + 1 \in T PROVE n \in T
    <3>1. u[n] = UndoStep(lg, x, n + 1, u[n + 1]) /\ f[n] = UndoStep(lg, x, n + 1, f[n + 1])
      BY <1>6, <2>0
    <3>2. f[n + 1] = u[n + 1] /\ n \in 0 .. N
      BY <1>1, <2>2
    <3> HIDE DEF u, N
    <3> QED BY <3>1, <3>2
  <2>3. \A n \in 0 .. N : n \in T
    <3> HIDE DEF T, N
    <3> QED BY <1>1, <2>1, <2>2, DownFrom
  <2>4. f = [n \in 0 .. N |-> f[n]]
    <3>1. F(f) = [n \in 0 .. N |-> F(f)[n]]
      OBVIOUS
    <3> HIDE DEF F, N
    <3> QED BY <3>1, <1>7
  <2>5. \A n \in 0 .. N : f[n] = u[n]
    BY <2>3
  <2> HIDE DEF F, T
  <2> QED BY <2>4, <2>5
<1>8. u = F(u)
  <2>1. \A n \in 0 .. N : u[n] = F(u)[n]
    <3>1. ASSUME NEW n \in 0 .. N PROVE u[n] = F(u)[n]
      <4>1. F(u)[n] = IF n = N THEN pg
                      ELSE IF lg[n + 1].xid = x THEN UndoRecord(lg[n + 1], u[n + 1]) ELSE u[n + 1]
        OBVIOUS
      <4>2. n # N => n \in 0 .. N - 1
        BY <1>1
      <4> HIDE DEF F, N, u
      <4> QED BY <1>5, <1>6, <4>1, <4>2 DEF UndoStep
    <3> QED BY <3>1
  <2>2. F(u) = [n \in 0 .. N |-> F(u)[n]]
    OBVIOUS
  <2> HIDE DEF F
  <2> QED BY <2>1, <2>2
<1> DEFINE c == CHOOSE f : f = F(f)
<1>9. c = u
  <2>1. c = F(c)
    <3> HIDE DEF F, u
    <3> QED BY <1>8
  <2> HIDE DEF c, F, u
  <2> QED BY <1>7, <2>1
<1>10. RolledBackPages(pg, lg, x) = c[0]
  BY DEF RolledBackPages
<1> HIDE DEF c, F, u
<1> QED BY <1>5, <1>6, <1>9, <1>10

\* The effect of undoing the records K of x: its rows carry its mark, those it had
\* deleted have none, and the pages it had opened are bypassed.
UndoneEffect(pg, lg, K, x, q) ==
  /\ q \in PagesType
  /\ SameRows(pg, q)
  /\ \A p \in PageId : q[p].next = IF OpensIn(lg, K, x, p + 1) THEN q[p + 1].next ELSE pg[p].next
  /\ \A p \in PageId : \A i \in DOMAIN pg[p].slots :
       q[p].slots[i].xmax = IF InsertsIn(lg, K, x, p, i) THEN x
                            ELSE IF DeletesIn(lg, K, x, p, i) THEN NULL_XID
                            ELSE pg[p].slots[i].xmax

LEMMA NewPageShape ==
  ASSUME NEW r, RecordShape(r), IsNewPage(r), NEW p \in PageId
  PROVE  r.page \in PageId /\ (r.prev = p <=> r.page = p + 1) /\ r.page # r.prev
<1>1. MaxPage \in Nat
  BY HeapBounds
<1>2. CASE r.page = 0 /\ r.prev = NULL_PAGE_ID
  BY <1>1, <1>2 DEF PageId, NULL_PAGE_ID
<1>3. CASE r.page \in 1 .. MaxPage /\ r.prev = r.page - 1
  BY <1>1, <1>3 DEF PageId, NULL_PAGE_ID
<1> QED BY <1>2, <1>3 DEF RecordShape

LEMMA SameRowsTrans ==
  ASSUME NEW a, NEW b, NEW c, SameRows(a, b), SameRows(b, c)
  PROVE  SameRows(a, c)
  BY DEF SameRows

LEMMA UndoneStep ==
  ASSUME NEW pg \in PagesType, NEW lg \in Seq(RecordType), LogShape(lg), NEW x,
         NEW n \in 0 .. Len(lg) - 1, NEW q, UndoneEffect(pg, lg, n + 2 .. Len(lg), x, q)
  PROVE  UndoneEffect(pg, lg, n + 1 .. Len(lg), x, UndoStep(lg, x, n + 1, q))
<1> DEFINE N == Len(lg)
           J == n + 2 .. N
           K == n + 1 .. N
           r == lg[n + 1]
           v == UndoStep(lg, x, n + 1, q)
<1>0. /\ n \in Nat /\ N \in Nat /\ n + 1 \in K /\ J \subseteq K
      /\ \A k \in K : k \in DOMAIN lg /\ (k = n + 1 \/ (k \in J /\ n + 1 < k))
  OBVIOUS
<1>1. r \in RecordType /\ RecordShape(r) /\ n + 1 \in DOMAIN lg
  BY DEF LogShape
<1>2. q \in PagesType /\ SameRows(pg, q)
  BY DEF UndoneEffect
<1> HIDE DEF N, J, K
<1>3. CASE r.xid # x
  <2>1. v = q
    BY <1>3 DEF UndoStep
  <2>2. ASSUME NEW p, NEW i
        PROVE  /\ OpensIn(lg, K, x, p) <=> OpensIn(lg, J, x, p)
               /\ InsertsIn(lg, K, x, p, i) <=> InsertsIn(lg, J, x, p, i)
               /\ DeletesIn(lg, K, x, p, i) <=> DeletesIn(lg, J, x, p, i)
    BY <1>0, <1>3 DEF OpensIn, InsertsIn, DeletesIn
  <2> HIDE DEF v
  <2>3. UndoneEffect(pg, lg, J, x, q)
    BY DEF J, N
  <2>4. UndoneEffect(pg, lg, K, x, v)
    BY <2>1, <2>2, <2>3 DEF UndoneEffect
  <2> QED BY <2>4 DEF K, N, v
<1>4. CASE r.xid = x
  <2>1. UndoEffect(r, q, v)
    BY <1>1, <1>2, <1>4, UndoRecordEffect DEF UndoStep
  <2> HIDE DEF v
  <2>2. v \in PagesType /\ SameRows(q, v)
    BY <2>1 DEF UndoEffect
  <2>3. SameRows(pg, v)
    BY <1>2, <2>2, SameRowsTrans
  <2>4. UndoneEffect(pg, lg, J, x, q)
    BY DEF J, N
  <2>5. ASSUME NEW p \in PageId
        PROVE  v[p].next = IF OpensIn(lg, K, x, p + 1) THEN v[p + 1].next ELSE pg[p].next
    <3>1. \A o \in PageId : v[o].next = IF IsNewPage(r) /\ r.prev = o THEN q[r.page].next ELSE q[o].next
      BY <2>1 DEF UndoEffect
    <3>2. q[p].next = IF OpensIn(lg, J, x, p + 1) THEN q[p + 1].next ELSE pg[p].next
      BY <2>4 DEF UndoneEffect
    <3>3. IsNewPage(r) => r.page \in PageId /\ (r.prev = p <=> r.page = p + 1) /\ r.page # r.prev
      BY <1>1, NewPageShape
    <3>4. ASSUME IsNewPage(r), OpensIn(lg, J, x, p + 1) PROVE r.page < p + 1
      <4>1. PICK k \in J : IsNewPage(lg[k]) /\ lg[k].page = p + 1
        BY <3>4 DEF OpensIn
      <4>2. k \in DOMAIN lg /\ n + 1 < k
        BY <1>0, <4>1 DEF J
      <4>3. InOrder(r, lg[k])
        BY <1>1, <4>2 DEF LogShape
      <4> QED BY <3>4, <4>1, <4>3 DEF InOrder
    <3>5. OpensIn(lg, K, x, p + 1) <=> OpensIn(lg, J, x, p + 1) \/ (IsNewPage(r) /\ r.page = p + 1)
      BY <1>0, <1>4 DEF OpensIn
    <3>6. CASE IsNewPage(r) /\ r.page = p + 1
      <4>1. v[p].next = q[r.page].next /\ r.prev # r.page
        BY <3>1, <3>3, <3>6
      <4>2. v[r.page].next = q[r.page].next
        BY <3>1, <3>3, <3>6
      <4> QED BY <3>5, <3>6, <4>1, <4>2
    <3>7. CASE ~(IsNewPage(r) /\ r.page = p + 1) /\ OpensIn(lg, J, x, p + 1)
      <4>1. v[p].next = q[p].next /\ q[p].next = q[p + 1].next
        BY <3>1, <3>2, <3>3, <3>7
      <4>2. p + 1 \in PageId
        <5>1. PICK k \in J : IsNewPage(lg[k]) /\ lg[k].page = p + 1
          BY <3>7 DEF OpensIn
        <5>2. RecordShape(lg[k])
          BY <1>0, <5>1 DEF LogShape
        <5> QED BY <5>1, <5>2, HeapBounds DEF RecordShape, PageId
      <4>3. v[p + 1].next = q[p + 1].next
        <5>1. ~(IsNewPage(r) /\ r.prev = p + 1)
          <6> SUFFICES ASSUME IsNewPage(r), r.prev = p + 1 PROVE FALSE
            OBVIOUS
          <6>1. r.page = (p + 1) + 1 /\ r.page < p + 1
            BY <1>1, <3>4, <3>7, <4>2, NewPageShape
          <6> QED BY <6>1 DEF PageId
        <5> QED BY <3>1, <4>2, <5>1
      <4> QED BY <3>5, <3>7, <4>1, <4>3
    <3>8. CASE ~(IsNewPage(r) /\ r.page = p + 1) /\ ~OpensIn(lg, J, x, p + 1)
      BY <3>1, <3>2, <3>3, <3>5, <3>8
    <3> QED BY <3>6, <3>7, <3>8
  <2>6. ASSUME NEW p \in PageId, NEW i \in DOMAIN pg[p].slots
        PROVE  v[p].slots[i].xmax = IF InsertsIn(lg, K, x, p, i) THEN x
                                    ELSE IF DeletesIn(lg, K, x, p, i) THEN NULL_XID
                                    ELSE pg[p].slots[i].xmax
    <3>1. i \in DOMAIN q[p].slots
      BY <1>2 DEF SameRows
    <3>2. v[p].slots[i].xmax = IF p = r.page /\ i = r.slot /\ IsInsert(r) THEN x
                               ELSE IF p = r.page /\ i = r.slot /\ IsDelete(r) THEN NULL_XID
                               ELSE q[p].slots[i].xmax
      BY <1>4, <2>1, <3>1 DEF UndoEffect
    <3>3. q[p].slots[i].xmax = IF InsertsIn(lg, J, x, p, i) THEN x
                               ELSE IF DeletesIn(lg, J, x, p, i) THEN NULL_XID
                               ELSE pg[p].slots[i].xmax
      BY <2>4 DEF UndoneEffect
    <3>4. InsertsIn(lg, K, x, p, i) <=>
            InsertsIn(lg, J, x, p, i) \/ (IsInsert(r) /\ r.page = p /\ r.slot = i)
      BY <1>0, <1>4 DEF InsertsIn
    <3>5. DeletesIn(lg, K, x, p, i) <=>
            DeletesIn(lg, J, x, p, i) \/ (IsDelete(r) /\ r.page = p /\ r.slot = i)
      BY <1>0, <1>4 DEF DeletesIn
    <3>6. ASSUME IsDelete(r), r.page = p, r.slot = i PROVE ~InsertsIn(lg, J, x, p, i)
      <4> SUFFICES ASSUME NEW k \in J, IsInsert(lg[k]), lg[k].page = p, lg[k].slot = i PROVE FALSE
        BY DEF InsertsIn
      <4>1. k \in DOMAIN lg /\ n + 1 < k
        BY <1>0 DEF J
      <4>2. InOrder(r, lg[k])
        BY <1>1, <4>1 DEF LogShape
      <4> QED BY <3>6, <4>2 DEF InOrder, SameRid
    <3>7. IsDelete(r) => ~IsInsert(r)
      BY DEF IsDelete, IsInsert
    <3> QED BY <3>2, <3>3, <3>4, <3>5, <3>6, <3>7
  <2>7. UndoneEffect(pg, lg, K, x, v)
    BY <2>2, <2>3, <2>5, <2>6 DEF UndoneEffect
  <2> QED BY <2>7 DEF K, N, v
<1> QED BY <1>3, <1>4

LEMMA RollbackEffect ==
  ASSUME NEW pg \in PagesType, NEW lg \in Seq(RecordType), LogShape(lg), NEW x
  PROVE  UndoneEffect(pg, lg, DOMAIN lg, x, RolledBackPages(pg, lg, x))
<1> DEFINE N == Len(lg)
<1>1. N \in Nat /\ DOMAIN lg = 1 .. N
  OBVIOUS
<1>2. PICK u \in [0 .. N -> PagesType] :
        /\ u[N] = pg
        /\ \A n \in 0 .. N - 1 : u[n] = UndoStep(lg, x, n + 1, u[n + 1])
        /\ RolledBackPages(pg, lg, x) = u[0]
  <2>1. \A n \in DOMAIN lg : RecordShape(lg[n])
    BY DEF LogShape
  <2> HIDE DEF N
  <2> QED BY <2>1, RollbackRun DEF N
<1> DEFINE T == {n \in 0 .. N : UndoneEffect(pg, lg, n + 1 .. N, x, u[n])}
<1>3. N \in T
  <2>1. N + 1 .. N = {}
    BY <1>1
  <2>2. UndoneEffect(pg, lg, N + 1 .. N, x, pg)
    BY <2>1 DEF UndoneEffect, SameRows, OpensIn, InsertsIn, DeletesIn
  <2> QED BY <1>1, <1>2, <2>2
<1>4. ASSUME NEW n \in 0 .. N - 1, n + 1 \in T PROVE n \in T
  <2>1. (n + 1) + 1 = n + 2 /\ n \in 0 .. N
    BY <1>1
  <2>2. UndoneEffect(pg, lg, n + 2 .. N, x, u[n + 1])
    BY <1>4, <2>1
  <2>3. UndoneEffect(pg, lg, n + 1 .. N, x, UndoStep(lg, x, n + 1, u[n + 1]))
    BY <2>2, UndoneStep
  <2> QED BY <1>2, <2>1, <2>3
<1>5. \A n \in 0 .. N : n \in T
  <2> HIDE DEF T, N
  <2> QED BY <1>1, <1>3, <1>4, DownFrom
<1>6. UndoneEffect(pg, lg, 0 + 1 .. N, x, u[0]) /\ 0 + 1 = 1
  BY <1>1, <1>5
<1> QED BY <1>1, <1>2, <1>6

----------------------------------------------------------------------------
(* The chain of pages.                                                     *)

LEMMA NextType ==
  ASSUME NEW pg \in PagesType, NEW p \in PageId
  PROVE  pg[p].next \in PageId \cup {NULL_PAGE_ID}
<1>1. pg[p] \in PageType
  BY DEF PagesType
<1>2. pg[p].next \in 0 .. MaxPage + 1 /\ MaxPage \in Nat
  BY <1>1, HeapBounds DEF PageType, NULL_PAGE_ID
<1> QED BY <1>2 DEF PageId, NULL_PAGE_ID

LEMMA ReachedClosed ==
  ASSUME NEW pg \in PagesType, NEW through, pg[0].exists
  PROVE  Closed(pg, through, Reached(pg, through)) /\ Reached(pg, through) \subseteq PageId
<1>0. 0 \in PageId
  BY HeapBounds DEF PageId
<1>1. 0 \in Reached(pg, through)
  BY <1>0 DEF Reached, Closed
<1>2. ASSUME NEW p \in Reached(pg, through) \cap through, pg[p].next # NULL_PAGE_ID
      PROVE  pg[p].next \in Reached(pg, through)
  <2>1. p \in PageId /\ pg[p].next \in PageId
    BY <1>2, NextType DEF Reached
  <2>2. ASSUME NEW S \in SUBSET PageId, Closed(pg, through, S) PROVE pg[p].next \in S
    <3>1. p \in S
      BY <2>2 DEF Reached
    <3> QED BY <1>2, <2>2, <3>1 DEF Closed
  <2> QED BY <2>1, <2>2 DEF Reached
<1>3. Reached(pg, through) \subseteq PageId
  BY DEF Reached
<1> QED BY <1>1, <1>2, <1>3 DEF Closed

LEMMA ReachedLeast ==
  ASSUME NEW pg, NEW through, NEW S \in SUBSET PageId, Closed(pg, through, S)
  PROVE  Reached(pg, through) \subseteq S
  BY DEF Reached

LEMMA ReachedInChain ==
  ASSUME NEW pg, NEW through \in SUBSET PageId
  PROVE  Reached(pg, through) \subseteq Chain(pg)
<1>1. ASSUME NEW S, Closed(pg, PageId, S) PROVE Closed(pg, through, S)
  BY <1>1 DEF Closed
<1> QED BY <1>1 DEF Reached, Chain

LEMMA ReachedFrame ==
  ASSUME NEW pg, NEW q, NEW through \in SUBSET PageId, q[0].exists = pg[0].exists,
         \A p \in PageId : q[p].next = pg[p].next
  PROVE  Reached(q, through) = Reached(pg, through)
<1>1. ASSUME NEW S \in SUBSET PageId PROVE Closed(q, through, S) <=> Closed(pg, through, S)
  BY DEF Closed
<1> QED BY <1>1 DEF Reached

LEMMA ChainFrame ==
  ASSUME NEW pg, NEW q, q[0].exists = pg[0].exists, \A p \in PageId : q[p].next = pg[p].next
  PROVE  Chain(q) = Chain(pg)
  BY ReachedFrame DEF Chain

LEMMA ChainFacts ==
  ASSUME NEW pg \in PagesType
  PROVE  /\ Chain(pg) \subseteq PageId
         /\ Chain(pg) # {} => pg[0].exists
         /\ pg[0].exists => 0 \in Chain(pg)
         /\ \A p \in Chain(pg) : pg[p].next \in Chain(pg) \cup {NULL_PAGE_ID}
<1>1. Chain(pg) \subseteq PageId /\ (Chain(pg) # {} => pg[0].exists)
  BY DEF Chain, Reached
<1>2. ASSUME pg[0].exists PROVE 0 \in Chain(pg) /\ Closed(pg, PageId, Chain(pg))
  BY <1>2, ReachedClosed DEF Closed, Chain
<1>3. ASSUME NEW p \in Chain(pg) PROVE pg[p].next \in Chain(pg) \cup {NULL_PAGE_ID}
  BY <1>1, <1>2 DEF Closed
<1> QED BY <1>1, <1>2, <1>3

\* Links that lead forward end somewhere.
LEMMA ForwardEnds ==
  ASSUME NEW pg \in PagesType, Forward(pg), NEW S \in SUBSET PageId, S # {},
         \A p \in S : pg[p].next \in S \cup {NULL_PAGE_ID}
  PROVE  \E p \in S : pg[p].next = NULL_PAGE_ID
<1>1. MaxPage \in Nat /\ S \subseteq 0 .. MaxPage
  BY HeapBounds DEF PageId
<1>2. PICK m \in S : \A n \in S : n <= m
  BY <1>1, GreatestExists
<1>3. pg[m].next \in m + 1 .. NULL_PAGE_ID /\ m \in 0 .. MaxPage
  BY <1>1 DEF Forward, PageId
<1>4. pg[m].next \notin S
  <2> SUFFICES ASSUME pg[m].next \in S PROVE FALSE
    OBVIOUS
  <2>1. pg[m].next <= m
    BY <1>2
  <2> QED BY <1>1, <1>3, <2>1 DEF NULL_PAGE_ID
<1> QED BY <1>4

\* Bypassing the pages X takes no other page out of the chain.
LEMMA UnlinkKeepsOthers ==
  ASSUME NEW pg \in PagesType, NEW q \in PagesType, NEW X \in SUBSET PageId,
         q[0].exists = pg[0].exists,
         \A p \in PageId : p + 1 \in X => pg[p].next = p + 1 /\ q[p].next = q[p + 1].next,
         \A p \in PageId : p + 1 \notin X => q[p].next = pg[p].next
  PROVE  Chain(pg) \ X \subseteq Chain(q)
<1> SUFFICES ASSUME NEW o \in Chain(pg) \ X, NEW S \in SUBSET PageId, Closed(q, PageId, S)
             PROVE  o \in S
  BY DEF Chain, Reached
<1> DEFINE Good(p) == q[p].next \in S \cup {NULL_PAGE_ID}
           T == {p \in PageId : p \in S \/ (p \in X /\ Good(p))}
<1>1. ASSUME NEW p \in T PROVE Good(p)
  BY DEF Closed
<1>2. ASSUME NEW p \in T PROVE pg[p].next \in T \cup {NULL_PAGE_ID}
  <2>1. CASE p + 1 \in X
    <3>1. pg[p].next = p + 1 /\ q[p].next = q[p + 1].next
      BY <2>1
    <3>2. Good(p + 1)
      BY <1>1, <3>1
    <3> QED BY <2>1, <3>1, <3>2
  <2>2. CASE p + 1 \notin X
    <3>1. pg[p].next = q[p].next
      BY <2>2
    <3> QED BY <1>1, <3>1
  <2> QED BY <2>1, <2>2
<1>3. Closed(pg, PageId, T) /\ T \in SUBSET PageId
  <2>1. 0 \in T
    BY HeapBounds DEF Closed, PageId
  <2> HIDE DEF Good
  <2> QED BY <1>2, <2>1 DEF Closed
<1>4. o \in T
  <2> HIDE DEF T
  <2> QED BY <1>3, ReachedLeast DEF Chain
<1> QED BY <1>4

\* Cutting the links behind the pages D keeps those of them that were reached.
LEMMA CutKeepsFirst ==
  ASSUME NEW pg \in PagesType, NEW q \in PagesType, Forward(pg), NEW D \in SUBSET PageId,
         \A p \in D : \A o \in 0 .. p : o \in D,
         q[0].exists = pg[0].exists,
         \A p \in D : p + 1 \in D => q[p].next = pg[p].next
  PROVE  Chain(pg) \cap D \subseteq Chain(q)
<1> SUFFICES ASSUME NEW o \in Chain(pg) \cap D, NEW S \in SUBSET PageId, Closed(q, PageId, S)
             PROVE  o \in S
  BY DEF Chain, Reached
<1> DEFINE T == S \cup (PageId \ D)
<1>1. ASSUME NEW p \in T PROVE pg[p].next \in T \cup {NULL_PAGE_ID}
  <2>1. p \in PageId /\ pg[p].next \in PageId \cup {NULL_PAGE_ID} /\ pg[p].next \in p + 1 .. NULL_PAGE_ID
    BY NextType DEF Forward
  <2>2. CASE p \in D /\ p + 1 \in D
    BY <2>1, <2>2 DEF Closed
  <2>3. CASE p \notin D \/ p + 1 \notin D
    <3> SUFFICES ASSUME pg[p].next \in D PROVE FALSE
      BY <2>1
    <3>1. p \in 0 .. pg[p].next /\ p + 1 \in 0 .. pg[p].next
      BY <2>1 DEF PageId
    <3> QED BY <2>3, <3>1
  <2> QED BY <2>2, <2>3
<1>2. Closed(pg, PageId, T) /\ T \in SUBSET PageId
  BY <1>1, HeapBounds DEF Closed
<1>3. o \in T
  <2> HIDE DEF T
  <2> QED BY <1>2, ReachedLeast DEF Chain
<1> QED BY <1>3

\* The pages of the chain exist.
ScanPagesExist == \A p \in Chain(pages) : pages[p].exists

LEMMA ChainPagesExist ==
  ASSUME Typed, LinksExact
  PROVE  ScanPagesExist
<1> DEFINE S == {p \in PageId : pages[p].exists}
<1>1. CASE ~pages[0].exists
  BY <1>1 DEF ScanPagesExist, Chain, Reached
<1>2. CASE pages[0].exists
  <2>1. ASSUME NEW p \in S PROVE pages[p].next \in S \cup {NULL_PAGE_ID}
    <3>1. pages[p].next \in PageId \cup {NULL_PAGE_ID}
      BY NextType DEF Typed
    <3> QED BY <3>1 DEF LinksExact
  <2>2. 0 \in S /\ S \in SUBSET PageId
    BY <1>2, HeapBounds DEF PageId
  <2>3. Closed(pages, PageId, S)
    BY <2>1, <2>2 DEF Closed
  <2>4. Chain(pages) \subseteq S
    <3> HIDE DEF S
    <3> QED BY <2>2, <2>3, ReachedLeast DEF Chain
  <2> QED BY <2>4 DEF ScanPagesExist
<1> QED BY <1>1, <1>2

----------------------------------------------------------------------------
(* One more record.                                                        *)

\* l2 is lg and the record r.
Extended(lg, r, l2) ==
  /\ l2 \in Seq(RecordType) /\ Len(l2) = Len(lg) + 1
  /\ DOMAIN lg = 1 .. Len(lg) /\ DOMAIN l2 = 1 .. Len(lg) + 1
  /\ \A n \in 1 .. Len(lg) : l2[n] = lg[n]
  /\ l2[Len(lg) + 1] = r
  /\ Committed(l2) = Committed(lg) \cup {x \in Xid : r.type = "COMMIT" /\ r.xid = x}
  /\ RolledBack(l2) = RolledBack(lg) \cup {x \in Xid : r.type = "ROLLBACK" /\ r.xid = x}
  /\ \A x, p, i :
       /\ DeletesIn(l2, DOMAIN l2, x, p, i) <=>
            DeletesIn(lg, DOMAIN lg, x, p, i) \/ (IsDelete(r) /\ r.xid = x /\ r.page = p /\ r.slot = i)
       /\ OpensIn(l2, DOMAIN l2, x, p) <=>
            OpensIn(lg, DOMAIN lg, x, p) \/ (IsNewPage(r) /\ r.xid = x /\ r.page = p)

LEMMA AppendExtends ==
  ASSUME NEW lg \in Seq(RecordType), NEW r \in RecordType
  PROVE  Extended(lg, r, Append(lg, r))
<1> DEFINE l2 == Append(lg, r)
           N == Len(lg)
<1>1. N \in Nat /\ DOMAIN lg = 1 .. N
  OBVIOUS
<1>2. l2 \in Seq(RecordType) /\ Len(l2) = N + 1 /\ DOMAIN l2 = 1 .. N + 1
  OBVIOUS
<1>3. l2[N + 1] = r /\ \A n \in 1 .. N : l2[n] = lg[n]
  OBVIOUS
<1>4. \A n : n \in 1 .. N + 1 <=> n \in 1 .. N \/ n = N + 1
  BY <1>1
<1> HIDE DEF l2, N
<1>5. ASSUME NEW x, NEW type
      PROVE  OfType(l2, x, type) <=> OfType(lg, x, type) \/ (r.type = type /\ r.xid = x)
  BY <1>1, <1>2, <1>3, <1>4 DEF OfType
<1>6. Committed(l2) = Committed(lg) \cup {x \in Xid : r.type = "COMMIT" /\ r.xid = x}
  BY <1>5 DEF Committed
<1>7. RolledBack(l2) = RolledBack(lg) \cup {x \in Xid : r.type = "ROLLBACK" /\ r.xid = x}
  BY <1>5 DEF RolledBack
<1>8. ASSUME NEW x, NEW p, NEW i
      PROVE  DeletesIn(l2, DOMAIN l2, x, p, i) <=>
               DeletesIn(lg, DOMAIN lg, x, p, i) \/ (IsDelete(r) /\ r.xid = x /\ r.page = p /\ r.slot = i)
  BY <1>1, <1>2, <1>3, <1>4 DEF DeletesIn
<1>9. ASSUME NEW x, NEW p
      PROVE  OpensIn(l2, DOMAIN l2, x, p) <=>
               OpensIn(lg, DOMAIN lg, x, p) \/ (IsNewPage(r) /\ r.xid = x /\ r.page = p)
  BY <1>1, <1>2, <1>3, <1>4 DEF OpensIn
<1>10. Extended(lg, r, l2)
  BY <1>1, <1>2, <1>3, <1>6, <1>7, <1>8, <1>9 DEF Extended, N
<1> QED BY <1>10 DEF l2

LEMMA ExtendedShape ==
  ASSUME NEW lg \in Seq(RecordType), NEW r, NEW l2, Extended(lg, r, l2), LogShape(lg), RecordShape(r),
         \A m \in DOMAIN lg : InOrder(lg[m], r)
  PROVE  LogShape(l2)
<1> DEFINE N == Len(lg)
<1>1. /\ N \in Nat /\ DOMAIN lg = 1 .. N /\ DOMAIN l2 = 1 .. N + 1
      /\ l2[N + 1] = r /\ \A n \in 1 .. N : l2[n] = lg[n]
  BY DEF Extended
<1> HIDE DEF N
<1>2. ASSUME NEW n \in DOMAIN l2 PROVE RecordShape(l2[n])
  <2>1. n \in 1 .. N \/ n = N + 1
    BY <1>1
  <2> QED BY <1>1, <2>1 DEF LogShape
<1>3. ASSUME NEW m \in DOMAIN l2, NEW n \in DOMAIN l2, m < n PROVE InOrder(l2[m], l2[n])
  <2>1. m \in 1 .. N /\ (n \in 1 .. N \/ n = N + 1)
    BY <1>1, <1>3
  <2> QED BY <1>1, <1>3, <2>1 DEF LogShape
<1> QED BY <1>2, <1>3 DEF LogShape

\* A cut log has the shape of the whole.
LEMMA CutShape ==
  ASSUME NEW lg \in Seq(RecordType), NEW k \in 0 .. Len(lg), LogShape(lg)
  PROVE  /\ SubSeq(lg, 1, k) \in Seq(RecordType)
         /\ Len(SubSeq(lg, 1, k)) = k /\ DOMAIN SubSeq(lg, 1, k) = 1 .. k
         /\ \A n \in 1 .. k : SubSeq(lg, 1, k)[n] = lg[n] /\ n \in DOMAIN lg
         /\ LogShape(SubSeq(lg, 1, k))
<1> DEFINE c == SubSeq(lg, 1, k)
<1>1. c \in Seq(RecordType) /\ Len(c) = k
  <2>1. k \in Nat /\ k <= Len(lg) /\ Len(lg) \in Nat
    OBVIOUS
  <2>2. \A n \in 1 .. k : lg[n] \in RecordType
    BY <2>1
  <2> QED BY <2>1, <2>2
<1>2. DOMAIN c = 1 .. k
  BY <1>1
<1>3. \A n \in 1 .. k : c[n] = lg[n] /\ n \in DOMAIN lg
  OBVIOUS
<1> HIDE DEF c
<1>4. LogShape(c)
  BY <1>2, <1>3 DEF LogShape
<1> QED BY <1>1, <1>2, <1>3, <1>4 DEF c

\* The types of the records that the actions write.
LEMMA LogRecordTypes ==
  ASSUME NEW x \in Xid, NEW p \in PageId
  PROVE  /\ \A o \in 0 .. NULL_PAGE_ID :
              /\ NewPageLog(x, o, p) \in RecordType
              /\ NewPageLog(x, o, p).type = "NEW_PAGE" /\ NewPageLog(x, o, p).xid = x
              /\ NewPageLog(x, o, p).page = p /\ NewPageLog(x, o, p).prev = o
         /\ \A i \in 1 .. Capacity :
              /\ InsertLog(x, p, i) \in RecordType /\ RecordShape(InsertLog(x, p, i))
              /\ InsertLog(x, p, i).type = "INSERT" /\ InsertLog(x, p, i).xid = x
              /\ InsertLog(x, p, i).page = p /\ InsertLog(x, p, i).slot = i
<1>1. MaxPage \in Nat /\ Capacity \in Nat /\ PageId = 0 .. MaxPage /\ NULL_PAGE_ID = MaxPage + 1
  BY HeapBounds DEF PageId, NULL_PAGE_ID
<1>2. p \in 0 .. NULL_PAGE_ID /\ NULL_PAGE_ID \in 0 .. NULL_PAGE_ID /\ NULL_PAGE_ID \notin PageId
      /\ 0 \in 0 .. Capacity /\ 0 \in Int
  BY <1>1
<1>3. ASSUME NEW o \in 0 .. NULL_PAGE_ID
      PROVE  /\ NewPageLog(x, o, p) \in RecordType
             /\ NewPageLog(x, o, p).type = "NEW_PAGE" /\ NewPageLog(x, o, p).xid = x
             /\ NewPageLog(x, o, p).page = p /\ NewPageLog(x, o, p).prev = o
  BY <1>2 DEF LogRecord, NewPageLog, RecordType
<1>4. ASSUME NEW i \in 1 .. Capacity
      PROVE  /\ InsertLog(x, p, i) \in RecordType /\ RecordShape(InsertLog(x, p, i))
             /\ InsertLog(x, p, i).type = "INSERT" /\ InsertLog(x, p, i).xid = x
             /\ InsertLog(x, p, i).page = p /\ InsertLog(x, p, i).slot = i
  <2>1. i \in 0 .. Capacity /\ i >= 1
    BY <1>1
  <2> QED BY <1>2, <2>1 DEF LogRecord, InsertLog, RecordType, RecordShape, IsNewPage, IsInsert, IsDelete
<1> QED BY <1>3, <1>4

----------------------------------------------------------------------------
(* Steps that leave the pages alone.                                       *)

\* Nothing is added to the log but records without a page, and only a
\* transaction that has logged nothing starts to count.
Quiet ==
  /\ pages' = pages /\ initial' = initial /\ log' \in Seq(RecordType)
  /\ DOMAIN log \subseteq DOMAIN log'
  /\ \A n \in DOMAIN log : log'[n] = log[n]
  /\ \A n \in DOMAIN log' \ DOMAIN log :
       /\ ~IsNewPage(log'[n]) /\ ~IsInsert(log'[n]) /\ ~IsDelete(log'[n])
       /\ log'[n].page \notin PageId
  /\ Committed(log) \subseteq Committed(log') /\ RolledBack(log') = RolledBack(log)
  /\ Live \subseteq Live'
  /\ \A x \in (Live' \ Live) \cup (active' \ active) : \A n \in DOMAIN log : log[n].xid # x
  /\ flushed_lsn_' \in Nat /\ flushed_lsn_ <= flushed_lsn_' /\ Len(log) <= Len(log')

LEMMA QuietRecords ==
  ASSUME Quiet
  PROVE  /\ \A x, p, i : Deletes(x, p, i)' <=> Deletes(x, p, i)
         /\ \A x, p : OpenedBy(x, p)' <=> OpenedBy(x, p)
         /\ \A p : Opened(p)' <=> Opened(p)
<1>1. ASSUME NEW x, NEW p, NEW i PROVE Deletes(x, p, i)' <=> Deletes(x, p, i)
  BY DEF Quiet, Deletes, DeletesIn
<1>2. ASSUME NEW x, NEW p PROVE OpenedBy(x, p)' <=> OpenedBy(x, p)
  BY DEF Quiet, OpenedBy, OpensIn
<1>3. ASSUME NEW p PROVE Opened(p)' <=> Opened(p)
  BY DEF Quiet, Opened
<1> QED BY <1>1, <1>2, <1>3

\* A row of a transaction that logged nothing is not there.
LEMMA QuietLive ==
  ASSUME Typed, RowsExact, Quiet, NEW p \in PageId, NEW i \in DOMAIN pages[p].slots
  PROVE  LET s == pages[p].slots[i] IN
         s.xmin \in Live' \cup {NULL_XID} <=> s.xmin \in Live \cup {NULL_XID}
<1> DEFINE s == pages[p].slots[i]
<1>1. RowOf(p, i, s)
  BY DEF RowsExact
<1>2. CASE s.xmin = NULL_XID
  BY <1>2
<1>3. CASE s.xmin # NULL_XID
  <2>1. s.row \in DOMAIN log /\ log[s.row].xid = s.xmin
    BY <1>1, <1>3 DEF RowOf
  <2>2. s.xmin \notin Live' \ Live
    BY <2>1 DEF Quiet
  <2>3. Live \subseteq Live'
    BY DEF Quiet
  <2> QED BY <2>2, <2>3
<1> QED BY <1>2, <1>3

LEMMA QuietRows ==
  ASSUME Typed, RowsInv, Quiet
  PROVE  RowsInv'
<1>1. RowsExact'
  <2>1. ASSUME NEW p, NEW i, NEW s, RowOf(p, i, s) PROVE RowOf(p, i, s)'
    BY <2>1 DEF RowOf, Quiet
  <2> QED BY <2>1 DEF RowsInv, RowsExact, Quiet
<1>2. InsertsPresent' /\ InitialPresent'
  BY DEF RowsInv, InsertsPresent, InitialPresent, Quiet
<1>3. MarksExact'
  <2> SUFFICES ASSUME NEW p \in PageId, NEW i \in DOMAIN pages[p].slots
               PROVE  MarkOf(p, i, pages[p].slots[i])'
    BY DEF MarksExact, Quiet
  <2> DEFINE s == pages[p].slots[i]
  <2>1. MarkOf(p, i, s)
    BY DEF RowsInv, MarksExact
  <2>2. s.xmin \in Live' \cup {NULL_XID} <=> s.xmin \in Live \cup {NULL_XID}
    BY QuietLive DEF RowsInv
  <2>3. \A x : Deletes(x, p, i)' <=> Deletes(x, p, i)
    BY QuietRecords
  <2>4. \A x \in Live' : Deletes(x, p, i) => x \in Live
    BY DEF Quiet, Deletes, DeletesIn
  <2>5. Live \subseteq Live' /\ s' = s
    BY DEF Quiet
  <2> HIDE DEF s
  <2>6. MarkOf(p, i, s)'
    BY <2>1, <2>2, <2>3, <2>4, <2>5 DEF MarkOf
  <2> QED BY <2>6 DEF s
<1>4. DeletesExact'
  <2>1. ASSUME NEW n \in DOMAIN log', IsDelete(log'[n]) PROVE n \in DOMAIN log /\ log'[n] = log[n]
    BY <2>1 DEF Quiet
  <2>2. ASSUME NEW n \in DOMAIN log', IsDelete(log'[n])
        PROVE  /\ log'[n].slot \in DOMAIN pages'[log'[n].page].slots
               /\ LET s == pages'[log'[n].page].slots[log'[n].slot] IN
                  /\ log'[n].row = s.row /\ s.row < n
                  /\ s.xmin \in Committed(log') \cup {NULL_XID, log'[n].xid}
    BY <2>1, <2>2 DEF RowsInv, DeletesExact, Quiet
  <2>3. ASSUME NEW m \in DOMAIN log', NEW n \in DOMAIN log',
               IsDelete(log'[m]) /\ IsDelete(log'[n]) /\ SameRid(log'[m], log'[n]) /\ m < n
        PROVE  log'[m].xid \notin Live'
    <3>1. log[m].xid \notin Live /\ m \in DOMAIN log /\ log'[m] = log[m]
      BY <2>1, <2>3 DEF RowsInv, DeletesExact
    <3> QED BY <3>1 DEF Quiet
  <2> QED BY <2>2, <2>3 DEF DeletesExact
<1> QED BY <1>1, <1>2, <1>3, <1>4 DEF RowsInv

LEMMA QuietPages ==
  ASSUME Typed, PagesExact, Quiet
  PROVE  PagesExact'
<1>1. \A p : Opened(p)' <=> Opened(p)
  BY QuietRecords
<1>2. pages' = pages /\ initial' = initial
  BY DEF Quiet
<1>3. /\ \A p \in PageId : pages'[p].exists <=> Opened(p)' \/ (p = 0 /\ initial' > 0)
      /\ \A p \in PageId : ~pages'[p].exists => pages'[p] = NoPage
      /\ \A p \in 1 .. MaxPage : pages'[p].exists => pages'[p - 1].exists
      /\ initial' > 0 => ~Opened(0)'
  BY <1>1, <1>2 DEF PagesExact
<1>4. ASSUME NEW n \in DOMAIN log', log'[n].page \in PageId
      PROVE  n <= flushed_lsn_' \/ n <= pages'[log'[n].page].lsn
  <2>1. n \in DOMAIN log /\ log'[n] = log[n]
    BY <1>4 DEF Quiet
  <2>2. n <= flushed_lsn_ \/ n <= pages[log[n].page].lsn
    BY <1>4, <2>1 DEF PagesExact
  <2>3. flushed_lsn_ <= flushed_lsn_' /\ flushed_lsn_ \in Int /\ flushed_lsn_' \in Int /\ n \in Int
    BY <2>1 DEF Quiet, Typed
  <2>4. CASE n <= flushed_lsn_
    BY <2>3, <2>4
  <2> QED BY <1>2, <2>1, <2>2, <2>4
<1>5. \A p \in PageId : pages'[p].lsn <= Len(log')
  BY <1>2 DEF PagesExact, Quiet, Typed, PagesType, PageType
<1> QED BY <1>3, <1>4, <1>5 DEF PagesExact

LEMMA QuietLinks ==
  ASSUME Typed, RowsExact, LinksExact, Quiet
  PROVE  LinksExact'
<1>1. \A x, p : OpenedBy(x, p)' <=> OpenedBy(x, p)
  BY QuietRecords
<1>2. pages' = pages /\ RolledBack(log') = RolledBack(log) /\ Live \subseteq Live'
  BY DEF Quiet
<1>3. \A x, p : OpenedBy(x, p) => x \notin Live' \ Live /\ x \notin active' \ active
  BY DEF Quiet, OpenedBy, OpensIn
<1>4. Relinked' = Relinked
  BY <1>1, <1>2 DEF Relinked, RelinkedIn, OpenedBy
<1>5. Forward(pages') /\ \A p \in PageId : pages'[p].next # NULL_PAGE_ID => pages'[pages'[p].next].exists
  BY <1>2 DEF LinksExact
<1>6. \A p \in 1 .. MaxPage : \A x \in Live' : OpenedBy(x, p)' => pages'[p - 1].next = p
  BY <1>1, <1>2, <1>3 DEF LinksExact
<1>7. ASSUME NEW p \in PageId \ Chain(pages'), NEW i \in DOMAIN pages'[p].slots
      PROVE  pages'[p].slots[i].xmin \notin Live' \cup {NULL_XID}
  <2>1. pages[p].slots[i].xmin \notin Live \cup {NULL_XID}
    BY <1>2, <1>7 DEF LinksExact
  <2> QED BY <1>2, <2>1, QuietLive
<1>8. \A p \in PageId \ Chain(Relinked') : \A i \in DOMAIN pages'[p].slots :
        pages'[p].slots[i].xmin \in RolledBack(log')
  BY <1>2, <1>4 DEF LinksExact
<1>9. ASSUME NEW p \in 1 .. MaxPage - 1, NEW x \in active', NEW y \in Xid,
             OpenedBy(x, p)' /\ OpenedBy(y, p + 1)'
      PROVE  y \in Live' \cup RolledBack(log')
  <2>1. OpenedBy(x, p) /\ OpenedBy(y, p + 1)
    BY <1>1, <1>9
  <2>2. x \in active
    BY <1>3, <1>9, <2>1
  <2> QED BY <1>2, <2>1, <2>2 DEF LinksExact
<1>10. \A p \in Chain(Relinked') : pages'[p].next \in Chain(Relinked') \cup {NULL_PAGE_ID}
  BY <1>2, <1>4 DEF LinksExact
<1>11. ASSUME NEW p \in 1 .. MaxPage, NEW y \in Xid \ (Live' \cup RolledBack(log')), NEW x \in active',
              OpenedBy(y, p)', OpenedBy(x, pages[p - 1].next)'
       PROVE  FALSE
  <2>1. OpenedBy(y, p) /\ OpenedBy(x, pages[p - 1].next)
    BY <1>1, <1>2, <1>11
  <2>2. x \in active /\ y \in Xid \ (Live \cup RolledBack(log))
    BY <1>2, <1>3, <1>11, <2>1
  <2> QED BY <2>1, <2>2 DEF LinksExact
<1> QED BY <1>5, <1>6, <1>7, <1>8, <1>9, <1>10, <1>11 DEF LinksExact

\* If the table file and the tables of the log manager are left alone too.
LEMMA QuietRecover ==
  ASSUME Typed, RowsExact, RecoverInv, Quiet, UNCHANGED <<disk, dpt_, checkpoint, undone>>,
         att_ \cup Ended \subseteq (att_ \cup Ended)', Ended \subseteq Ended'
  PROVE  /\ DiskRows' /\ DiskMarks' /\ Coverage'
         /\ Settled(att_, dpt_, Len(log))'
         /\ Settled(checkpoint.att, checkpoint.dpt, checkpoint.pos)'
<1>0. /\ DOMAIN log = 1 .. Len(log) /\ Len(log) \in Nat /\ flushed_lsn_ \in 0 .. Len(log)
      /\ checkpoint.pos \in 0 .. flushed_lsn_ /\ checkpoint.dpt \in [PageId -> 0 .. MaxLsn]
      /\ dpt_ \in [PageId -> 0 .. MaxLsn]
  BY DEF Typed
<1>1. /\ pages' = pages /\ initial' = initial /\ flushed_lsn_ <= flushed_lsn_' /\ flushed_lsn_' \in Nat
      /\ RolledBack(log') = RolledBack(log) /\ Len(log) <= Len(log')
      /\ \A n \in 1 .. Len(log) : log'[n] = log[n] /\ n \in DOMAIN log'
      /\ \A n \in DOMAIN log' : log'[n].page \in PageId => n \in 1 .. Len(log)
  BY <1>0 DEF Quiet
<1>2. disk' = disk /\ dpt_' = dpt_ /\ checkpoint' = checkpoint /\ undone' = undone
  OBVIOUS
<1>3. DiskRows'
  <2>1. DiskRows
    BY DEF RecoverInv
  <2>2. ASSUME NEW p \in PageId, NEW i \in DOMAIN disk[p].slots
        PROVE  disk[p].slots[i].row <= flushed_lsn_'
    <3>1. disk[p].slots[i].row \in Int
      BY SlotFacts DEF Typed
    <3> QED BY <1>0, <1>1, <2>1, <3>1 DEF DiskRows
  <2>3. ASSUME NEW p \in PageId, disk[p].exists
        PROVE  \/ p = 0 /\ initial > 0
               \/ \E n \in 1 .. flushed_lsn_' : IsNewPage(log'[n]) /\ log'[n].page = p
    BY <1>0, <1>1, <2>1, <2>3 DEF DiskRows
  <2>4. ASSUME NEW p \in PageId PROVE disk[p].lsn <= flushed_lsn_'
    <3>1. disk[p].lsn \in Int
      BY PageFacts DEF Typed
    <3> QED BY <1>0, <1>1, <2>1, <3>1 DEF DiskRows
  <2>5. \A p : OpenedByRolledBack(p)' <=> OpenedByRolledBack(p)
    BY <1>1, QuietRecords DEF OpenedByRolledBack
  <2> QED BY <1>1, <1>2, <2>1, <2>2, <2>3, <2>4, <2>5 DEF DiskRows
<1>4. DiskMarks'
  <2> SUFFICES ASSUME NEW p \in PageId, NEW i \in DOMAIN disk[p].slots
               PROVE  LET s == disk[p].slots[i] IN
                      /\ \/ s.xmax = NULL_XID
                         \/ s.xmax = s.xmin /\ s.xmin \notin Live'
                         \/ DeletesIn(log', 1 .. flushed_lsn_', s.xmax, p, i)
                      /\ p \notin undone' =>
                           /\ s.xmin \in RolledBack(log') => s.xmax = s.xmin
                           /\ s.xmax \in RolledBack(log') => s.xmax = s.xmin
    BY <1>2 DEF DiskMarks
  <2> DEFINE s == disk[p].slots[i]
  <2>1. /\ \/ s.xmax = NULL_XID
           \/ s.xmax = s.xmin /\ s.xmin \notin Live
           \/ DeletesIn(log, 1 .. flushed_lsn_, s.xmax, p, i)
        /\ p \notin undone =>
             /\ s.xmin \in RolledBack(log) => s.xmax = s.xmin
             /\ s.xmax \in RolledBack(log) => s.xmax = s.xmin
    BY DEF RecoverInv, DiskMarks
  <2>2. s.xmin # NULL_XID /\ s.xmin \notin Live => s.xmin \notin Live'
    <3>1. i \in DOMAIN pages[p].slots /\ s.xmin = pages[p].slots[i].xmin
      BY DEF RecoverInv, DiskRows
    <3> HIDE DEF s
    <3> QED BY <3>1, QuietLive
  <2>3. DeletesIn(log, 1 .. flushed_lsn_, s.xmax, p, i) => DeletesIn(log', 1 .. flushed_lsn_', s.xmax, p, i)
    <3> HIDE DEF s
    <3> QED BY <1>0, <1>1 DEF DeletesIn
  <2> HIDE DEF s
  <2>4. /\ \/ s.xmax = NULL_XID
           \/ s.xmax = s.xmin /\ s.xmin \notin Live'
           \/ DeletesIn(log', 1 .. flushed_lsn_', s.xmax, p, i)
        /\ p \notin undone' =>
             /\ s.xmin \in RolledBack(log') => s.xmax = s.xmin
             /\ s.xmax \in RolledBack(log') => s.xmax = s.xmin
    BY <1>1, <1>2, <2>1, <2>2, <2>3
  <2> QED BY <2>4 DEF s
<1>5. Coverage'
  <2>1. Coverage
    BY DEF RecoverInv
  <2>2. ASSUME NEW n \in DOMAIN log', log'[n].page \in PageId, ~OnDisk(n)'
        PROVE  /\ n > disk[log'[n].page].lsn
               /\ InRange(dpt_, n)'
               /\ n <= checkpoint.pos => InRange(checkpoint.dpt, n)'
    <3>1. n \in 1 .. Len(log) /\ log'[n] = log[n]
      BY <1>1, <2>2
    <3>2. log[n].xid \in Live' => log[n].xid \in Live
      BY <1>0, <3>1 DEF Quiet
    <3>3. ~OnDisk(n)
      BY <1>2, <2>2, <3>1, <3>2 DEF OnDisk
    <3>4. /\ n > disk[log[n].page].lsn
          /\ InRange(dpt_, n)
          /\ n <= checkpoint.pos => InRange(checkpoint.dpt, n)
      BY <1>0, <2>1, <2>2, <3>1, <3>3 DEF Coverage
    <3> QED BY <1>2, <3>1, <3>4 DEF InRange
  <2>3. \A p \in PageId : dpt_[p] <= Len(log') /\ checkpoint.dpt[p] <= checkpoint.pos
    <3>1. \A p \in PageId : dpt_[p] \in Int
      BY <1>0
    <3>2. Len(log') \in Int
      BY DEF Quiet
    <3> QED BY <1>0, <1>1, <2>1, <3>1, <3>2 DEF Coverage
  <2> QED BY <1>2, <2>2, <2>3 DEF Coverage
<1>6. ASSUME NEW n \in 1 .. Len(log) PROVE UndoneOnDisk(n)' <=> UndoneOnDisk(n)
  BY <1>1, <1>2 DEF UndoneOnDisk
<1>7. Settled(att_, dpt_, Len(log))'
  <2> SUFFICES ASSUME NEW n \in 1 .. Len(log'), log'[n].page \in PageId, log'[n].xid \notin (att_ \cup Ended)'
               PROVE  ~InRange(dpt_, n)' /\ UndoneOnDisk(n)'
    BY DEF Settled
  <2>1. n \in 1 .. Len(log) /\ log'[n] = log[n]
    <3>1. n \in DOMAIN log'
      BY DEF Quiet
    <3> QED BY <1>1, <3>1
  <2>2. log[n].xid \notin att_ \cup Ended
    BY <2>1
  <2>3. ~InRange(dpt_, n) /\ UndoneOnDisk(n)
    BY <2>1, <2>2 DEF RecoverInv, Settled
  <2> QED BY <1>2, <1>6, <2>1, <2>3 DEF InRange
<1>8. Settled(checkpoint.att, checkpoint.dpt, checkpoint.pos)'
  <2> SUFFICES ASSUME NEW n \in 1 .. checkpoint.pos, log'[n].page \in PageId,
                      log'[n].xid \notin checkpoint.att \cup Ended'
               PROVE  ~InRange(checkpoint.dpt, n)' /\ UndoneOnDisk(n)'
    BY <1>2 DEF Settled
  <2>1. n \in 1 .. Len(log) /\ log'[n] = log[n]
    BY <1>0, <1>1
  <2>2. log[n].xid \notin checkpoint.att \cup Ended
    BY <2>1
  <2>3. ~InRange(checkpoint.dpt, n) /\ UndoneOnDisk(n)
    BY <2>1, <2>2 DEF RecoverInv, Settled
  <2> QED BY <1>2, <1>6, <2>1, <2>3 DEF InRange
<1> QED BY <1>3, <1>4, <1>5, <1>7, <1>8

LEMMA BeginType ==
  ASSUME Typed, Begin, initial' = initial
  PROVE  Typed'
<1> DEFINE r == LogRecord("BEGIN", next_xid_)
<1>1. next_xid_ \in Xid /\ Len(log) + 1 <= MaxLsn /\ log \in Seq(RecordType)
  BY DEF Begin, NextLsn, Typed
<1>2. r \in RecordType
  BY <1>1, HeapBounds DEF LogRecord, RecordType, NULL_PAGE_ID
<1>3. log' \in Seq(RecordType) /\ Len(log') = Len(log) + 1
  BY <1>1, <1>2, AppendExtends DEF Begin, Extended
<1>4. next_xid_' \in 1 .. MaxXid + 1
  BY <1>1, HeapBounds DEF Begin, Xid
<1> QED BY <1>1, <1>3, <1>4 DEF Begin, Typed

LEMMA EndsAreEnded ==
  ASSUME Typed, NEW n \in DOMAIN log, IsEnd(log[n])
  PROVE  log[n].xid \in Ended
<1>1. log[n] \in RecordType
  BY DEF Typed
<1>2. log[n].xid \in Xid
  BY <1>1 DEF RecordType
<1> QED BY <1>2 DEF IsEnd, Ended, Committed, RolledBack, OfType

\* A record without a page keeps the shape of the log, if its transaction has
\* not ended.
LEMMA PlainRecord ==
  ASSUME Typed, LogShape(log), NEW x \in Xid, x \notin Ended,
         NEW t \in {"BEGIN", "COMMIT", "ROLLBACK"}, log' = Append(log, LogRecord(t, x))
  PROVE  /\ Extended(log, LogRecord(t, x), log') /\ LogShape(log')
         /\ log' \in Seq(RecordType) /\ Len(log) <= Len(log')
         /\ DOMAIN log \subseteq DOMAIN log'
         /\ \A n \in DOMAIN log : log'[n] = log[n]
         /\ \A n \in DOMAIN log' \ DOMAIN log :
              /\ n = Len(log) + 1 /\ log'[n].type = t /\ log'[n].xid = x
              /\ ~IsNewPage(log'[n]) /\ ~IsInsert(log'[n]) /\ ~IsDelete(log'[n])
              /\ log'[n].page \notin PageId
<1> DEFINE r == LogRecord(t, x)
<1>1. r \in RecordType /\ RecordShape(r) /\ r.type = t /\ r.xid = x /\ r.page \notin PageId
  BY HeapBounds DEF LogRecord, RecordType, RecordShape, IsNewPage, IsInsert, IsDelete, NULL_PAGE_ID, PageId
<1>2. Extended(log, r, log')
  BY <1>1, AppendExtends DEF Typed
<1>3. ~IsNewPage(r) /\ ~IsInsert(r) /\ ~IsDelete(r)
  BY <1>1 DEF IsNewPage, IsInsert, IsDelete
<1> HIDE DEF r
<1>4. ASSUME NEW m \in DOMAIN log PROVE InOrder(log[m], r)
  <2>1. IsEnd(log[m]) => log[m].xid # x
    BY EndsAreEnded
  <2> QED BY <1>1, <1>3, <2>1 DEF InOrder
<1>5. LogShape(log')
  BY <1>1, <1>2, <1>4, ExtendedShape DEF Typed
<1>6. Len(log) \in Nat /\ log \in Seq(RecordType)
  BY DEF Typed
<1>7. \A n \in DOMAIN log' \ DOMAIN log : n = Len(log) + 1 /\ log'[n] = r
  BY <1>2, <1>6 DEF Extended
<1>8. /\ log' \in Seq(RecordType) /\ Len(log) <= Len(log')
      /\ DOMAIN log \subseteq DOMAIN log'
      /\ \A n \in DOMAIN log : log'[n] = log[n]
  BY <1>2, <1>6 DEF Extended
<1>9. Extended(log, LogRecord(t, x), log')
  BY <1>2 DEF r
<1> QED BY <1>1, <1>3, <1>5, <1>7, <1>8, <1>9

LEMMA BeginExact ==
  ASSUME Typed, Exact, Begin, initial' = initial, gaps' = {}
  PROVE  Exact'
<1> DEFINE x == next_xid_
           r == LogRecord("BEGIN", x)
<1>1. x \in Xid /\ log' = Append(log, r)
  BY DEF Begin
<1>2. \A n \in DOMAIN log : log[n].xid # x
  BY DEF Begin, Range
<1>3. x \notin Ended
  BY <1>2 DEF Ended, Committed, RolledBack, OfType
<1>4. /\ Extended(log, r, log') /\ LogShape(log')
      /\ log' \in Seq(RecordType) /\ Len(log) <= Len(log')
      /\ DOMAIN log \subseteq DOMAIN log'
      /\ \A n \in DOMAIN log : log'[n] = log[n]
      /\ \A n \in DOMAIN log' \ DOMAIN log :
           /\ n = Len(log) + 1 /\ log'[n].type = "BEGIN" /\ log'[n].xid = x
           /\ ~IsNewPage(log'[n]) /\ ~IsInsert(log'[n]) /\ ~IsDelete(log'[n])
           /\ log'[n].page \notin PageId
  BY <1>1, <1>3, PlainRecord DEF Exact
<1>5. Committed(log') = Committed(log) /\ RolledBack(log') = RolledBack(log)
  BY <1>4 DEF Extended, LogRecord
<1>6. Live' = Live \cup {x} /\ active' = active \cup {x} /\ att_' = att_ \cup {x} /\ Ended' = Ended
  BY <1>5 DEF Begin, Live, Ended
<1>7. UNCHANGED <<pages, disk, flushed_lsn_, dpt_, checkpoint, undone>>
  BY DEF Begin
<1> HIDE DEF x, r
<1>8. Quiet
  BY <1>2, <1>4, <1>5, <1>6, <1>7 DEF Quiet, Typed
<1>9. RowsInv' /\ PagesExact' /\ LinksExact'
  BY <1>8, QuietRows, QuietPages, QuietLinks DEF Exact, RowsInv
<1>10. /\ DiskRows' /\ DiskMarks' /\ Coverage'
       /\ Settled(att_, dpt_, Len(log))'
       /\ Settled(checkpoint.att, checkpoint.dpt, checkpoint.pos)'
  BY <1>6, <1>7, <1>8, QuietRecover DEF Exact, RowsInv
<1>11. XactsExact'
  <2>1. XactsExact /\ checkpoint.pos \in 0 .. Len(log) /\ DOMAIN log = 1 .. Len(log) /\ Len(log) \in Nat
    BY DEF Exact, RecoverInv, Typed
  <2>2. ASSUME NEW n \in DOMAIN log', IsEnd(log'[n]) PROVE n <= flushed_lsn_'
    <3>1. n \in DOMAIN log
      BY <1>4, <2>2 DEF IsEnd
    <3> QED BY <1>4, <1>7, <2>1, <2>2, <3>1 DEF XactsExact
  <2>3. ASSUME NEW n \in 1 .. checkpoint'.pos
        PROVE  /\ IsEnd(log'[n]) => log'[n].xid \notin checkpoint'.att
               /\ log'[n].xid \in active' => log'[n].xid \in checkpoint'.att
    <3>1. n \in DOMAIN log /\ n \in 1 .. checkpoint.pos /\ log'[n] = log[n] /\ log[n].xid # x
      BY <1>2, <1>4, <1>7, <2>1
    <3> QED BY <1>6, <1>7, <2>1, <3>1 DEF XactsExact
  <2> QED BY <1>3, <1>5, <1>6, <2>1, <2>2, <2>3 DEF XactsExact
<1> QED BY <1>4, <1>9, <1>10, <1>11 DEF Exact, RecoverInv

\* The common part of Commit and Rollback.
LEMMA EndFacts ==
  ASSUME Typed, Exact, NEW x \in Xid, NEW t \in {"COMMIT", "ROLLBACK"}, End(t, x)
  PROVE  /\ x \in active /\ x \notin Ended
         /\ log' = Append(log, LogRecord(t, x))
         /\ Extended(log, LogRecord(t, x), log') /\ LogShape(log')
         /\ log' \in Seq(RecordType) /\ Len(log') = Len(log) + 1 /\ Len(log') <= MaxLsn
         /\ DOMAIN log \subseteq DOMAIN log'
         /\ \A n \in DOMAIN log : log'[n] = log[n]
         /\ \A n \in DOMAIN log' \ DOMAIN log :
              /\ n = Len(log) + 1 /\ log'[n].type = t /\ log'[n].xid = x
              /\ ~IsNewPage(log'[n]) /\ ~IsInsert(log'[n]) /\ ~IsDelete(log'[n])
              /\ log'[n].page \notin PageId
         /\ flushed_lsn_' = Len(log')
         /\ att_' = att_ \ {x} /\ active' = active \ {x}
         /\ UNCHANGED <<disk, dpt_, checkpoint, next_xid_, control_xid>>
<1>1. x \in active /\ x \notin Ended
  BY DEF End, Exact, RecoverInv, XactsExact, Typed
<1>2. log' = Append(log, LogRecord(t, x))
  BY DEF End
<1>3. /\ Extended(log, LogRecord(t, x), log') /\ LogShape(log')
      /\ log' \in Seq(RecordType)
      /\ DOMAIN log \subseteq DOMAIN log'
      /\ \A n \in DOMAIN log : log'[n] = log[n]
      /\ \A n \in DOMAIN log' \ DOMAIN log :
           /\ n = Len(log) + 1 /\ log'[n].type = t /\ log'[n].xid = x
           /\ ~IsNewPage(log'[n]) /\ ~IsInsert(log'[n]) /\ ~IsDelete(log'[n])
           /\ log'[n].page \notin PageId
  BY <1>1, <1>2, PlainRecord DEF Exact
<1>4. Len(log') = Len(log) + 1
  BY <1>3 DEF Extended
<1> QED BY <1>1, <1>2, <1>3, <1>4 DEF End, NextLsn

LEMMA EndXacts ==
  ASSUME Typed, Exact, NEW x \in Xid, NEW t \in {"COMMIT", "ROLLBACK"}, End(t, x)
  PROVE  XactsExact' /\ Ended' = Ended \cup {x}
<1> DEFINE r == LogRecord(t, x)
<1>1. /\ x \in active /\ x \notin Ended /\ Extended(log, r, log')
      /\ \A n \in DOMAIN log : log'[n] = log[n]
      /\ DOMAIN log' = 1 .. Len(log') /\ flushed_lsn_' = Len(log')
      /\ att_' = att_ \ {x} /\ active' = active \ {x} /\ checkpoint' = checkpoint
  BY EndFacts
<1>2. r.type = t /\ r.xid = x
  BY DEF LogRecord
<1>3. /\ Committed(log') = Committed(log) \cup (IF t = "COMMIT" THEN {x} ELSE {})
      /\ RolledBack(log') = RolledBack(log) \cup (IF t = "ROLLBACK" THEN {x} ELSE {})
  BY <1>1, <1>2 DEF Extended
<1>4. Ended' = Ended \cup {x}
  BY <1>3 DEF Ended
<1>5. XactsExact /\ checkpoint.pos \in 0 .. Len(log) /\ DOMAIN log = 1 .. Len(log) /\ Len(log) \in Nat
  BY DEF Exact, RecoverInv, Typed
<1>6. Committed(log') \cap RolledBack(log') = {} /\ att_' \cap Ended' = {}
  BY <1>1, <1>3, <1>4, <1>5 DEF XactsExact, Ended
<1>7. ASSUME NEW n \in 1 .. checkpoint'.pos
      PROVE  /\ IsEnd(log'[n]) => log'[n].xid \notin checkpoint'.att
             /\ log'[n].xid \in active' => log'[n].xid \in checkpoint'.att
  <2>1. n \in DOMAIN log /\ n \in 1 .. checkpoint.pos /\ log'[n] = log[n]
    BY <1>1, <1>5
  <2> QED BY <1>1, <1>5, <2>1 DEF XactsExact
<1>8. \A n \in DOMAIN log' : n <= flushed_lsn_'
  BY <1>1
<1> QED BY <1>4, <1>6, <1>7, <1>8 DEF XactsExact

LEMMA CommitType ==
  ASSUME Typed, Exact, NEW x \in Xid, Commit(x), initial' = initial
  PROVE  Typed'
<1>1. End("COMMIT", x) /\ UNCHANGED <<pages, undone>>
  BY DEF Commit
<1>2. /\ log' \in Seq(RecordType) /\ Len(log') = Len(log) + 1 /\ Len(log') <= MaxLsn
      /\ flushed_lsn_' = Len(log')
      /\ att_' = att_ \ {x} /\ active' = active \ {x}
      /\ UNCHANGED <<disk, dpt_, checkpoint, next_xid_, control_xid>>
  BY <1>1, EndFacts
<1> QED BY <1>1, <1>2 DEF Typed

LEMMA CommitExact ==
  ASSUME Typed, Exact, NEW x \in Xid, Commit(x), initial' = initial
  PROVE  Exact'
<1> DEFINE r == LogRecord("COMMIT", x)
<1>1. End("COMMIT", x) /\ UNCHANGED <<pages, undone>>
  BY DEF Commit
<1>2. /\ x \in active /\ x \notin Ended
      /\ Extended(log, r, log') /\ LogShape(log')
      /\ log' \in Seq(RecordType) /\ Len(log') = Len(log) + 1
      /\ DOMAIN log \subseteq DOMAIN log'
      /\ \A n \in DOMAIN log : log'[n] = log[n]
      /\ \A n \in DOMAIN log' \ DOMAIN log :
           /\ ~IsNewPage(log'[n]) /\ ~IsInsert(log'[n]) /\ ~IsDelete(log'[n])
           /\ log'[n].page \notin PageId
      /\ flushed_lsn_' = Len(log')
      /\ att_' = att_ \ {x} /\ active' = active \ {x}
      /\ UNCHANGED <<disk, dpt_, checkpoint>>
  BY <1>1, EndFacts
<1>3. Committed(log') = Committed(log) \cup {x} /\ RolledBack(log') = RolledBack(log)
  BY <1>2 DEF Extended, LogRecord
<1>4. Live' = Live /\ Committed(log) \subseteq Committed(log')
  BY <1>2, <1>3 DEF Live
<1>5. XactsExact' /\ Ended' = Ended \cup {x}
  BY <1>1, EndXacts
<1> HIDE DEF r
<1>6. Quiet
  BY <1>1, <1>2, <1>3, <1>4 DEF Quiet, Typed
<1>7. RowsInv' /\ PagesExact' /\ LinksExact'
  BY <1>6, QuietRows, QuietPages, QuietLinks DEF Exact, RowsInv
<1>8. /\ DiskRows' /\ DiskMarks' /\ Coverage'
      /\ Settled(att_, dpt_, Len(log))'
      /\ Settled(checkpoint.att, checkpoint.dpt, checkpoint.pos)'
  BY <1>1, <1>2, <1>5, <1>6, QuietRecover DEF Exact, RowsInv
<1> QED BY <1>2, <1>5, <1>7, <1>8 DEF Exact, RecoverInv

----------------------------------------------------------------------------
(* Writing pages to the table file.                                        *)

LEMMA LiveNotRolledBack ==
  ASSUME Typed, XactsExact
  PROVE  Live \cap RolledBack(log) = {} /\ NULL_XID \notin Live /\ NULL_XID \notin RolledBack(log)
         /\ Live \subseteq Xid
<1>1. active \cap RolledBack(log) = {} /\ active \subseteq Xid
  BY DEF Typed, XactsExact, Ended
<1>2. NULL_XID \notin Xid
  BY DEF NULL_XID, Xid
<1> QED BY <1>1, <1>2 DEF Live, XactsExact, Committed, RolledBack

\* A page of the pool as it will be in the table file, with the log written up
\* to F.
StoredRows(p, F) ==
  /\ \A i \in DOMAIN pages[p].slots : pages[p].slots[i].row <= F
  /\ pages[p].exists =>
       \/ p = 0 /\ initial > 0
       \/ \E n \in 1 .. F : IsNewPage(log[n]) /\ log[n].page = p
StoredMarks(p, F) ==
  \A i \in DOMAIN pages[p].slots :
    LET s == pages[p].slots[i] IN
    /\ \/ s.xmax = NULL_XID
       \/ s.xmax = s.xmin /\ s.xmin \notin Live
       \/ DeletesIn(log, 1 .. F, s.xmax, p, i)
    /\ s.xmin \in RolledBack(log) => s.xmax = s.xmin
    /\ s.xmax \in RolledBack(log) => s.xmax = s.xmin
Stored(n) ==
  LET r == log[n]
      slots == pages[r.page].slots
  IN
  /\ IsNewPage(r) => pages[r.page].exists
  /\ IsInsert(r) => r.slot \in DOMAIN slots
  /\ IsDelete(r) /\ r.xid \in Live => r.slot \in DOMAIN slots /\ slots[r.slot].xmax = r.xid
StoredUndone(n) ==
  LET r == log[n]
      s == pages[r.page].slots[r.slot]
  IN
  r.slot \in DOMAIN pages[r.page].slots =>
    /\ IsInsert(r) => s.xmax = r.xid
    /\ IsDelete(r) /\ s.xmin # r.xid => s.xmax # r.xid

LEMMA StoredPage ==
  ASSUME Typed, Exact, NEW p \in PageId, NEW F \in Nat, flushed_lsn_ <= F, pages[p].lsn <= F
  PROVE  StoredRows(p, F) /\ StoredMarks(p, F)
<1>0. DOMAIN log = 1 .. Len(log) /\ Len(log) \in Nat /\ flushed_lsn_ \in Int /\ pages[p].lsn \in Int
  BY PageFacts DEF Typed
<1>1. ASSUME NEW n \in DOMAIN log, log[n].page = p PROVE n \in 1 .. F
  <2>1. n <= flushed_lsn_ \/ n <= pages[p].lsn
    BY <1>1 DEF Exact, PagesExact
  <2> QED BY <1>0, <2>1
<1>2. ASSUME NEW i \in DOMAIN pages[p].slots PROVE pages[p].slots[i].row <= F
  <2>1. RowOf(p, i, pages[p].slots[i])
    BY DEF Exact, RowsInv, RowsExact
  <2>2. CASE p = 0 /\ i <= initial /\ pages[p].slots[i].row = -i
    <3>1. i \in 1 .. Capacity /\ Capacity \in Nat
      BY SlotFacts, HeapBounds DEF Typed
    <3> QED BY <2>2, <3>1
  <2> QED BY <1>1, <2>1, <2>2 DEF RowOf
<1>3. ASSUME pages[p].exists, ~(p = 0 /\ initial > 0)
      PROVE  \E n \in 1 .. F : IsNewPage(log[n]) /\ log[n].page = p
  <2>1. Opened(p)
    BY <1>3 DEF Exact, PagesExact
  <2> QED BY <1>1, <2>1 DEF Opened
<1>4. StoredMarks(p, F)
  <2> SUFFICES ASSUME NEW i \in DOMAIN pages[p].slots
               PROVE  LET s == pages[p].slots[i] IN
                      /\ \/ s.xmax = NULL_XID
                         \/ s.xmax = s.xmin /\ s.xmin \notin Live
                         \/ DeletesIn(log, 1 .. F, s.xmax, p, i)
                      /\ s.xmin \in RolledBack(log) => s.xmax = s.xmin
                      /\ s.xmax \in RolledBack(log) => s.xmax = s.xmin
    BY DEF StoredMarks
  <2> DEFINE s == pages[p].slots[i]
  <2>1. MarkOf(p, i, s)
    BY DEF Exact, RowsInv, MarksExact
  <2>2. Deletes(s.xmax, p, i) => DeletesIn(log, 1 .. F, s.xmax, p, i)
    <3> HIDE DEF s
    <3> QED BY <1>1 DEF Deletes, DeletesIn
  <2>3. Live \cap RolledBack(log) = {} /\ NULL_XID \notin Live /\ NULL_XID \notin RolledBack(log)
    BY LiveNotRolledBack DEF Exact, RecoverInv
  <2> HIDE DEF s
  <2>4. CASE s.xmin \in Live \cup {NULL_XID}
    <3>1. s.xmax = NULL_XID \/ (s.xmax \in Live /\ Deletes(s.xmax, p, i))
      BY <2>1, <2>4 DEF MarkOf
    <3> QED BY <2>2, <2>3, <2>4, <3>1 DEF s
  <2>5. CASE s.xmin \notin Live \cup {NULL_XID}
    <3>1. s.xmax = s.xmin
      BY <2>1, <2>5 DEF MarkOf
    <3> QED BY <2>5, <3>1 DEF s
  <2> QED BY <2>4, <2>5
<1> QED BY <1>2, <1>3, <1>4 DEF StoredRows

LEMMA StoredRecord ==
  ASSUME Typed, Exact, NEW n \in DOMAIN log, log[n].page \in PageId
  PROVE  Stored(n) /\ (log[n].xid \notin Live => StoredUndone(n))
<1> DEFINE r == log[n]
           p == r.page
           i == r.slot
<1>0. log[n] \in RecordType /\ RecordShape(log[n])
  BY DEF Typed, Exact, LogShape
<1>1. IsNewPage(r) => pages[p].exists
  BY DEF Exact, PagesExact, Opened
<1>2. IsInsert(r) => i \in DOMAIN pages[p].slots /\ pages[p].slots[i].row = n
  BY DEF Exact, RowsInv, InsertsPresent
<1>3. IsDelete(r) => i \in DOMAIN pages[p].slots
                     /\ pages[p].slots[i].xmin \in Committed(log) \cup {NULL_XID, r.xid}
  BY DEF Exact, RowsInv, DeletesExact
<1>4. ASSUME i \in DOMAIN pages[p].slots PROVE MarkOf(p, i, pages[p].slots[i]) /\ RowOf(p, i, pages[p].slots[i])
  BY <1>4 DEF Exact, RowsInv, MarksExact, RowsExact
<1>5. IsDelete(r) => Deletes(r.xid, p, i)
  BY DEF Deletes, DeletesIn
<1>6. ASSUME IsDelete(r), r.xid \in Live PROVE pages[p].slots[i].xmax = r.xid
  <2>1. pages[p].slots[i].xmin \in Live \cup {NULL_XID}
    BY <1>3, <1>6 DEF Live
  <2> QED BY <1>3, <1>4, <1>5, <1>6, <2>1 DEF MarkOf
<1>7. Stored(n)
  BY <1>1, <1>2, <1>3, <1>6 DEF Stored
<1>8. ASSUME r.xid \notin Live, i \in DOMAIN pages[p].slots, IsInsert(r) PROVE pages[p].slots[i].xmax = r.xid
  <2>1. pages[p].slots[i].row = n
    BY <1>2, <1>8
  <2>2. n \in Nat /\ n >= 1
    BY DEF Typed
  <2>3. pages[p].slots[i].xmin = r.xid
    <3>1. ~(p = 0 /\ i <= initial /\ pages[p].slots[i].row = -i)
      <4>1. i \in 1 .. Capacity /\ Capacity \in Nat
        BY <1>8, SlotFacts, HeapBounds DEF Typed
      <4> QED BY <2>1, <2>2, <4>1
    <3> QED BY <1>4, <1>8, <2>1, <3>1 DEF RowOf
  <2>4. r.xid # NULL_XID
    BY <1>0 DEF RecordType, Xid, NULL_XID
  <2> QED BY <1>4, <1>8, <2>3, <2>4 DEF MarkOf
<1>9. ASSUME r.xid \notin Live, i \in DOMAIN pages[p].slots, IsDelete(r), pages[p].slots[i].xmin # r.xid
      PROVE  pages[p].slots[i].xmax # r.xid
  <2>1. r.xid # NULL_XID
    BY <1>0 DEF RecordType, Xid, NULL_XID
  <2> QED BY <1>4, <1>9, <2>1 DEF MarkOf
<1> QED BY <1>7, <1>8, <1>9 DEF StoredUndone

\* The pages W are written to the table file, and the log far enough.
Written(W) ==
  /\ log' = log /\ pages' = pages /\ initial' = initial /\ Live' = Live
  /\ disk' = [p \in PageId |-> IF p \in W THEN pages[p] ELSE disk[p]]
  /\ flushed_lsn_' \in flushed_lsn_ .. Len(log)
  /\ \A p \in W : pages[p].lsn <= flushed_lsn_'
  /\ undone' = undone \ W
  /\ active' \subseteq active

LEMMA WrittenQuiet ==
  ASSUME Typed, Exact, NEW W \in SUBSET PageId, Written(W)
  PROVE  LogShape(log') /\ RowsInv' /\ PagesExact' /\ LinksExact' /\ disk' \in PagesType
<1>1. Quiet
  BY DEF Written, Quiet, Typed
<1>2. RowsInv' /\ PagesExact' /\ LinksExact'
  BY <1>1, QuietRows, QuietPages, QuietLinks DEF Exact, RowsInv
<1>3. disk' \in PagesType
  BY DEF Written, PagesType, Typed
<1> QED BY <1>2, <1>3 DEF Written, Exact

LEMMA WrittenDisk ==
  ASSUME Typed, Exact, NEW W \in SUBSET PageId, Written(W)
  PROVE  DiskRows' /\ DiskMarks'
<1> DEFINE F == flushed_lsn_'
<1>0. F \in Nat /\ flushed_lsn_ <= F /\ flushed_lsn_ \in Nat /\ Len(log) \in Nat
  BY DEF Written, Typed
<1>1. ASSUME NEW p \in PageId PROVE disk'[p] = IF p \in W THEN pages[p] ELSE disk[p]
  BY DEF Written
<1>2. ASSUME NEW p \in W PROVE StoredRows(p, F) /\ StoredMarks(p, F) /\ pages[p].lsn <= F
  BY <1>0, StoredPage DEF Written
<1>3. log' = log /\ pages' = pages /\ initial' = initial /\ undone' = undone \ W /\ Live' = Live
  BY DEF Written
<1>4. DiskRows /\ DiskMarks /\ Forward(pages) /\ InitialPresent /\ PagesExact
  BY DEF Exact, RecoverInv, LinksExact, RowsInv
<1> HIDE DEF F
<1>5. ASSUME NEW p \in PageId, NEW i \in DOMAIN disk'[p].slots
      PROVE  /\ i \in DOMAIN pages[p].slots
             /\ disk'[p].slots[i].row = pages[p].slots[i].row
             /\ disk'[p].slots[i].xmin = pages[p].slots[i].xmin
             /\ disk'[p].slots[i].row <= F
  <2>1. CASE p \in W
    BY <1>1, <1>2, <2>1 DEF StoredRows
  <2>2. CASE p \notin W
    <3>1. disk'[p] = disk[p]
      BY <1>1, <2>2
    <3>2. disk[p].slots[i].row \in Int
      BY <3>1, SlotFacts DEF Typed
    <3> QED BY <1>0, <1>4, <3>1, <3>2 DEF DiskRows
  <2> QED BY <2>1, <2>2
<1>6. \A i \in 1 .. initial : i \in DOMAIN disk'[0].slots
  BY <1>1, <1>4, HeapBounds DEF DiskRows, InitialPresent, PageId
<1>7. \A p \in PageId : ~disk'[p].exists => disk'[p] = NoPage
  BY <1>1, <1>4 DEF DiskRows, PagesExact
<1>8. ASSUME NEW p \in PageId, disk'[p].exists
      PROVE  \/ p = 0 /\ initial > 0
             \/ \E n \in 1 .. F : IsNewPage(log[n]) /\ log[n].page = p
  <2>1. CASE p \in W
    BY <1>1, <1>2, <1>8, <2>1 DEF StoredRows
  <2>2. CASE p \notin W
    BY <1>0, <1>1, <1>4, <1>8, <2>2 DEF DiskRows
  <2> QED BY <2>1, <2>2
<1>9. initial > 0 => disk'[0].exists
  <2>1. 0 \in PageId
    BY HeapBounds DEF PageId
  <2> QED BY <1>1, <1>4, <2>1 DEF DiskRows, PagesExact
<1>10. ASSUME NEW p \in PageId PROVE disk'[p].lsn <= F
  <2>1. disk[p].lsn \in Int
    BY PageFacts DEF Typed
  <2> QED BY <1>0, <1>1, <1>2, <1>4, <2>1 DEF DiskRows
<1>11. Forward(disk')
  BY <1>1, <1>4 DEF Forward, DiskRows
<1>12. ASSUME NEW p \in 1 .. MaxPage, OpenedByRolledBack(p), p - 1 \notin undone \ W
       PROVE  disk'[p - 1].next = pages[p - 1].next
  <2>1. p - 1 \in PageId
    BY HeapBounds DEF PageId
  <2> QED BY <1>1, <1>4, <1>12, <2>1 DEF DiskRows
<1>13. DiskRows'
  <2>1. \A p : OpenedByRolledBack(p)' <=> OpenedByRolledBack(p)
    BY <1>3 DEF OpenedByRolledBack, OpenedBy
  <2>2. \A p \in 1 .. MaxPage : OpenedByRolledBack(p)' /\ p - 1 \notin undone' =>
          disk'[p - 1].next = pages'[p - 1].next
    BY <1>3, <1>12, <2>1
  <2> QED BY <1>3, <1>5, <1>6, <1>7, <1>8, <1>9, <1>10, <1>11, <2>2 DEF DiskRows, F
<1>14. DiskMarks'
  <2> SUFFICES ASSUME NEW p \in PageId, NEW i \in DOMAIN disk'[p].slots
               PROVE  LET s == disk'[p].slots[i] IN
                      /\ \/ s.xmax = NULL_XID
                         \/ s.xmax = s.xmin /\ s.xmin \notin Live
                         \/ DeletesIn(log, 1 .. F, s.xmax, p, i)
                      /\ p \notin undone \ W =>
                           /\ s.xmin \in RolledBack(log) => s.xmax = s.xmin
                           /\ s.xmax \in RolledBack(log) => s.xmax = s.xmin
    BY <1>3 DEF DiskMarks, F
  <2>1. CASE p \in W
    BY <1>1, <1>2, <2>1 DEF StoredMarks
  <2>2. CASE p \notin W
    <3>1. disk'[p] = disk[p]
      BY <1>1, <2>2
    <3>2. ASSUME NEW y, DeletesIn(log, 1 .. flushed_lsn_, y, p, i) PROVE DeletesIn(log, 1 .. F, y, p, i)
      BY <1>0, <3>2 DEF DeletesIn
    <3> QED BY <1>4, <2>2, <3>1, <3>2 DEF DiskMarks
  <2> QED BY <2>1, <2>2
<1> QED BY <1>13, <1>14

\* What is now in the table file.
LEMMA WrittenRecord ==
  ASSUME Typed, Exact, NEW W \in SUBSET PageId, Written(W), NEW n \in DOMAIN log, log[n].page \in PageId
  PROVE  /\ ~OnDisk(n)' => /\ log[n].page \notin W /\ ~OnDisk(n)
                           /\ disk'[log[n].page] = disk[log[n].page]
         /\ log[n].xid \notin Live /\ log[n].page \in W => UndoneOnDisk(n)'
         /\ log[n].page \notin W => (UndoneOnDisk(n)' <=> UndoneOnDisk(n))
<1>1. disk'[log[n].page] = IF log[n].page \in W THEN pages[log[n].page] ELSE disk[log[n].page]
  BY DEF Written
<1>2. Stored(n) /\ (log[n].xid \notin Live => StoredUndone(n))
  BY StoredRecord
<1>3. log' = log /\ Live' = Live
  BY DEF Written
<1>4. CASE log[n].page \in W
  <2>1. OnDisk(n)'
    BY <1>1, <1>2, <1>3, <1>4 DEF OnDisk, Stored
  <2>2. log[n].xid \notin Live => UndoneOnDisk(n)'
    BY <1>1, <1>2, <1>3, <1>4 DEF UndoneOnDisk, StoredUndone
  <2> QED BY <1>4, <2>1, <2>2
<1>5. CASE log[n].page \notin W
  <2>1. OnDisk(n)' <=> OnDisk(n)
    BY <1>1, <1>3, <1>5 DEF OnDisk
  <2>2. UndoneOnDisk(n)' <=> UndoneOnDisk(n)
    BY <1>1, <1>3, <1>5 DEF UndoneOnDisk
  <2> QED BY <1>1, <1>5, <2>1, <2>2
<1> QED BY <1>4, <1>5

LEMMA WrittenCoverage ==
  ASSUME Typed, Exact, NEW W \in SUBSET PageId, Written(W),
         \A p \in PageId \ W : dpt_'[p] = dpt_[p],
         \A p \in PageId : dpt_'[p] <= Len(log) /\ checkpoint'.dpt[p] <= checkpoint'.pos,
         \A n \in DOMAIN log : log[n].page \in PageId \ W =>
           checkpoint' = checkpoint \/ checkpoint'.dpt[log[n].page] = dpt_[log[n].page]
  PROVE  Coverage'
<1>1. log' = log
  BY DEF Written
<1>2. ASSUME NEW n \in DOMAIN log, log[n].page \in PageId, ~OnDisk(n)'
      PROVE  /\ n > disk'[log[n].page].lsn
             /\ InRange(dpt_, n)'
             /\ n <= checkpoint'.pos => InRange(checkpoint.dpt, n)'
  <2>1. log[n].page \notin W /\ ~OnDisk(n) /\ disk'[log[n].page] = disk[log[n].page]
    BY <1>2, WrittenRecord
  <2>2. n > disk[log[n].page].lsn /\ InRange(dpt_, n) /\ (n <= checkpoint.pos => InRange(checkpoint.dpt, n))
    BY <1>2, <2>1 DEF Exact, RecoverInv, Coverage
  <2>3. InRange(dpt_, n)'
    BY <1>1, <1>2, <2>1, <2>2 DEF InRange
  <2>4. n <= checkpoint'.pos => InRange(checkpoint.dpt, n)'
    <3>1. CASE checkpoint' = checkpoint
      BY <1>1, <2>2, <3>1 DEF InRange
    <3>2. CASE checkpoint'.dpt[log[n].page] = dpt_[log[n].page]
      BY <1>1, <2>2, <3>2 DEF InRange
    <3> QED BY <1>2, <2>1, <3>1, <3>2
  <2> QED BY <2>1, <2>2, <2>3, <2>4
<1> QED BY <1>1, <1>2 DEF Coverage

LEMMA FlushType ==
  ASSUME Typed, NEW p \in PageId, FlushPage(p), initial' = initial, gaps = {}, Exact
  PROVE  Typed' /\ Written({p})
<1>1. pages[p].lsn \in 0 .. Len(log) /\ flushed_lsn_ \in 0 .. Len(log) /\ Len(log) \in Nat
  BY PageFacts DEF Typed, Exact, PagesExact
<1>2. flushed_lsn_' \in flushed_lsn_ .. Len(log) /\ pages[p].lsn <= flushed_lsn_'
  BY <1>1 DEF FlushPage
<1>3. UNCHANGED <<pages, log, att_, checkpoint, active, next_xid_, control_xid>>
  BY DEF FlushPage, xactVars
<1>4. disk' = [o \in PageId |-> IF o \in {p} THEN pages[o] ELSE disk[o]]
  BY DEF FlushPage, Typed, PagesType
<1>5. disk' \in PagesType
  BY <1>4 DEF Typed, PagesType
<1>6. dpt_' \in [PageId -> 0 .. MaxLsn]
  BY HeapBounds DEF FlushPage, Typed, NoLsn
<1>7. Typed'
  BY <1>1, <1>2, <1>3, <1>5, <1>6 DEF Typed, FlushPage
<1>8. Live' = Live
  BY <1>3 DEF Live
<1>9. undone' = undone \ {p}
  BY DEF FlushPage
<1>10. Written({p})
  BY <1>2, <1>3, <1>4, <1>8, <1>9 DEF Written
<1> QED BY <1>7, <1>10

LEMMA FlushExact ==
  ASSUME Typed, NEW p \in PageId, FlushPage(p), initial' = initial, gaps = {}, Exact
  PROVE  Exact'
<1>1. Written({p}) /\ {p} \in SUBSET PageId
  BY FlushType
<1>2. LogShape(log') /\ RowsInv' /\ PagesExact' /\ LinksExact' /\ DiskRows' /\ DiskMarks'
  BY <1>1, WrittenQuiet, WrittenDisk
<1>3. UNCHANGED <<pages, log, att_, checkpoint, active>> /\ dpt_' = [dpt_ EXCEPT ![p] = NoLsn]
  BY DEF FlushPage, xactVars
<1>4. /\ DOMAIN log = 1 .. Len(log) /\ Len(log) \in Nat /\ dpt_ \in [PageId -> 0 .. MaxLsn]
      /\ checkpoint.pos \in 0 .. Len(log) /\ active \subseteq att_
  BY DEF Typed
<1>5. \A o \in PageId : dpt_'[o] = IF o = p THEN NoLsn ELSE dpt_[o]
  BY <1>3, <1>4
<1>6. Coverage /\ XactsExact /\ Settled(att_, dpt_, Len(log)) /\ Settled(checkpoint.att, checkpoint.dpt, checkpoint.pos)
  BY DEF Exact, RecoverInv
<1>7. Coverage'
  <2>1. \A o \in PageId : dpt_'[o] <= Len(log) /\ checkpoint'.dpt[o] <= checkpoint'.pos
    BY <1>3, <1>4, <1>5, <1>6 DEF Coverage, NoLsn
  <2> QED BY <1>1, <1>3, <1>5, <2>1, WrittenCoverage
<1>8. Committed(log) \subseteq Ended /\ Live = Committed(log) \cup active /\ Ended' = Ended
  BY <1>3 DEF Ended, Live
<1>9. ASSUME NEW n \in DOMAIN log, log[n].page \in PageId, UndoneOnDisk(n), log[n].xid \notin Live
      PROVE  UndoneOnDisk(n)'
  BY <1>1, <1>9, WrittenRecord
<1>10. Settled(att_, dpt_, Len(log))'
  <2> SUFFICES ASSUME NEW n \in 1 .. Len(log), log[n].page \in PageId, log[n].xid \notin att_ \cup Ended
               PROVE  ~InRange(dpt_, n)' /\ UndoneOnDisk(n)'
    BY <1>3, <1>8 DEF Settled
  <2>1. ~InRange(dpt_, n) /\ UndoneOnDisk(n)
    BY <1>6 DEF Settled
  <2>2. log[n].xid \notin Live
    BY <1>4, <1>8
  <2>3. ~InRange(dpt_, n)'
    BY <1>3, <1>5, <2>1 DEF InRange
  <2> QED BY <1>4, <1>9, <2>1, <2>2, <2>3
<1>11. Settled(checkpoint.att, checkpoint.dpt, checkpoint.pos)'
  <2> SUFFICES ASSUME NEW n \in 1 .. checkpoint.pos, log[n].page \in PageId,
                      log[n].xid \notin checkpoint.att \cup Ended
               PROVE  ~InRange(checkpoint.dpt, n)' /\ UndoneOnDisk(n)'
    BY <1>3, <1>8 DEF Settled
  <2>1. ~InRange(checkpoint.dpt, n) /\ UndoneOnDisk(n) /\ n \in DOMAIN log
    BY <1>4, <1>6 DEF Settled
  <2>2. log[n].xid \notin Live
    BY <1>6, <1>8 DEF XactsExact
  <2>3. ~InRange(checkpoint.dpt, n)'
    BY <1>3, <2>1 DEF InRange
  <2> QED BY <1>9, <2>1, <2>2, <2>3
<1>12. XactsExact'
  <2>1. flushed_lsn_ <= flushed_lsn_' /\ flushed_lsn_ \in Int /\ flushed_lsn_' \in Int
    BY <1>1 DEF Written, Typed
  <2>2. ASSUME NEW n \in DOMAIN log, IsEnd(log[n]) PROVE n <= flushed_lsn_'
    <3>1. n <= flushed_lsn_ /\ n \in Int
      BY <1>4, <1>6, <2>2 DEF XactsExact
    <3> QED BY <2>1, <3>1
  <2> QED BY <1>3, <1>6, <1>8, <2>2 DEF XactsExact
<1> QED BY <1>2, <1>7, <1>10, <1>11, <1>12 DEF Exact, RecoverInv

LEMMA CheckpointType ==
  ASSUME Typed, Checkpoint, initial' = initial
  PROVE  Typed'
<1>1. UNCHANGED <<pages, disk, log, att_, dpt_, active, next_xid_, control_xid, undone>>
  BY DEF Checkpoint, xactVars
<1>2. flushed_lsn_' = Len(log) /\ Len(log) \in 0 .. MaxLsn /\ dpt_ \in [PageId -> 0 .. MaxLsn] /\ att_ \in SUBSET Xid
  BY HeapBounds DEF Checkpoint, Typed
<1>3. checkpoint' = [pos |-> Len(log), att |-> att_, dpt |-> dpt_]
  BY DEF Checkpoint
<1>4. /\ checkpoint' \in [pos : 0 .. MaxLsn, att : SUBSET Xid, dpt : [PageId -> 0 .. MaxLsn]]
      /\ checkpoint'.pos <= flushed_lsn_'
  BY <1>2, <1>3
<1> QED BY <1>1, <1>2, <1>4 DEF Typed

LEMMA CheckpointExact ==
  ASSUME Typed, Checkpoint, initial' = initial, Exact
  PROVE  Exact'
<1>1. UNCHANGED <<pages, disk, log, att_, dpt_, active, undone>>
  BY DEF Checkpoint, xactVars
<1>2. /\ flushed_lsn_' = Len(log) /\ flushed_lsn_ \in 0 .. Len(log) /\ Len(log) \in Nat
      /\ DOMAIN log = 1 .. Len(log) /\ active \subseteq att_
      /\ checkpoint'.pos = Len(log) /\ checkpoint'.att = att_ /\ checkpoint'.dpt = dpt_
  BY DEF Checkpoint, Typed
<1>3. Live' = Live /\ Ended' = Ended
  BY <1>1 DEF Live, Ended
<1>4. Written({})
  <2>1. disk' = [p \in PageId |-> IF p \in {} THEN pages[p] ELSE disk[p]]
    BY <1>1 DEF Typed, PagesType
  <2> QED BY <1>1, <1>2, <1>3, <2>1 DEF Written
<1>5. LogShape(log') /\ RowsInv' /\ PagesExact' /\ LinksExact' /\ DiskRows' /\ DiskMarks'
  BY <1>4, WrittenQuiet, WrittenDisk
<1>6. Coverage /\ XactsExact /\ Settled(att_, dpt_, Len(log))
  BY DEF Exact, RecoverInv
<1>7. Coverage'
  <2>1. \A p \in PageId : dpt_'[p] <= Len(log) /\ checkpoint'.dpt[p] <= checkpoint'.pos
    BY <1>1, <1>2, <1>6 DEF Coverage
  <2> QED BY <1>1, <1>2, <1>4, <2>1, WrittenCoverage
<1>8. Settled(att_, dpt_, Len(log))' /\ Settled(checkpoint.att, checkpoint.dpt, checkpoint.pos)'
  BY <1>1, <1>2, <1>3, <1>6 DEF Settled, InRange, UndoneOnDisk
<1>9. XactsExact'
  <2>1. ASSUME NEW n \in DOMAIN log, IsEnd(log[n]) PROVE log[n].xid \notin att_
    BY <1>6, <2>1, EndsAreEnded DEF XactsExact
  <2> QED BY <1>1, <1>2, <1>3, <1>6, <2>1 DEF XactsExact
<1> QED BY <1>5, <1>7, <1>8, <1>9 DEF Exact, RecoverInv

\* The parts of a restart.
LEMMA RestartParts ==
  ASSUME Restart
  PROVE  /\ pages' = pages /\ disk' = pages /\ log' = log /\ next_xid_' = next_xid_ /\ control_xid' = next_xid_
         /\ active' = {} /\ att_' = {} /\ undone' = {} /\ flushed_lsn_' = Len(log)
         /\ checkpoint' = [pos |-> Len(log), att |-> att_,
                           dpt |-> [p \in PageId |-> IF pages[p] = disk[p] THEN dpt_[p] ELSE NoLsn]]
         /\ dpt_' = [p \in PageId |-> NoLsn]
         /\ gaps' = {} => active = {}
<1>1. /\ pages' = pages /\ disk' = pages /\ log' = log /\ next_xid_' = next_xid_ /\ control_xid' = next_xid_
      /\ active' = {} /\ att_' = {} /\ undone' = {} /\ flushed_lsn_' = Len(log)
      /\ checkpoint' = [pos |-> Len(log), att |-> att_,
                        dpt |-> [p \in PageId |-> IF pages[p] = disk[p] THEN dpt_[p] ELSE NoLsn]]
      /\ dpt_' = [p \in PageId |-> NoLsn]
  BY Zenon DEF Restart
<1>2. gaps' = {} => active = {}
  BY Zenon DEF Restart
<1> QED BY <1>1, <1>2

LEMMA RestartType ==
  ASSUME Typed, Restart, initial' = initial
  PROVE  Typed'
<1>1. pages' = pages /\ disk' = pages /\ log' = log /\ next_xid_' = next_xid_ /\ control_xid' = next_xid_
      /\ active' = {} /\ att_' = {} /\ undone' = {} /\ flushed_lsn_' = Len(log)
  BY RestartParts
<1>2. Len(log) \in 0 .. MaxLsn /\ Len(log) \in 0 .. Len(log) /\ dpt_ \in [PageId -> 0 .. MaxLsn] /\ att_ \in SUBSET Xid
  BY HeapBounds DEF Typed
<1>3. dpt_' \in [PageId -> 0 .. MaxLsn]
  BY RestartParts, HeapBounds DEF NoLsn
<1>4. /\ checkpoint' \in [pos : 0 .. MaxLsn, att : SUBSET Xid, dpt : [PageId -> 0 .. MaxLsn]]
      /\ checkpoint'.pos <= flushed_lsn_'
  <2> DEFINE d == [p \in PageId |-> IF pages[p] = disk[p] THEN dpt_[p] ELSE NoLsn]
  <2>1. d \in [PageId -> 0 .. MaxLsn]
    BY <1>2, HeapBounds DEF NoLsn
  <2>2. checkpoint' = [pos |-> Len(log), att |-> att_, dpt |-> d]
    BY RestartParts
  <2> HIDE DEF d
  <2> QED BY <1>1, <1>2, <2>1, <2>2
<1> QED BY <1>1, <1>2, <1>3, <1>4 DEF Typed

LEMMA RestartExact ==
  ASSUME Typed, Restart, initial' = initial, Exact, gaps' = {}
  PROVE  Exact'
<1>1. pages' = pages /\ disk' = pages /\ log' = log /\ active' = {} /\ att_' = {} /\ undone' = {} /\ active = {}
      /\ flushed_lsn_' = Len(log)
  BY RestartParts
<1>2. /\ flushed_lsn_ \in 0 .. Len(log) /\ Len(log) \in Nat /\ DOMAIN log = 1 .. Len(log)
      /\ dpt_ \in [PageId -> 0 .. MaxLsn]
      /\ checkpoint'.pos = Len(log) /\ checkpoint'.att = att_
      /\ \A p \in PageId : checkpoint'.dpt[p] = dpt_[p] \/ checkpoint'.dpt[p] = NoLsn
      /\ \A p \in PageId : dpt_'[p] = NoLsn
  BY RestartParts DEF Typed
<1>3. Live' = Live /\ Ended' = Ended /\ Live = Committed(log)
  BY <1>1 DEF Live, Ended
<1>4. Written(PageId)
  <2>1. disk' = [p \in PageId |-> IF p \in PageId THEN pages[p] ELSE disk[p]]
    BY <1>1 DEF Typed, PagesType
  <2>2. \A p \in PageId : pages[p].lsn <= Len(log)
    BY DEF Exact, PagesExact
  <2>3. undone' = undone \ PageId
    BY <1>1 DEF Typed
  <2> QED BY <1>1, <1>2, <1>3, <2>1, <2>2, <2>3 DEF Written
<1>5. LogShape(log') /\ RowsInv' /\ PagesExact' /\ LinksExact' /\ DiskRows' /\ DiskMarks'
  BY <1>4, WrittenQuiet, WrittenDisk
<1>6. Coverage /\ XactsExact /\ Settled(att_, dpt_, Len(log))
  BY DEF Exact, RecoverInv
<1>7. Coverage'
  <2>1. \A p \in PageId : dpt_'[p] <= Len(log) /\ checkpoint'.dpt[p] <= checkpoint'.pos
    BY <1>2, <1>6 DEF Coverage, NoLsn
  <2> QED BY <1>4, <2>1, WrittenCoverage
<1>8. ASSUME NEW n \in 1 .. Len(log), log[n].page \in PageId, log[n].xid \notin Ended
      PROVE  ~InRange(dpt_, n)' /\ UndoneOnDisk(n)'
  <2>1. log[n].xid \notin Live
    BY <1>3, <1>8 DEF Ended
  <2>2. UndoneOnDisk(n)'
    BY <1>2, <1>4, <1>8, <2>1, WrittenRecord
  <2> QED BY <1>1, <1>2, <1>8, <2>2 DEF InRange
<1>9. Settled(att_, dpt_, Len(log))'
  BY <1>1, <1>3, <1>8 DEF Settled
<1>10. Settled(checkpoint.att, checkpoint.dpt, checkpoint.pos)'
  <2> SUFFICES ASSUME NEW n \in 1 .. Len(log), log[n].page \in PageId, log[n].xid \notin att_ \cup Ended
               PROVE  ~InRange(checkpoint.dpt, n)' /\ UndoneOnDisk(n)'
    BY <1>1, <1>2, <1>3 DEF Settled
  <2>1. ~InRange(dpt_, n)
    BY <1>6 DEF Settled
  <2>2. ~InRange(checkpoint.dpt, n)'
    BY <1>1, <1>2, <2>1 DEF InRange
  <2> QED BY <1>8, <2>2
<1>11. XactsExact'
  <2>1. ASSUME NEW n \in DOMAIN log, IsEnd(log[n]) PROVE log[n].xid \notin att_
    BY <1>6, <2>1, EndsAreEnded DEF XactsExact
  <2> QED BY <1>1, <1>2, <1>3, <1>6, <2>1 DEF XactsExact
<1> QED BY <1>5, <1>7, <1>9, <1>10, <1>11 DEF Exact, RecoverInv

----------------------------------------------------------------------------
(* Inserting and deleting.                                                 *)

\* x logs one or two changes of page p, and keeps the rows that are there.
Change(x, p) ==
  /\ x \in active /\ p \in PageId
  /\ log' \in Seq(RecordType) /\ Len(log') \in Len(log) + 1 .. MaxLsn
  /\ \A n \in DOMAIN log : log'[n] = log[n] /\ n \in DOMAIN log'
  /\ \A n \in DOMAIN log' \ DOMAIN log : log'[n].xid = x /\ log'[n].page = p /\ ~IsEnd(log'[n])
  /\ Committed(log') = Committed(log) /\ RolledBack(log') = RolledBack(log)
  /\ UNCHANGED <<disk, flushed_lsn_, att_, checkpoint, active, undone, initial>>
  /\ pages' \in PagesType
  /\ \A o \in PageId : \A i \in DOMAIN pages[o].slots :
       /\ i \in DOMAIN pages'[o].slots
       /\ pages'[o].slots[i].row = pages[o].slots[i].row
       /\ pages'[o].slots[i].xmin = pages[o].slots[i].xmin
  /\ pages'[p].lsn = Len(log')
  /\ \A o \in PageId \ {p} : pages'[o].lsn = pages[o].lsn
  /\ \A o \in PageId : dpt_'[o] = dpt_[o] \/ (dpt_[o] = NoLsn /\ dpt_'[o] = Len(log) + 1)
  /\ dpt_'[p] # NoLsn
  /\ \A o \in 1 .. MaxPage : OpenedByRolledBack(o) => pages'[o - 1].next = pages[o - 1].next

\* The numbers of the records, old and new.
LEMMA ChangeLog ==
  ASSUME Typed, NEW x, NEW p, Change(x, p)
  PROVE  /\ Len(log) \in Nat /\ Len(log') \in Nat /\ Len(log) < Len(log')
         /\ DOMAIN log = 1 .. Len(log) /\ DOMAIN log' = 1 .. Len(log')
         /\ \A n \in 1 .. Len(log) : log'[n] = log[n]
         /\ \A n \in DOMAIN log' : n \in 1 .. Len(log) \/ n > Len(log)
         /\ Live' = Live /\ Ended' = Ended
<1>1. Len(log) \in Nat /\ log' \in Seq(RecordType) /\ Len(log') \in Len(log) + 1 .. MaxLsn /\ log \in Seq(RecordType)
  BY DEF Typed, Change
<1>2. Live' = Live /\ Ended' = Ended
  BY DEF Change, Live, Ended
<1>3. /\ Len(log') \in Nat /\ Len(log) < Len(log')
      /\ DOMAIN log = 1 .. Len(log) /\ DOMAIN log' = 1 .. Len(log')
  BY <1>1
<1>4. \A n \in 1 .. Len(log) : log'[n] = log[n]
  BY <1>3 DEF Change
<1> QED BY <1>1, <1>2, <1>3, <1>4

LEMMA ChangeType ==
  ASSUME Typed, NEW x, NEW p, Change(x, p), next_xid_' = next_xid_, control_xid' = control_xid,
         dpt_' \in [PageId -> 0 .. MaxLsn]
  PROVE  Typed'
<1>1. Len(log) \in Nat /\ Len(log') \in Nat /\ Len(log) < Len(log') /\ Len(log') <= MaxLsn
  BY ChangeLog DEF Change
<1> QED BY <1>1 DEF Change, Typed

LEMMA ChangeRecover ==
  ASSUME Typed, Exact, NEW x, NEW p, Change(x, p),
         \A o : OpenedByRolledBack(o)' => OpenedByRolledBack(o)
  PROVE  RecoverInv'
<1>0. /\ Len(log) \in Nat /\ Len(log') \in Nat /\ Len(log) < Len(log')
      /\ DOMAIN log = 1 .. Len(log) /\ DOMAIN log' = 1 .. Len(log')
      /\ \A n \in 1 .. Len(log) : log'[n] = log[n]
      /\ \A n \in DOMAIN log' : n \in 1 .. Len(log) \/ n > Len(log)
      /\ Live' = Live /\ Ended' = Ended
  BY ChangeLog
<1>1. UNCHANGED <<disk, flushed_lsn_, att_, checkpoint, active, undone, initial>>
  BY DEF Change
<1>2. /\ flushed_lsn_ \in 0 .. Len(log) /\ checkpoint.pos \in 0 .. flushed_lsn_ /\ active \subseteq att_
      /\ dpt_ \in [PageId -> 0 .. MaxLsn] /\ x \in active /\ p \in PageId
      /\ RolledBack(log') = RolledBack(log) /\ Committed(log') = Committed(log)
  BY DEF Typed, Change
<1>3. /\ DiskRows /\ DiskMarks /\ Coverage /\ XactsExact
      /\ Settled(att_, dpt_, Len(log)) /\ Settled(checkpoint.att, checkpoint.dpt, checkpoint.pos)
  BY DEF Exact, RecoverInv
<1>4. \A n \in 1 .. flushed_lsn_ : n \in 1 .. Len(log) /\ log'[n] = log[n]
  BY <1>0, <1>2
<1>5. DiskRows'
  <2>1. ASSUME NEW o \in PageId, NEW i \in DOMAIN disk[o].slots
        PROVE  /\ i \in DOMAIN pages'[o].slots
               /\ disk[o].slots[i].row = pages'[o].slots[i].row
               /\ disk[o].slots[i].xmin = pages'[o].slots[i].xmin
               /\ disk[o].slots[i].row <= flushed_lsn_
    BY <1>3 DEF DiskRows, Change
  <2>2. ASSUME NEW o \in PageId, disk[o].exists
        PROVE  \/ o = 0 /\ initial > 0
               \/ \E n \in 1 .. flushed_lsn_ : IsNewPage(log'[n]) /\ log'[n].page = o
    BY <1>3, <1>4, <2>2 DEF DiskRows
  <2>3. ASSUME NEW o \in 1 .. MaxPage, OpenedByRolledBack(o)', o - 1 \notin undone
        PROVE  disk[o - 1].next = pages'[o - 1].next
    BY <1>3, <2>3 DEF DiskRows, Change
  <2> QED BY <1>1, <1>3, <2>1, <2>2, <2>3 DEF DiskRows
<1>6. DiskMarks'
  <2>1. ASSUME NEW y, NEW o, NEW i, DeletesIn(log, 1 .. flushed_lsn_, y, o, i)
        PROVE  DeletesIn(log', 1 .. flushed_lsn_, y, o, i)
    BY <1>4, <2>1 DEF DeletesIn
  <2> QED BY <1>0, <1>1, <1>2, <1>3, <2>1 DEF DiskMarks
<1>7. Coverage'
  <2>1. ASSUME NEW n \in DOMAIN log', log'[n].page \in PageId, ~OnDisk(n)'
        PROVE  /\ n > disk[log'[n].page].lsn
               /\ InRange(dpt_, n)'
               /\ n <= checkpoint.pos => InRange(checkpoint.dpt, n)'
    <3>1. CASE n \in 1 .. Len(log)
      <4>1. log'[n] = log[n] /\ n \in DOMAIN log
        BY <1>0, <3>1
      <4>2. ~OnDisk(n)
        BY <1>0, <1>1, <2>1, <4>1 DEF OnDisk
      <4>3. /\ n > disk[log[n].page].lsn
            /\ InRange(dpt_, n)
            /\ n <= checkpoint.pos => InRange(checkpoint.dpt, n)
        BY <1>3, <2>1, <4>1, <4>2 DEF Coverage
      <4>4. dpt_'[log[n].page] = dpt_[log[n].page]
        BY <2>1, <4>1, <4>3 DEF Change, InRange
      <4> QED BY <1>1, <4>1, <4>3, <4>4 DEF InRange
    <3>2. CASE n > Len(log)
      <4>1. n \in Nat /\ n \notin DOMAIN log
        BY <1>0, <3>2
      <4>2. log'[n].page = p
        BY <4>1 DEF Change
      <4>3. disk[p].lsn <= flushed_lsn_ /\ disk[p].lsn \in Int
        BY <1>2, <1>3, PageFacts DEF DiskRows, Typed
      <4>4. dpt_[p] \in Nat /\ dpt_[p] <= Len(log)
        BY <1>2, <1>3 DEF Coverage
      <4>5. dpt_'[p] <= n /\ dpt_'[p] # NoLsn
        <5>1. dpt_'[p] = dpt_[p] \/ dpt_'[p] = Len(log) + 1
          BY <1>2 DEF Change
        <5>2. dpt_'[p] # NoLsn
          BY DEF Change
        <5> QED BY <1>0, <3>2, <4>1, <4>4, <5>1, <5>2
      <4>6. InRange(dpt_, n)'
        BY <4>2, <4>5 DEF InRange
      <4> QED BY <1>0, <1>2, <3>2, <4>1, <4>2, <4>3, <4>6
    <3> QED BY <1>0, <3>1, <3>2
  <2>2. ASSUME NEW o \in PageId PROVE dpt_'[o] <= Len(log') /\ checkpoint.dpt[o] <= checkpoint.pos
    <3>1. dpt_[o] \in Nat /\ dpt_[o] <= Len(log) /\ checkpoint.dpt[o] <= checkpoint.pos
      BY <1>2, <1>3 DEF Coverage
    <3>2. dpt_'[o] = dpt_[o] \/ dpt_'[o] = Len(log) + 1
      BY DEF Change
    <3> QED BY <1>0, <3>1, <3>2
  <2> QED BY <1>1, <2>1, <2>2 DEF Coverage
<1>8. ASSUME NEW n \in 1 .. Len(log) PROVE UndoneOnDisk(n)' <=> UndoneOnDisk(n)
  BY <1>0, <1>1, <1>8 DEF UndoneOnDisk
<1>9. Settled(att_, dpt_, Len(log))'
  <2> SUFFICES ASSUME NEW n \in 1 .. Len(log'), log'[n].page \in PageId, log'[n].xid \notin att_ \cup Ended
               PROVE  ~InRange(dpt_, n)' /\ UndoneOnDisk(n)'
    BY <1>0, <1>1 DEF Settled
  <2>1. n \in 1 .. Len(log)
    <3>1. n \in DOMAIN log' \ DOMAIN log => log'[n].xid = x
      BY DEF Change
    <3> QED BY <1>0, <1>2, <3>1
  <2>2. log'[n] = log[n]
    BY <1>0, <2>1
  <2>3. ~InRange(dpt_, n) /\ UndoneOnDisk(n)
    BY <1>3, <2>1, <2>2 DEF Settled
  <2>4. ~InRange(dpt_, n)'
    <3>1. CASE dpt_'[log[n].page] = dpt_[log[n].page]
      BY <2>2, <2>3, <3>1 DEF InRange
    <3>2. CASE dpt_'[log[n].page] = Len(log) + 1
      BY <1>0, <2>1, <2>2, <3>2 DEF InRange
    <3> QED BY <2>2, <3>1, <3>2 DEF Change
  <2> QED BY <1>8, <2>1, <2>3, <2>4
<1>10. Settled(checkpoint.att, checkpoint.dpt, checkpoint.pos)'
  <2> SUFFICES ASSUME NEW n \in 1 .. checkpoint.pos, log'[n].page \in PageId,
                      log'[n].xid \notin checkpoint.att \cup Ended
               PROVE  ~InRange(checkpoint.dpt, n)' /\ UndoneOnDisk(n)'
    BY <1>0, <1>1 DEF Settled
  <2>1. n \in 1 .. Len(log) /\ log'[n] = log[n]
    BY <1>0, <1>2
  <2>2. ~InRange(checkpoint.dpt, n) /\ UndoneOnDisk(n)
    BY <1>3, <2>1 DEF Settled
  <2> QED BY <1>1, <1>8, <2>1, <2>2 DEF InRange
<1>11. XactsExact'
  <2>1. ASSUME NEW n \in DOMAIN log', IsEnd(log'[n]) PROVE n <= flushed_lsn_
    <3>1. n \in DOMAIN log
      BY <2>1 DEF Change
    <3> QED BY <1>0, <1>3, <2>1, <3>1 DEF XactsExact
  <2>2. ASSUME NEW n \in 1 .. checkpoint.pos
        PROVE  /\ IsEnd(log'[n]) => log'[n].xid \notin checkpoint.att
               /\ log'[n].xid \in active => log'[n].xid \in checkpoint.att
    <3>1. log'[n] = log[n]
      BY <1>0, <1>2
    <3> QED BY <1>3, <3>1 DEF XactsExact
  <2> QED BY <1>0, <1>1, <1>2, <1>3, <2>1, <2>2 DEF XactsExact
<1> QED BY <1>5, <1>6, <1>7, <1>9, <1>10, <1>11 DEF RecoverInv

\* What a change keeps of the rows that are there.
LEMMA ChangeKeeps ==
  ASSUME Typed, Exact, NEW x, NEW p, Change(x, p)
  PROVE  /\ \A o \in PageId : \A i \in DOMAIN pages[o].slots :
              i \in DOMAIN pages'[o].slots /\ RowOf(o, i, pages[o].slots[i])'
         /\ \A n \in DOMAIN log : IsInsert(log[n]) =>
              /\ log[n].slot \in DOMAIN pages'[log[n].page].slots
              /\ pages'[log[n].page].slots[log[n].slot].row = n
         /\ InitialPresent'
         /\ \A n \in DOMAIN log : IsDelete(log[n]) =>
              /\ log[n].slot \in DOMAIN pages'[log[n].page].slots
              /\ LET s == pages'[log[n].page].slots[log[n].slot] IN
                 /\ log[n].row = s.row /\ s.row < n
                 /\ s.xmin \in Committed(log) \cup {NULL_XID, log[n].xid}
<1>0. /\ \A n \in DOMAIN log : log'[n] = log[n] /\ n \in DOMAIN log'
      /\ initial' = initial /\ Committed(log') = Committed(log)
      /\ \A o \in PageId : \A i \in DOMAIN pages[o].slots :
           /\ i \in DOMAIN pages'[o].slots
           /\ pages'[o].slots[i].row = pages[o].slots[i].row
           /\ pages'[o].slots[i].xmin = pages[o].slots[i].xmin
  BY DEF Change
<1>1. RowsExact /\ InsertsPresent /\ InitialPresent /\ DeletesExact
  BY DEF Exact, RowsInv
<1>2. ASSUME NEW n \in DOMAIN log, IsInsert(log[n]) \/ IsDelete(log[n]) PROVE log[n].page \in PageId
  BY <1>2 DEF Exact, LogShape, RecordShape
<1>3. ASSUME NEW o \in PageId, NEW i \in DOMAIN pages[o].slots
      PROVE  RowOf(o, i, pages[o].slots[i])'
  <2>1. RowOf(o, i, pages[o].slots[i])
    BY <1>1 DEF RowsExact
  <2> DEFINE s == pages[o].slots[i]
             t == pages'[o].slots[i]
  <2>2. t.row = s.row /\ t.xmin = s.xmin
    BY <1>0
  <2>3. \/ /\ s.row \in DOMAIN log' /\ IsInsert(log'[s.row])
           /\ log'[s.row].page = o /\ log'[s.row].slot = i /\ log'[s.row].xid = s.xmin
        \/ o = 0 /\ i <= initial' /\ s.row = -i /\ s.xmin = NULL_XID
    BY <1>0, <2>1 DEF RowOf
  <2>4. pages'[o].slots[i].row = pages[o].slots[i].row /\ pages'[o].slots[i].xmin = pages[o].slots[i].xmin
    BY <1>0
  <2>5. RowOf(o, i, pages[o].slots[i])'
    <3> HIDE DEF s, t
    <3>1. \/ /\ t.row \in DOMAIN log' /\ IsInsert(log'[t.row])
             /\ log'[t.row].page = o /\ log'[t.row].slot = i /\ log'[t.row].xid = t.xmin
          \/ o = 0 /\ i <= initial' /\ t.row = -i /\ t.xmin = NULL_XID
      BY <2>2, <2>3
    <3> QED BY <3>1 DEF t, RowOf
  <2> QED BY <2>5
<1>4. InitialPresent'
  <2>1. 0 \in PageId
    BY HeapBounds DEF PageId
  <2> QED BY <1>0, <1>1, <2>1 DEF InitialPresent
<1>5. ASSUME NEW n \in DOMAIN log, IsInsert(log[n])
      PROVE  /\ log[n].slot \in DOMAIN pages'[log[n].page].slots
             /\ pages'[log[n].page].slots[log[n].slot].row = n
  BY <1>0, <1>1, <1>2, <1>5 DEF InsertsPresent
<1>6. ASSUME NEW n \in DOMAIN log, IsDelete(log[n])
      PROVE  /\ log[n].slot \in DOMAIN pages'[log[n].page].slots
             /\ LET s == pages'[log[n].page].slots[log[n].slot] IN
                /\ log[n].row = s.row /\ s.row < n
                /\ s.xmin \in Committed(log) \cup {NULL_XID, log[n].xid}
  BY <1>0, <1>1, <1>2, <1>6 DEF DeletesExact
<1> QED BY <1>0, <1>3, <1>4, <1>5, <1>6

LEMMA ChangeLsns ==
  ASSUME Typed, Exact, NEW x, NEW p, Change(x, p)
  PROVE  /\ \A n \in DOMAIN log' : log'[n].page \in PageId =>
              n <= flushed_lsn_' \/ n <= pages'[log'[n].page].lsn
         /\ \A o \in PageId : pages'[o].lsn <= Len(log')
<1>0. /\ Len(log) \in Nat /\ Len(log') \in Nat /\ Len(log) < Len(log')
      /\ DOMAIN log = 1 .. Len(log) /\ DOMAIN log' = 1 .. Len(log')
      /\ \A n \in 1 .. Len(log) : log'[n] = log[n]
  BY ChangeLog
<1>1. ASSUME NEW o \in PageId, o # p PROVE pages'[o].lsn = pages[o].lsn
  BY <1>1 DEF Change
<1>2. pages'[p].lsn = Len(log') /\ flushed_lsn_' = flushed_lsn_ /\ p \in PageId
  BY DEF Change
<1>3. ASSUME NEW n \in DOMAIN log', log'[n].page \in PageId
      PROVE  n <= flushed_lsn_' \/ n <= pages'[log'[n].page].lsn
  <2>1. CASE log'[n].page = p
    BY <1>0, <1>2, <2>1
  <2>2. CASE log'[n].page # p
    <3>1. n \in 1 .. Len(log)
      BY <1>0, <2>2 DEF Change
    <3>2. log'[n] = log[n]
      BY <1>0, <3>1
    <3>3. n <= flushed_lsn_ \/ n <= pages[log[n].page].lsn
      BY <1>0, <1>3, <3>1, <3>2 DEF Exact, PagesExact
    <3> QED BY <1>1, <1>2, <1>3, <2>2, <3>2, <3>3
  <2> QED BY <2>1, <2>2
<1>4. ASSUME NEW o \in PageId PROVE pages'[o].lsn <= Len(log')
  <2>1. pages[o].lsn <= Len(log) /\ pages[o].lsn \in Int
    BY PageFacts DEF Exact, PagesExact, Typed
  <2> QED BY <1>0, <1>1, <1>2, <2>1
<1> QED BY <1>3, <1>4

\* One more record of an active transaction, not its end.
LEMMA OneRecord ==
  ASSUME Typed, Exact, NEW x \in active, NEW r \in RecordType, r.xid = x, ~IsEnd(r), log' = Append(log, r)
  PROVE  /\ Extended(log, r, log') /\ log' \in Seq(RecordType) /\ Len(log') = Len(log) + 1
         /\ DOMAIN log = 1 .. Len(log) /\ DOMAIN log' = 1 .. Len(log) + 1 /\ Len(log) \in Nat
         /\ \A n \in DOMAIN log : log'[n] = log[n] /\ n \in DOMAIN log' /\ (IsEnd(log[n]) => log[n].xid # x)
         /\ log'[Len(log) + 1] = r
         /\ \A n \in DOMAIN log' : n \notin DOMAIN log => n = Len(log) + 1
         /\ Committed(log') = Committed(log) /\ RolledBack(log') = RolledBack(log)
<1>1. Extended(log, r, log') /\ Len(log) \in Nat
  BY AppendExtends DEF Typed
<1>2. /\ log' \in Seq(RecordType) /\ Len(log') = Len(log) + 1
      /\ DOMAIN log = 1 .. Len(log) /\ DOMAIN log' = 1 .. Len(log) + 1
      /\ \A n \in 1 .. Len(log) : log'[n] = log[n]
      /\ log'[Len(log) + 1] = r
  BY <1>1 DEF Extended
<1>3. ASSUME NEW n \in DOMAIN log, IsEnd(log[n]) PROVE log[n].xid # x
  <2>1. log[n].xid \in Ended
    BY <1>3, EndsAreEnded
  <2> QED BY <2>1 DEF Exact, RecoverInv, XactsExact, Typed
<1>4. Committed(log') = Committed(log) /\ RolledBack(log') = RolledBack(log)
  BY <1>1 DEF Extended, IsEnd
<1>5. \A n \in DOMAIN log' : n \notin DOMAIN log => n = Len(log) + 1
  BY <1>1, <1>2
<1> QED BY <1>1, <1>2, <1>3, <1>4, <1>5

\* A row that no one has deleted is of a transaction that counts.
LEMMA UnmarkedRow ==
  ASSUME Typed, Exact, NEW p \in PageId, NEW i \in DOMAIN pages[p].slots, pages[p].slots[i].xmax = NULL_XID
  PROVE  /\ pages[p].slots[i].xmin \in Live \cup {NULL_XID}
         /\ \A y \in Live : ~Deletes(y, p, i)
<1>1. MarkOf(p, i, pages[p].slots[i])
  BY DEF Exact, RowsInv, MarksExact
<1>2. NULL_XID \notin Live
  BY LiveNotRolledBack DEF Exact, RecoverInv
<1>3. pages[p].slots[i].xmin \in Live \cup {NULL_XID}
  BY <1>1 DEF MarkOf
<1> QED BY <1>1, <1>2, <1>3 DEF MarkOf

\* Deleting the row at slot i of page p.
Deleted(x, p, i) ==
  /\ x \in active /\ Len(log) + 1 <= MaxLsn
  /\ p \in Chain(pages) /\ i \in DOMAIN pages[p].slots
  /\ pages[p].slots[i].xmax = NULL_XID /\ pages[p].slots[i].xmin \notin active \ {x}
  /\ pages' = [SetXmax(pages, DeleteLog(x, p, i), x) EXCEPT ![p].lsn = Len(log) + 1]
  /\ log' = Append(log, DeleteLog(x, p, i))
  /\ dpt_' = Dirtied(dpt_, {p}, Len(log) + 1)
  /\ UNCHANGED <<disk, flushed_lsn_, att_, checkpoint, active, next_xid_, control_xid, undone, initial>>

IsDirtied(dpt, dirty, lsn, d) ==
  /\ d \in [PageId -> 0 .. MaxLsn]
  /\ \A o \in PageId : /\ d[o] = dpt[o] \/ (dpt[o] = NoLsn /\ d[o] = lsn)
                       /\ o \in dirty => d[o] # NoLsn

LEMMA DirtiedFacts ==
  ASSUME NEW dpt \in [PageId -> 0 .. MaxLsn], NEW dirty, NEW lsn \in 1 .. MaxLsn
  PROVE  IsDirtied(dpt, dirty, lsn, Dirtied(dpt, dirty, lsn))
<1>1. lsn \in 0 .. MaxLsn /\ lsn # NoLsn
  BY HeapBounds DEF NoLsn
<1> QED BY <1>1 DEF Dirtied, IsDirtied

\* What deleting does to the pages.
LEMMA DeletedPages ==
  ASSUME Typed, Exact, NEW x \in Xid, NEW p, NEW i, Deleted(x, p, i)
  PROVE  /\ Change(x, p) /\ Typed'
         /\ DeleteLog(x, p, i) \in RecordType /\ RecordShape(DeleteLog(x, p, i))
         /\ DeleteLog(x, p, i).type = "DELETE" /\ DeleteLog(x, p, i).xid = x
         /\ DeleteLog(x, p, i).page = p /\ DeleteLog(x, p, i).slot = i
         /\ DeleteLog(x, p, i).row = pages[p].slots[i].row
         /\ \A o \in PageId :
              /\ pages'[o].next = pages[o].next /\ pages'[o].exists = pages[o].exists
              /\ DOMAIN pages'[o].slots = DOMAIN pages[o].slots
              /\ o # p => pages'[o] = pages[o]
              /\ \A j \in DOMAIN pages[o].slots :
                   pages'[o].slots[j].xmax = IF o = p /\ j = i THEN x ELSE pages[o].slots[j].xmax
<1> DEFINE r == DeleteLog(x, p, i)
           q == SetXmax(pages, r, x)
<1>1. pages \in PagesType /\ p \in PageId /\ i \in DOMAIN pages[p].slots /\ Len(log) \in Nat /\ MaxLsn \in Nat
      /\ x \in active
  BY ChainFacts, HeapBounds DEF Typed, Deleted
<1>2. i \in 1 .. Capacity /\ pages[p].slots[i].row \in Int
  BY <1>1, SlotFacts
<1>3. /\ r \in RecordType /\ RecordShape(r)
      /\ r.type = "DELETE" /\ r.xid = x /\ r.page = p /\ r.slot = i /\ r.row = pages[p].slots[i].row
  <2>1. r = [LogRecord("DELETE", x) EXCEPT !.page = p, !.slot = i, !.row = pages[p].slots[i].row]
    BY DEF DeleteLog
  <2>2. /\ p \in 0 .. NULL_PAGE_ID /\ NULL_PAGE_ID \in 0 .. NULL_PAGE_ID
        /\ i \in 0 .. Capacity /\ i >= 1
    BY <1>1, <1>2, HeapBounds DEF NULL_PAGE_ID, PageId
  <2> HIDE DEF r
  <2> DEFINE row == pages[p].slots[i].row
  <2>3. row \in Int /\ r = [LogRecord("DELETE", x) EXCEPT !.page = p, !.slot = i, !.row = row]
    BY <1>2, <2>1
  <2> HIDE DEF row
  <2>4. /\ r \in RecordType /\ RecordShape(r)
        /\ r.type = "DELETE" /\ r.xid = x /\ r.page = p /\ r.slot = i /\ r.row = row
    BY <1>1, <1>2, <2>2, <2>3 DEF LogRecord, RecordType, RecordShape, IsNewPage, IsInsert, IsDelete
  <2> QED BY <2>4 DEF row
<1>4. x \in 0 .. MaxXid
  BY DEF Xid
<1> HIDE DEF r
<1>5. /\ q \in PagesType
      /\ SameRows(pages, q)
      /\ \A o \in PageId : q[o].next = pages[o].next
      /\ \A o \in PageId : \A j \in DOMAIN pages[o].slots :
           q[o].slots[j].xmax = IF o = p /\ j = i THEN x ELSE pages[o].slots[j].xmax
  BY <1>1, <1>3, <1>4, SetXmaxEffect
<1>6. ASSUME NEW o \in PageId, o # p PROVE q[o] = pages[o]
  BY <1>1, <1>3, <1>6 DEF SetXmax, PagesType
<1>7. pages' = [q EXCEPT ![p].lsn = Len(log) + 1]
  BY DEF Deleted, r
<1> HIDE DEF q
<1>8. Len(log) + 1 \in 1 .. MaxLsn /\ Len(log) + 1 \in 0 .. MaxLsn
  BY <1>1 DEF Deleted
<1>9. ASSUME NEW o \in PageId
      PROVE  /\ pages'[o] = IF o = p THEN [q[o] EXCEPT !.lsn = Len(log) + 1] ELSE q[o]
             /\ pages'[o] \in PageType
             /\ pages'[o].next = q[o].next /\ pages'[o].exists = q[o].exists /\ pages'[o].slots = q[o].slots
             /\ pages'[o].lsn = IF o = p THEN Len(log) + 1 ELSE q[o].lsn
  <2>1. q[o] \in PageType
    BY <1>5 DEF PagesType
  <2>2. pages'[o] = IF o = p THEN [q[o] EXCEPT !.lsn = Len(log) + 1] ELSE q[o]
    BY <1>5, <1>7 DEF PagesType
  <2> QED BY <1>8, <2>1, <2>2 DEF PageType
<1>10. pages' \in PagesType
  <2>1. pages' = [o \in PageId |-> pages'[o]]
    BY <1>5, <1>7 DEF PagesType
  <2> QED BY <1>9, <2>1 DEF PagesType
<1>11. /\ dpt_' \in [PageId -> 0 .. MaxLsn]
       /\ \A o \in PageId : dpt_'[o] = dpt_[o] \/ (dpt_[o] = NoLsn /\ dpt_'[o] = Len(log) + 1)
       /\ dpt_'[p] # NoLsn
  <2>1. dpt_ \in [PageId -> 0 .. MaxLsn] /\ dpt_' = Dirtied(dpt_, {p}, Len(log) + 1)
    BY DEF Deleted, Typed
  <2>2. IsDirtied(dpt_, {p}, Len(log) + 1, dpt_')
    BY <1>8, <2>1, DirtiedFacts
  <2> QED BY <1>1, <2>2 DEF IsDirtied
<1>12. ~IsEnd(r) /\ log' = Append(log, r)
  BY <1>3 DEF IsEnd, Deleted, r
<1>13. /\ log' \in Seq(RecordType) /\ Len(log') = Len(log) + 1
       /\ \A n \in DOMAIN log : log'[n] = log[n] /\ n \in DOMAIN log'
       /\ log'[Len(log) + 1] = r
       /\ \A n \in DOMAIN log' : n \notin DOMAIN log => n = Len(log) + 1
       /\ Committed(log') = Committed(log) /\ RolledBack(log') = RolledBack(log)
  BY <1>1, <1>3, <1>12, OneRecord
<1>14. Change(x, p)
  <2>1. \A n \in DOMAIN log' \ DOMAIN log : log'[n].xid = x /\ log'[n].page = p /\ ~IsEnd(log'[n])
    BY <1>3, <1>12, <1>13
  <2>2. Len(log') \in Len(log) + 1 .. MaxLsn
    BY <1>1, <1>8, <1>13
  <2>3. UNCHANGED <<disk, flushed_lsn_, att_, checkpoint, active, undone, initial>>
    BY DEF Deleted
  <2>4. /\ \A o \in PageId : \A j \in DOMAIN pages[o].slots :
             /\ j \in DOMAIN pages'[o].slots
             /\ pages'[o].slots[j].row = pages[o].slots[j].row
             /\ pages'[o].slots[j].xmin = pages[o].slots[j].xmin
        /\ pages'[p].lsn = Len(log')
        /\ \A o \in PageId \ {p} : pages'[o].lsn = pages[o].lsn
    <3>1. ASSUME NEW o \in PageId, NEW j \in DOMAIN pages[o].slots
          PROVE  /\ j \in DOMAIN pages'[o].slots
                 /\ pages'[o].slots[j].row = pages[o].slots[j].row
                 /\ pages'[o].slots[j].xmin = pages[o].slots[j].xmin
      <4>1. pages'[o].slots = q[o].slots
        BY <1>9
      <4> QED BY <1>5, <4>1 DEF SameRows
    <3>2. pages'[p].lsn = Len(log')
      BY <1>1, <1>9, <1>13
    <3>3. ASSUME NEW o \in PageId \ {p} PROVE pages'[o].lsn = pages[o].lsn
      BY <1>6, <1>9
    <3> QED BY <3>1, <3>2, <3>3
  <2>5. \A o \in 1 .. MaxPage : OpenedByRolledBack(o) => pages'[o - 1].next = pages[o - 1].next
    <3>1. \A o \in 1 .. MaxPage : o - 1 \in PageId
      BY HeapBounds DEF PageId
    <3> QED BY <1>5, <1>9, <3>1
  <2> QED BY <1>1, <1>10, <1>11, <1>13, <2>1, <2>2, <2>3, <2>4, <2>5 DEF Change
<1>15. Typed'
  BY <1>11, <1>14, ChangeType DEF Deleted
<1>16. ASSUME NEW o \in PageId
       PROVE  /\ pages'[o].next = pages[o].next /\ pages'[o].exists = pages[o].exists
              /\ DOMAIN pages'[o].slots = DOMAIN pages[o].slots
              /\ o # p => pages'[o] = pages[o]
              /\ \A j \in DOMAIN pages[o].slots :
                   pages'[o].slots[j].xmax = IF o = p /\ j = i THEN x ELSE pages[o].slots[j].xmax
  <2>1. pages'[o].slots = q[o].slots /\ pages'[o].next = q[o].next /\ pages'[o].exists = q[o].exists
    BY <1>9
  <2>2. o # p => pages'[o] = pages[o]
    BY <1>6, <1>9
  <2> QED BY <1>5, <2>1, <2>2 DEF SameRows
<1> QED BY <1>3, <1>14, <1>15, <1>16 DEF r

LEMMA RelinkedFacts ==
  ASSUME NEW pg \in PagesType, NEW lg
  PROVE  /\ RelinkedIn(pg, lg) \in PagesType
         /\ \A p \in PageId :
              /\ RelinkedIn(pg, lg)[p].exists = pg[p].exists /\ RelinkedIn(pg, lg)[p].slots = pg[p].slots
              /\ RelinkedIn(pg, lg)[p].next =
                   IF \E x \in Xid \ RolledBack(lg) : OpensIn(lg, DOMAIN lg, x, p + 1) THEN p + 1
                   ELSE pg[p].next
<1> DEFINE Again(p) == \E x \in Xid \ RolledBack(lg) : OpensIn(lg, DOMAIN lg, x, p + 1)
           q == RelinkedIn(pg, lg)
<1>1. ASSUME NEW p \in PageId
      PROVE  /\ q[p] \in PageType
             /\ q[p].exists = pg[p].exists /\ q[p].slots = pg[p].slots
             /\ q[p].next = IF Again(p) THEN p + 1 ELSE pg[p].next
  <2>1. pg[p] \in PageType
    BY DEF PagesType
  <2>2. p + 1 \in 0 .. NULL_PAGE_ID
    BY HeapBounds DEF PageId, NULL_PAGE_ID
  <2>3. q[p] = [pg[p] EXCEPT !.next = IF Again(p) THEN p + 1 ELSE pg[p].next]
    BY <2>1 DEF RelinkedIn, PageType
  <2> HIDE DEF Again, q
  <2> QED BY <2>1, <2>2, <2>3 DEF PageType
<1>2. q = [p \in PageId |-> q[p]]
  BY DEF RelinkedIn
<1> HIDE DEF q
<1>3. q \in PagesType
  BY <1>1, <1>2 DEF PagesType
<1> QED BY <1>1, <1>3 DEF q

\* Redo leads to every page that a scan visits.
LEMMA ChainInRelinked ==
  ASSUME Typed, LinksExact
  PROVE  Chain(pages) \subseteq Chain(Relinked)
<1>1. Relinked \in PagesType /\ 0 \in PageId /\ Relinked[0].exists = pages[0].exists
  BY RelinkedFacts, HeapBounds DEF PageId, Relinked, Typed
<1>2. CASE pages[0].exists
  <2>1. 0 \in Chain(Relinked) /\ Chain(Relinked) \in SUBSET PageId
    BY <1>1, <1>2, ChainFacts
  <2>2. Closed(pages, PageId, Chain(Relinked))
    BY <2>1 DEF Closed, LinksExact
  <2> QED BY <2>1, <2>2, ReachedLeast DEF Chain
<1>3. CASE ~pages[0].exists
  BY <1>3 DEF Chain, Reached
<1> QED BY <1>2, <1>3

\* A change of a page in the chain that leaves the links alone.
LEMMA ChangeLinks ==
  ASSUME Typed, Exact, Typed', NEW x, NEW p \in Chain(pages), Change(x, p),
         \A o \in PageId : pages'[o].next = pages[o].next /\ pages'[o].exists = pages[o].exists,
         \A o \in PageId \ {p} : pages'[o] = pages[o],
         \A y, o : OpenedBy(y, o)' <=> OpenedBy(y, o)
  PROVE  LinksExact'
<1>1. LinksExact
  BY DEF Exact
<1>2. /\ active' = active /\ RolledBack(log') = RolledBack(log) /\ Live' = Live
      /\ x \in active /\ p \in PageId
  BY ChangeLog DEF Change
<1>3. 0 \in PageId
  BY HeapBounds DEF PageId
<1>4. Chain(pages') = Chain(pages)
  BY <1>3, ChainFrame
<1>5. Chain(Relinked') = Chain(Relinked)
  <2>1. /\ \A o \in PageId : Relinked'[o].next = Relinked[o].next
        /\ Relinked'[0].exists = Relinked[0].exists
    <3>1. ASSUME NEW o \in PageId
          PROVE  /\ Relinked[o].exists = pages[o].exists
                 /\ Relinked[o].next = IF \E y \in Xid \ RolledBack(log) : OpenedBy(y, o + 1) THEN o + 1
                                       ELSE pages[o].next
      BY RelinkedFacts DEF Relinked, OpenedBy, Typed
    <3>2. ASSUME NEW o \in PageId
          PROVE  /\ Relinked'[o].exists = pages'[o].exists
                 /\ Relinked'[o].next = IF \E y \in Xid \ RolledBack(log') : OpenedBy(y, o + 1)' THEN o + 1
                                        ELSE pages'[o].next
      BY RelinkedFacts DEF Relinked, OpenedBy, Typed
    <3> QED BY <1>2, <1>3, <3>1, <3>2
  <2> QED BY <2>1, ChainFrame
<1>6. p \in Chain(Relinked)
  BY <1>1, ChainInRelinked
<1>7. Forward(pages')
  BY <1>1 DEF LinksExact, Forward
<1>8. ASSUME NEW o \in PageId, pages'[o].next # NULL_PAGE_ID PROVE pages'[pages'[o].next].exists
  <2>1. pages[o].next \in PageId
    BY <1>8, NextType DEF Typed
  <2> QED BY <1>1, <1>8, <2>1 DEF LinksExact
<1>9. ASSUME NEW o \in 1 .. MaxPage, NEW y \in Live', OpenedBy(y, o)' PROVE pages'[o - 1].next = o
  <2>1. o - 1 \in PageId
    BY HeapBounds DEF PageId
  <2> QED BY <1>1, <1>2, <1>9, <2>1 DEF LinksExact
<1>10. \A o \in PageId \ Chain(pages') : \A i \in DOMAIN pages'[o].slots :
         pages'[o].slots[i].xmin \notin Live' \cup {NULL_XID}
  BY <1>1, <1>2, <1>4 DEF LinksExact
<1>11. \A o \in PageId \ Chain(Relinked') : \A i \in DOMAIN pages'[o].slots :
         pages'[o].slots[i].xmin \in RolledBack(log')
  BY <1>1, <1>2, <1>5, <1>6 DEF LinksExact
<1>12. \A o \in 1 .. MaxPage - 1 : \A z \in active', y \in Xid :
         OpenedBy(z, o)' /\ OpenedBy(y, o + 1)' => y \in Live' \cup RolledBack(log')
  BY <1>1, <1>2 DEF LinksExact
<1>13. ASSUME NEW o \in Chain(Relinked') PROVE pages'[o].next \in Chain(Relinked') \cup {NULL_PAGE_ID}
  <2>1. o \in PageId
    BY <1>5, ChainFacts, RelinkedFacts DEF Relinked, Typed
  <2> QED BY <1>1, <1>5, <2>1 DEF LinksExact
<1>14. ASSUME NEW o \in 1 .. MaxPage, NEW y \in Xid \ (Live' \cup RolledBack(log')), NEW z \in active', OpenedBy(y, o)'
       PROVE  ~OpenedBy(z, pages[o - 1].next)'
  <2>1. o - 1 \in PageId
    BY HeapBounds DEF PageId
  <2>2. ~OpenedBy(z, pages[o - 1].next) /\ pages'[o - 1].next = pages[o - 1].next
    BY <1>1, <1>2, <1>14, <2>1 DEF LinksExact
  <2> QED BY <2>2
<1> QED BY <1>7, <1>8, <1>9, <1>10, <1>11, <1>12, <1>13, <1>14 DEF LinksExact

LEMMA DeletedExact ==
  ASSUME Typed, Exact, NEW x \in Xid, NEW p, NEW i, Deleted(x, p, i)
  PROVE  Exact'
<1> DEFINE r == DeleteLog(x, p, i)
           N == Len(log) + 1
<1>1. /\ Change(x, p) /\ Typed'
      /\ r \in RecordType /\ RecordShape(r) /\ r.type = "DELETE" /\ r.xid = x
      /\ r.page = p /\ r.slot = i /\ r.row = pages[p].slots[i].row
  BY DeletedPages
<1>2. \A o \in PageId :
        /\ pages'[o].next = pages[o].next /\ pages'[o].exists = pages[o].exists
        /\ DOMAIN pages'[o].slots = DOMAIN pages[o].slots
        /\ o # p => pages'[o] = pages[o]
        /\ \A j \in DOMAIN pages[o].slots :
             pages'[o].slots[j].xmax = IF o = p /\ j = i THEN x ELSE pages[o].slots[j].xmax
  BY DeletedPages
<1>3. /\ x \in active /\ log' = Append(log, r) /\ p \in Chain(pages) /\ i \in DOMAIN pages[p].slots
      /\ pages[p].slots[i].xmax = NULL_XID /\ pages[p].slots[i].xmin \notin active \ {x}
      /\ p \in PageId /\ initial' = initial
  BY <1>1 DEF Deleted, Change
<1> HIDE DEF r
<1>4. ~IsEnd(r) /\ ~IsNewPage(r) /\ ~IsInsert(r) /\ IsDelete(r)
  BY <1>1 DEF IsEnd, IsNewPage, IsInsert, IsDelete
<1>5. /\ Extended(log, r, log') /\ Len(log') = Len(log) + 1
      /\ DOMAIN log = 1 .. Len(log) /\ DOMAIN log' = 1 .. Len(log) + 1 /\ Len(log) \in Nat
      /\ \A n \in DOMAIN log : log'[n] = log[n] /\ n \in DOMAIN log' /\ (IsEnd(log[n]) => log[n].xid # x)
      /\ log'[N] = r
      /\ \A n \in DOMAIN log' : n \notin DOMAIN log => n = N
      /\ Committed(log') = Committed(log) /\ RolledBack(log') = RolledBack(log)
  BY <1>1, <1>3, <1>4, OneRecord
<1>6. Live' = Live /\ Live = Committed(log) \cup active
  BY <1>1, ChangeLog DEF Live
<1> HIDE DEF N
<1>7. LogShape(log')
  <2>1. ASSUME NEW m \in DOMAIN log PROVE InOrder(log[m], r)
    BY <1>1, <1>4, <1>5 DEF InOrder
  <2> QED BY <1>1, <1>5, <2>1, ExtendedShape DEF Exact, Typed
<1>8. /\ \A y, o, j : Deletes(y, o, j)' <=> Deletes(y, o, j) \/ (y = x /\ o = p /\ j = i)
      /\ \A y, o : OpenedBy(y, o)' <=> OpenedBy(y, o)
  BY <1>1, <1>4, <1>5 DEF Extended, Deletes, OpenedBy
<1>9. /\ pages[p].slots[i].xmin \in Live \cup {NULL_XID}
      /\ \A y \in Live : ~Deletes(y, p, i)
  BY <1>3, UnmarkedRow
<1>10. \A o \in PageId : \A j \in DOMAIN pages[o].slots :
         /\ RowOf(o, j, pages[o].slots[j])'
         /\ pages'[o].slots[j].row = pages[o].slots[j].row /\ pages'[o].slots[j].xmin = pages[o].slots[j].xmin
  BY <1>1, ChangeKeeps DEF Change
<1>11. RowsExact'
  BY <1>2, <1>10 DEF RowsExact
<1>12. InsertsPresent' /\ InitialPresent'
  <2>1. \A n \in DOMAIN log : IsInsert(log[n]) =>
          /\ log[n].slot \in DOMAIN pages'[log[n].page].slots
          /\ pages'[log[n].page].slots[log[n].slot].row = n
    BY <1>1, ChangeKeeps
  <2>2. InitialPresent'
    BY <1>1, ChangeKeeps
  <2>3. InsertsPresent'
    BY <1>4, <1>5, <2>1 DEF InsertsPresent
  <2> QED BY <2>2, <2>3
<1>13. MarksExact'
  <2> SUFFICES ASSUME NEW o \in PageId, NEW j \in DOMAIN pages'[o].slots
               PROVE  MarkOf(o, j, pages[o].slots[j])'
    BY DEF MarksExact
  <2> DEFINE s == pages[o].slots[j]
  <2>0. PICK t : t = pages'[o].slots[j]
    OBVIOUS
  <2>1. j \in DOMAIN pages[o].slots
    BY <1>2
  <2>2. MarkOf(o, j, s) /\ t.xmin = s.xmin /\ t.xmax = (IF o = p /\ j = i THEN x ELSE s.xmax)
    BY <1>2, <1>10, <2>0, <2>1 DEF Exact, RowsInv, MarksExact
  <2>3. o = p /\ j = i => s.xmin \in Live \cup {NULL_XID}
    BY <1>9
  <2>4. x \in Live
    BY <1>3, <1>6
  <2> HIDE DEF s
  <2>5. IF t.xmin \in Live' \cup {NULL_XID}
        THEN /\ t.xmax = NULL_XID \/ (t.xmax \in Live' /\ Deletes(t.xmax, o, j)')
             /\ \A y \in Live' : Deletes(y, o, j)' => t.xmax = y
        ELSE t.xmax = t.xmin
    <3>1. CASE o = p /\ j = i
      BY <1>6, <1>8, <1>9, <2>2, <2>3, <2>4, <3>1
    <3>2. CASE ~(o = p /\ j = i)
      <4>1. \A y : Deletes(y, o, j)' <=> Deletes(y, o, j)
        BY <1>8, <3>2
      <4> QED BY <1>6, <2>2, <3>2, <4>1 DEF MarkOf
    <3> QED BY <3>1, <3>2
  <2> QED BY <2>0, <2>5 DEF MarkOf, Deletes, DeletesIn
<1>14. DeletesExact'
  <2>1. ASSUME NEW n \in DOMAIN log', IsDelete(log'[n])
        PROVE  /\ log'[n].slot \in DOMAIN pages'[log'[n].page].slots
               /\ LET s == pages'[log'[n].page].slots[log'[n].slot] IN
                  /\ log'[n].row = s.row /\ s.row < n
                  /\ s.xmin \in Committed(log') \cup {NULL_XID, log'[n].xid}
    <3>1. CASE n \in DOMAIN log
      BY <1>1, <1>5, <2>1, <3>1, ChangeKeeps
    <3>2. CASE n \notin DOMAIN log
      <4>1. n = N /\ log'[n] = r
        BY <1>5, <3>2
      <4>2. RowOf(p, i, pages[p].slots[i])
        BY <1>3 DEF Exact, RowsInv, RowsExact
      <4>3. pages[p].slots[i].row < N
        <5>1. i \in 1 .. Capacity /\ Capacity \in Nat /\ N \in Nat /\ N > 0
          BY <1>3, <1>5, SlotFacts, HeapBounds DEF Typed, N
        <5>2. CASE pages[p].slots[i].row = -i
          BY <5>1, <5>2
        <5>3. CASE pages[p].slots[i].row \in DOMAIN log
          BY <1>5, <5>3 DEF N
        <5> QED BY <4>2, <5>2, <5>3 DEF RowOf
      <4>4. pages[p].slots[i].xmin \in Committed(log) \cup {NULL_XID, x}
        BY <1>3, <1>6, <1>9
      <4>5. i \in DOMAIN pages'[p].slots
        BY <1>2, <1>3
      <4>6. pages'[p].slots[i].row = pages[p].slots[i].row /\ pages'[p].slots[i].xmin = pages[p].slots[i].xmin
        BY <1>3, <1>10
      <4> QED BY <1>1, <1>5, <4>1, <4>3, <4>4, <4>5, <4>6
    <3> QED BY <3>1, <3>2
  <2>2. ASSUME NEW m \in DOMAIN log', NEW n \in DOMAIN log',
               IsDelete(log'[m]) /\ IsDelete(log'[n]) /\ SameRid(log'[m], log'[n]) /\ m < n
        PROVE  log'[m].xid \notin Live'
    <3>1. m \in DOMAIN log /\ log'[m] = log[m]
      BY <1>5, <2>2
    <3>2. CASE n \in DOMAIN log
      BY <1>5, <1>6, <2>2, <3>1, <3>2 DEF Exact, RowsInv, DeletesExact
    <3>3. CASE n \notin DOMAIN log
      <4>1. log[m].page = p /\ log[m].slot = i
        BY <1>1, <1>5, <2>2, <3>1, <3>3 DEF SameRid
      <4>2. Deletes(log[m].xid, p, i)
        BY <2>2, <3>1, <4>1 DEF Deletes, DeletesIn
      <4> QED BY <1>6, <1>9, <3>1, <4>2
    <3> QED BY <3>2, <3>3
  <2> QED BY <2>1, <2>2 DEF DeletesExact
<1>15. PagesExact'
  <2>1. PagesExact
    BY DEF Exact
  <2>2. \A o : Opened(o)' <=> Opened(o)
    BY <1>4, <1>5 DEF Opened
  <2>3. /\ \A n \in DOMAIN log' : log'[n].page \in PageId =>
             n <= flushed_lsn_' \/ n <= pages'[log'[n].page].lsn
        /\ \A o \in PageId : pages'[o].lsn <= Len(log')
    BY <1>1, ChangeLsns
  <2>4. ASSUME NEW o \in PageId, ~pages'[o].exists PROVE pages'[o] = NoPage
    <3>1. ~pages[o].exists /\ pages[o] = NoPage
      BY <1>2, <2>1, <2>4 DEF PagesExact
    <3>2. o # p
      BY <1>3, <3>1 DEF NoPage
    <3> QED BY <1>2, <3>1, <3>2
  <2>5. \A o \in PageId : pages'[o].exists <=> Opened(o)' \/ (o = 0 /\ initial' > 0)
    BY <1>2, <1>3, <2>1, <2>2 DEF PagesExact
  <2>6. ASSUME NEW o \in 1 .. MaxPage, pages'[o].exists PROVE pages'[o - 1].exists
    <3>1. o \in PageId /\ o - 1 \in PageId
      BY HeapBounds DEF PageId
    <3> QED BY <1>2, <2>1, <2>6, <3>1 DEF PagesExact
  <2>7. initial' > 0 => ~Opened(0)'
    BY <1>3, <2>1, <2>2 DEF PagesExact
  <2> QED BY <2>3, <2>4, <2>5, <2>6, <2>7 DEF PagesExact
<1>16. LinksExact'
  BY <1>1, <1>2, <1>3, <1>8, ChangeLinks
<1>17. RecoverInv'
  <2>1. \A o : OpenedByRolledBack(o)' => OpenedByRolledBack(o)
    BY <1>5, <1>8 DEF OpenedByRolledBack
  <2> QED BY <1>1, <2>1, ChangeRecover
<1> QED BY <1>7, <1>11, <1>12, <1>13, <1>14, <1>15, <1>16, <1>17 DEF Exact, RowsInv

LEMMA DeleteParts ==
  ASSUME Typed, NEW x \in Xid, DeleteRecord(x), initial' = initial
  PROVE  \E p, i : Deleted(x, p, i)
  BY DEF DeleteRecord, Deleted, NextLsn, xactVars

\* Inserting a row in the page p of the chain.
Filled(x, p) ==
  /\ x \in active /\ Len(log) + 1 <= MaxLsn
  /\ p \in Searched /\ Len(pages[p].slots) < Capacity
  /\ pages' = [pages EXCEPT ![p] = [Appended(@, Slot(Len(log) + 1, x)) EXCEPT !.lsn = Len(log) + 1]]
  /\ log' = Append(log, InsertLog(x, p, Len(pages[p].slots) + 1))
  /\ dpt_' = Dirtied(dpt_, {p}, Len(log) + 1)
  /\ UNCHANGED <<disk, flushed_lsn_, att_, checkpoint, active, next_xid_, control_xid, undone, initial>>

LEMMA SlotTypes ==
  ASSUME NEW n \in 0 .. MaxLsn, NEW x \in Xid
  PROVE  /\ Slot(n, x) \in SlotType
         /\ Slot(n, x).row = n /\ Slot(n, x).xmin = x /\ Slot(n, x).xmax = NULL_XID
<1>1. n \in Int /\ x \in 0 .. MaxXid /\ NULL_XID \in 0 .. MaxXid
  BY HeapBounds DEF Xid, NULL_XID
<1> QED BY <1>1 DEF Slot, SlotType

LEMMA FilledPages ==
  ASSUME Typed, Exact, NEW x \in Xid, NEW p, Filled(x, p)
  PROVE  LET i == Len(pages[p].slots) + 1
             r == InsertLog(x, p, i)
         IN
         /\ Change(x, p) /\ Typed'
         /\ i \in 1 .. Capacity /\ p \in Chain(pages)
         /\ r \in RecordType /\ RecordShape(r) /\ r.type = "INSERT" /\ r.xid = x /\ r.page = p /\ r.slot = i
         /\ \A o \in PageId :
              /\ pages'[o].next = pages[o].next /\ pages'[o].exists = pages[o].exists
              /\ o # p => pages'[o] = pages[o]
         /\ DOMAIN pages[p].slots = 1 .. Len(pages[p].slots) /\ DOMAIN pages'[p].slots = 1 .. i
         /\ \A j \in 1 .. Len(pages[p].slots) : pages'[p].slots[j] = pages[p].slots[j]
         /\ pages'[p].slots[i] = Slot(Len(log) + 1, x)
<1> DEFINE L == Len(pages[p].slots)
           i == L + 1
           r == InsertLog(x, p, i)
           N == Len(log) + 1
           s == Slot(N, x)
           a == Append(pages[p].slots, s)
<1>1. p \in Chain(pages) /\ p \in PageId
  <2>1. {o \in PageId : ~HasRoom(pages[o])} \in SUBSET PageId
    OBVIOUS
  <2>2. p \in Chain(pages)
    BY <2>1, ReachedInChain DEF Filled, Searched
  <2> QED BY <2>2, ChainFacts DEF Typed
<1>2. /\ pages \in PagesType /\ pages[p] \in PageType /\ pages[p].slots \in Seq(SlotType) /\ L \in Nat
      /\ Capacity \in Nat /\ L < Capacity /\ i \in 1 .. Capacity /\ Len(log) \in Nat /\ MaxLsn \in Nat
      /\ DOMAIN pages[p].slots = 1 .. L
  <2>1. pages \in PagesType /\ Len(log) \in Nat /\ Capacity \in Nat /\ MaxLsn \in Nat /\ L < Capacity
    BY HeapBounds DEF Typed, Filled
  <2>2. /\ pages[p] \in PageType /\ pages[p].slots \in Seq(SlotType) /\ L \in Nat
        /\ DOMAIN pages[p].slots = 1 .. L
    BY <1>1, <2>1, PageFacts
  <2> HIDE DEF L
  <2> QED BY <2>1, <2>2
<1>3. N \in 1 .. MaxLsn /\ N \in 0 .. MaxLsn /\ x \in active
  BY <1>2 DEF Filled
<1>4. s \in SlotType /\ s.row = N /\ s.xmin = x /\ s.xmax = NULL_XID
  BY <1>3, SlotTypes
<1>5. r \in RecordType /\ RecordShape(r) /\ r.type = "INSERT" /\ r.xid = x /\ r.page = p /\ r.slot = i
  <2> HIDE DEF L
  <2> QED BY <1>1, <1>2, LogRecordTypes
<1> HIDE DEF s, r
<1>6. /\ a \in Seq(SlotType) /\ Len(a) = i /\ DOMAIN a = 1 .. i /\ Len(a) <= Capacity
      /\ a[i] = s /\ \A j \in 1 .. L : a[j] = pages[p].slots[j]
  <2> DEFINE ss == pages[p].slots
  <2>1. ss \in Seq(SlotType) /\ L = Len(ss)
    BY <1>2
  <2> HIDE DEF ss
  <2>2. a = Append(ss, s)
    BY DEF ss
  <2>3. /\ Append(ss, s) \in Seq(SlotType) /\ Len(Append(ss, s)) = L + 1
        /\ Append(ss, s)[L + 1] = s /\ \A j \in 1 .. L : Append(ss, s)[j] = ss[j]
    BY <1>4, <2>1
  <2> HIDE DEF L, a
  <2> QED BY <1>2, <2>2, <2>3 DEF ss
<1>7. pages' = [pages EXCEPT ![p] = [[pages[p] EXCEPT !.slots = a] EXCEPT !.lsn = N]]
  BY <1>1, <1>2 DEF Filled, Appended, s, PagesType
<1> HIDE DEF a
<1>8. ASSUME NEW o \in PageId
      PROVE  pages'[o] = IF o = p THEN [[pages[p] EXCEPT !.slots = a] EXCEPT !.lsn = N] ELSE pages[o]
  BY <1>1, <1>2, <1>7 DEF PagesType
<1>9. /\ pages'[p].next = pages[p].next /\ pages'[p].exists = pages[p].exists
      /\ pages'[p].slots = a /\ pages'[p].lsn = N /\ pages'[p] \in PageType
  BY <1>1, <1>2, <1>3, <1>6, <1>8 DEF PageType
<1>10. pages' \in PagesType
  <2>1. pages' = [o \in PageId |-> pages'[o]]
    BY <1>2, <1>7 DEF PagesType
  <2> QED BY <1>1, <1>2, <1>8, <1>9, <2>1 DEF PagesType
<1>11. /\ dpt_' \in [PageId -> 0 .. MaxLsn]
       /\ \A o \in PageId : dpt_'[o] = dpt_[o] \/ (dpt_[o] = NoLsn /\ dpt_'[o] = N)
       /\ dpt_'[p] # NoLsn
  <2>1. dpt_ \in [PageId -> 0 .. MaxLsn] /\ dpt_' = Dirtied(dpt_, {p}, N)
    BY DEF Filled, Typed
  <2>2. IsDirtied(dpt_, {p}, N, dpt_')
    BY <1>3, <2>1, DirtiedFacts
  <2> QED BY <1>1, <2>2 DEF IsDirtied
<1>12. ~IsEnd(r) /\ log' = Append(log, r)
  BY <1>5 DEF IsEnd, Filled, r
<1>13. /\ log' \in Seq(RecordType) /\ Len(log') = Len(log) + 1
       /\ \A n \in DOMAIN log : log'[n] = log[n] /\ n \in DOMAIN log'
       /\ log'[Len(log) + 1] = r
       /\ \A n \in DOMAIN log' : n \notin DOMAIN log => n = Len(log) + 1
       /\ Committed(log') = Committed(log) /\ RolledBack(log') = RolledBack(log)
  BY <1>3, <1>5, <1>12, OneRecord
<1>14. Change(x, p)
  <2>1. \A n \in DOMAIN log' \ DOMAIN log : log'[n].xid = x /\ log'[n].page = p /\ ~IsEnd(log'[n])
    BY <1>5, <1>12, <1>13
  <2>2. Len(log') \in Len(log) + 1 .. MaxLsn
    BY <1>2, <1>3, <1>13
  <2>3. UNCHANGED <<disk, flushed_lsn_, att_, checkpoint, active, undone, initial>>
    BY DEF Filled
  <2>4. ASSUME NEW o \in PageId, NEW j \in DOMAIN pages[o].slots
        PROVE  j \in DOMAIN pages'[o].slots /\ pages'[o].slots[j] = pages[o].slots[j]
    <3>1. CASE o = p
      <4>1. j \in 1 .. L /\ j \in 1 .. i
        BY <1>2, <3>1
      <4> QED BY <1>6, <1>9, <3>1, <4>1
    <3>2. CASE o # p
      BY <1>8, <3>2
    <3> QED BY <3>1, <3>2
  <2>5. ASSUME NEW o \in 1 .. MaxPage PROVE pages'[o - 1].next = pages[o - 1].next
    <3>1. o - 1 \in PageId
      BY HeapBounds DEF PageId
    <3> QED BY <1>8, <1>9, <3>1
  <2>6. pages'[p].lsn = Len(log') /\ \A o \in PageId \ {p} : pages'[o].lsn = pages[o].lsn
    BY <1>8, <1>9, <1>13
  <2> HIDE DEF L
  <2> QED BY <1>1, <1>3, <1>10, <1>11, <1>13, <2>1, <2>2, <2>3, <2>4, <2>5, <2>6 DEF Change
<1>15. Typed'
  BY <1>11, <1>14, ChangeType DEF Filled
<1>16. \A o \in PageId :
         /\ pages'[o].next = pages[o].next /\ pages'[o].exists = pages[o].exists
         /\ o # p => pages'[o] = pages[o]
  BY <1>8, <1>9
<1>17. /\ DOMAIN pages[p].slots = 1 .. L /\ DOMAIN pages'[p].slots = 1 .. i
       /\ \A j \in 1 .. L : pages'[p].slots[j] = pages[p].slots[j]
       /\ pages'[p].slots[i] = s
  BY <1>2, <1>6, <1>9
<1> QED BY <1>1, <1>2, <1>5, <1>14, <1>15, <1>16, <1>17 DEF r, s

LEMMA FilledExact ==
  ASSUME Typed, Exact, NEW x \in Xid, NEW p, Filled(x, p)
  PROVE  Exact'
<1> DEFINE L == Len(pages[p].slots)
           i == L + 1
           r == InsertLog(x, p, i)
           N == Len(log) + 1
<1>1. /\ Change(x, p) /\ Typed'
      /\ i \in 1 .. Capacity /\ p \in Chain(pages)
      /\ r \in RecordType /\ RecordShape(r) /\ r.type = "INSERT" /\ r.xid = x /\ r.page = p /\ r.slot = i
      /\ DOMAIN pages[p].slots = 1 .. L /\ DOMAIN pages'[p].slots = 1 .. i
      /\ \A j \in 1 .. L : pages'[p].slots[j] = pages[p].slots[j]
      /\ pages'[p].slots[i] = Slot(N, x)
  BY FilledPages
<1>2. \A o \in PageId :
        /\ pages'[o].next = pages[o].next /\ pages'[o].exists = pages[o].exists
        /\ o # p => pages'[o] = pages[o]
  BY FilledPages
<1>3. x \in active /\ log' = Append(log, r) /\ p \in PageId /\ initial' = initial /\ L \in Nat
  BY <1>1, PageFacts DEF Filled, Change, Typed
<1> HIDE DEF r, L
<1>4. ~IsEnd(r) /\ ~IsNewPage(r) /\ IsInsert(r) /\ ~IsDelete(r)
  BY <1>1 DEF IsEnd, IsNewPage, IsInsert, IsDelete
<1>5. /\ Extended(log, r, log') /\ Len(log') = Len(log) + 1
      /\ DOMAIN log = 1 .. Len(log) /\ DOMAIN log' = 1 .. Len(log) + 1 /\ Len(log) \in Nat
      /\ \A n \in DOMAIN log : log'[n] = log[n] /\ n \in DOMAIN log' /\ (IsEnd(log[n]) => log[n].xid # x)
      /\ log'[N] = r
      /\ \A n \in DOMAIN log' : n \notin DOMAIN log => n = N
      /\ Committed(log') = Committed(log) /\ RolledBack(log') = RolledBack(log)
  BY <1>1, <1>3, <1>4, OneRecord
<1>6. Live' = Live /\ Live = Committed(log) \cup active
  BY <1>1, ChangeLog DEF Live
<1>6a. /\ N \in DOMAIN log' /\ N \in Nat /\ N \in 0 .. MaxLsn
       /\ Slot(N, x).row = N /\ Slot(N, x).xmin = x /\ Slot(N, x).xmax = NULL_XID
  <2>1. Len(log') <= MaxLsn /\ MaxLsn \in Nat
    BY <1>1, HeapBounds DEF Typed
  <2>2. N \in 0 .. MaxLsn /\ N \in DOMAIN log' /\ N \in Nat
    BY <1>5, <2>1
  <2> HIDE DEF N
  <2> QED BY <2>2, SlotTypes
<1> HIDE DEF N
<1>7. ASSUME NEW m \in DOMAIN log, IsInsert(log[m]) \/ IsDelete(log[m]), log[m].page = p
      PROVE  log[m].slot \in 1 .. L
  BY <1>1, <1>7 DEF Exact, RowsInv, InsertsPresent, DeletesExact
<1>8. LogShape(log')
  <2>1. ASSUME NEW m \in DOMAIN log PROVE InOrder(log[m], r)
    BY <1>1, <1>3, <1>4, <1>5, <1>7 DEF InOrder, SameRid
  <2> QED BY <1>1, <1>5, <2>1, ExtendedShape DEF Exact, Typed
<1>9. /\ \A y, o, j : Deletes(y, o, j)' <=> Deletes(y, o, j)
      /\ \A y, o : OpenedBy(y, o)' <=> OpenedBy(y, o)
  BY <1>1, <1>4, <1>5 DEF Extended, Deletes, OpenedBy
<1>10. \A y : ~Deletes(y, p, i)
  <2>1. i \notin 1 .. L
    BY <1>3
  <2> HIDE DEF i
  <2> QED BY <1>7, <2>1 DEF Deletes, DeletesIn
\* The slots: the new one, and those that were there.
<1>11. ASSUME NEW o \in PageId, NEW j \in DOMAIN pages'[o].slots
       PROVE  \/ o = p /\ j = i
              \/ j \in DOMAIN pages[o].slots /\ pages'[o].slots[j] = pages[o].slots[j]
  <2>1. CASE o = p
    <3>1. j \in 1 .. L \/ j = i
      BY <1>1, <1>3, <2>1
    <3> QED BY <1>1, <2>1, <3>1
  <2>2. CASE o # p
    BY <1>2, <2>2
  <2> QED BY <2>1, <2>2
<1>12. \A o \in PageId : \A j \in DOMAIN pages[o].slots : RowOf(o, j, pages[o].slots[j])'
  BY <1>1, ChangeKeeps
<1> HIDE DEF i
<1>13. RowsExact'
  <2> SUFFICES ASSUME NEW o \in PageId, NEW j \in DOMAIN pages'[o].slots
               PROVE  RowOf(o, j, pages[o].slots[j])'
    BY DEF RowsExact
  <2>1. CASE o = p /\ j = i
    <3>1. pages'[o].slots[j] = Slot(N, x)
      BY <1>1, <2>1
    <3> QED BY <1>1, <1>4, <1>5, <1>6a, <2>1, <3>1 DEF RowOf
  <2>2. CASE j \in DOMAIN pages[o].slots
    BY <1>12, <2>2
  <2> QED BY <1>11, <2>1, <2>2
<1>14. InsertsPresent' /\ InitialPresent'
  <2>1. \A n \in DOMAIN log : IsInsert(log[n]) =>
          /\ log[n].slot \in DOMAIN pages'[log[n].page].slots
          /\ pages'[log[n].page].slots[log[n].slot].row = n
    BY <1>1, ChangeKeeps
  <2>2. InitialPresent'
    BY <1>1, ChangeKeeps
  <2>3. i \in DOMAIN pages'[p].slots /\ pages'[p].slots[i].row = N
    BY <1>1, <1>6a
  <2>4. InsertsPresent'
    BY <1>1, <1>5, <2>1, <2>3 DEF InsertsPresent
  <2> QED BY <2>2, <2>4
<1>15. MarksExact'
  <2> SUFFICES ASSUME NEW o \in PageId, NEW j \in DOMAIN pages'[o].slots
               PROVE  MarkOf(o, j, pages[o].slots[j])'
    BY DEF MarksExact
  <2>0. PICK t : t = pages'[o].slots[j]
    OBVIOUS
  <2>1. x \in Live
    BY <1>3, <1>6
  <2>2. IF t.xmin \in Live' \cup {NULL_XID}
        THEN /\ t.xmax = NULL_XID \/ (t.xmax \in Live' /\ Deletes(t.xmax, o, j)')
             /\ \A y \in Live' : Deletes(y, o, j)' => t.xmax = y
        ELSE t.xmax = t.xmin
    <3>1. CASE o = p /\ j = i
      <4>1. t = Slot(N, x)
        BY <1>1, <2>0, <3>1
      <4> QED BY <1>6, <1>6a, <1>9, <1>10, <2>1, <3>1, <4>1
    <3>2. CASE j \in DOMAIN pages[o].slots /\ pages'[o].slots[j] = pages[o].slots[j]
      <4>1. MarkOf(o, j, t)
        BY <2>0, <3>2 DEF Exact, RowsInv, MarksExact
      <4> QED BY <1>6, <1>9, <4>1 DEF MarkOf
    <3> QED BY <1>11, <3>1, <3>2
  <2> QED BY <2>0, <2>2 DEF MarkOf, Deletes, DeletesIn
<1>16. DeletesExact'
  <2>1. ASSUME NEW n \in DOMAIN log', IsDelete(log'[n]) PROVE n \in DOMAIN log /\ log'[n] = log[n]
    BY <1>4, <1>5, <2>1
  <2>2. ASSUME NEW n \in DOMAIN log', IsDelete(log'[n])
        PROVE  /\ log'[n].slot \in DOMAIN pages'[log'[n].page].slots
               /\ LET s == pages'[log'[n].page].slots[log'[n].slot] IN
                  /\ log'[n].row = s.row /\ s.row < n
                  /\ s.xmin \in Committed(log') \cup {NULL_XID, log'[n].xid}
    BY <1>1, <1>5, <2>1, <2>2, ChangeKeeps
  <2>3. ASSUME NEW m \in DOMAIN log', NEW n \in DOMAIN log',
               IsDelete(log'[m]) /\ IsDelete(log'[n]) /\ SameRid(log'[m], log'[n]) /\ m < n
        PROVE  log'[m].xid \notin Live'
    BY <1>6, <2>1, <2>3 DEF Exact, RowsInv, DeletesExact
  <2> QED BY <2>2, <2>3 DEF DeletesExact
<1>17. PagesExact'
  <2>1. PagesExact
    BY DEF Exact
  <2>2. \A o : Opened(o)' <=> Opened(o)
    BY <1>4, <1>5 DEF Opened
  <2>3. /\ \A n \in DOMAIN log' : log'[n].page \in PageId =>
             n <= flushed_lsn_' \/ n <= pages'[log'[n].page].lsn
        /\ \A o \in PageId : pages'[o].lsn <= Len(log')
    BY <1>1, ChangeLsns
  <2>4. pages[p].exists
    <3>1. ScanPagesExist
      BY ChainPagesExist DEF Exact
    <3> QED BY <1>1, <3>1 DEF ScanPagesExist
  <2>5. \A o \in PageId : ~pages'[o].exists => pages'[o] = NoPage
    BY <1>2, <2>1, <2>4 DEF PagesExact
  <2>6. \A o \in PageId : pages'[o].exists <=> Opened(o)' \/ (o = 0 /\ initial' > 0)
    BY <1>2, <1>3, <2>1, <2>2 DEF PagesExact
  <2>7. ASSUME NEW o \in 1 .. MaxPage, pages'[o].exists PROVE pages'[o - 1].exists
    <3>1. o \in PageId /\ o - 1 \in PageId
      BY HeapBounds DEF PageId
    <3> QED BY <1>2, <2>1, <2>7, <3>1 DEF PagesExact
  <2>8. initial' > 0 => ~Opened(0)'
    BY <1>3, <2>1, <2>2 DEF PagesExact
  <2> QED BY <2>3, <2>5, <2>6, <2>7, <2>8 DEF PagesExact
<1>18. LinksExact'
  BY <1>1, <1>2, <1>9, ChangeLinks
<1>19. RecoverInv'
  <2>1. \A o : OpenedByRolledBack(o)' => OpenedByRolledBack(o)
    BY <1>5, <1>9 DEF OpenedByRolledBack
  <2> QED BY <1>1, <2>1, ChangeRecover
<1> QED BY <1>8, <1>13, <1>14, <1>15, <1>16, <1>17, <1>18, <1>19 DEF Exact, RowsInv

LEMMA NothingBeyond ==
  ASSUME PagesExact, NEW new \in PageId, ~pages[new].exists
  PROVE  \A o \in PageId : o >= new => ~pages[o].exists
<1> DEFINE S == {o \in PageId : o >= new /\ pages[o].exists}
<1> SUFFICES ASSUME S # {} PROVE FALSE
  OBVIOUS
<1>1. PICK m \in S : \A o \in S : m <= o
  <2>1. S \subseteq Nat
    BY HeapBounds DEF PageId
  <2> HIDE DEF S
  <2> QED BY <2>1, LeastExists
<1>2. m \in PageId /\ new \in PageId /\ m >= new /\ m # new /\ pages[m].exists
  OBVIOUS
<1>3. m \in 1 .. MaxPage /\ m - 1 \in PageId /\ m - 1 >= new /\ ~(m <= m - 1)
  BY <1>2, HeapBounds DEF PageId
<1>4. pages[m - 1].exists
  BY <1>2, <1>3 DEF PagesExact
<1>5. m - 1 \in S
  BY <1>3, <1>4
<1> QED BY <1>1, <1>3, <1>5

\* Linking more pages behind the end keeps the chain.
LEMMA LinkAdds ==
  ASSUME NEW pg, NEW q, pg[0].exists => q[0].exists,
         \A o \in PageId : q[o].next = pg[o].next \/ pg[o].next = NULL_PAGE_ID
  PROVE  Chain(pg) \subseteq Chain(q)
<1>1. ASSUME NEW S, Closed(q, PageId, S) PROVE Closed(pg, PageId, S)
  BY <1>1 DEF Closed
<1> QED BY <1>1 DEF Chain, Reached

\* A row in the new page new, behind the page last if there is one.
Opening(x, last, new) ==
  /\ x \in active /\ Len(log) + 2 <= MaxLsn
  /\ new \in PageId
  /\ \/ new = 0 /\ last = NULL_PAGE_ID
     \/ new = last + 1 /\ last \in Chain(pages) /\ pages[last].next = NULL_PAGE_ID
  /\ pages' = [(IF last = NULL_PAGE_ID THEN pages ELSE [pages EXCEPT ![last].next = new]) EXCEPT
                 ![new] = [Blank EXCEPT !.lsn = Len(log) + 2, !.slots = <<Slot(Len(log) + 2, x)>>]]
  /\ log' = log \o <<NewPageLog(x, last, new), InsertLog(x, new, 1)>>
  /\ dpt_' = Dirtied(dpt_, {new, last}, Len(log) + 1)
  /\ UNCHANGED <<disk, flushed_lsn_, att_, checkpoint, active, next_xid_, control_xid, undone, initial>>

\* The end of the search: there is a last page, or no page at all.
LEMMA SearchEnds ==
  ASSUME Typed, Exact, \A p \in Searched : ~HasRoom(pages[p])
  PROVE  IF Searched = {} THEN ~pages[0].exists
         ELSE /\ \E p \in Searched : pages[p].next = NULL_PAGE_ID
              /\ Searched \subseteq Chain(pages)
<1> DEFINE through == {p \in PageId : ~HasRoom(pages[p])}
<1>1. through \in SUBSET PageId /\ pages \in PagesType /\ Searched = Reached(pages, through)
  BY DEF Typed, Searched
<1> HIDE DEF through
<1>2. CASE pages[0].exists
  <2>1. Closed(pages, through, Searched) /\ Searched \subseteq PageId
    BY <1>1, <1>2, ReachedClosed
  <2>2. 0 \in Searched /\ \A p \in Searched : p \in through
    BY <2>1 DEF Closed, through
  <2>3. \A p \in Searched : pages[p].next \in Searched \cup {NULL_PAGE_ID}
    BY <2>1, <2>2 DEF Closed
  <2>4. \E p \in Searched : pages[p].next = NULL_PAGE_ID
    BY <1>1, <2>1, <2>2, <2>3, ForwardEnds DEF Exact, LinksExact
  <2>5. Searched \subseteq Chain(pages)
    BY <1>1, ReachedInChain
  <2> QED BY <2>2, <2>4, <2>5
<1>3. CASE ~pages[0].exists
  <2>1. Searched = {}
    BY <1>1, <1>3 DEF Reached
  <2> QED BY <1>3, <2>1
<1> QED BY <1>2, <1>3

LEMMA InsertParts ==
  ASSUME Typed, Exact, NEW x \in Xid, InsertRecord(x), initial' = initial
  PROVE  \/ \E p : Filled(x, p)
         \/ \E last, new : Opening(x, last, new) /\ (gaps' = {} => ~pages[new].exists)
<1>1. x \in active /\ UNCHANGED <<disk, flushed_lsn_, att_, checkpoint, active, next_xid_, control_xid, undone, initial>>
  BY DEF InsertRecord, xactVars
<1>2. CASE InsertInChain(x)
  BY <1>1, <1>2 DEF InsertInChain, Filled, NextLsn, HasRoom
<1>3. CASE InsertInNewPage(x)
  <2> DEFINE last == IF Searched = {} THEN NULL_PAGE_ID ELSE CHOOSE p \in Searched : pages[p].next = NULL_PAGE_ID
             new == IF Searched = {} THEN 0 ELSE last + 1
             linked == IF Searched = {} THEN pages ELSE [pages EXCEPT ![last].next = new]
  <2>1. /\ \A p \in Searched : ~HasRoom(pages[p])
        /\ new \in PageId /\ Len(log) + 1 + 1 <= MaxLsn
        /\ pages' = [linked EXCEPT ![new] = [Blank EXCEPT !.lsn = Len(log) + 1 + 1,
                                                          !.slots = <<Slot(Len(log) + 1 + 1, x)>>]]
        /\ log' = log \o <<NewPageLog(x, last, new), InsertLog(x, new, 1)>>
        /\ dpt_' = Dirtied(dpt_, {new, last}, Len(log) + 1)
    BY <1>3, Zenon DEF InsertInNewPage, NextLsn
  <2>2. gaps' = {} => ~pages[new].exists
    <3>1. gaps' = IF pages[new].exists THEN {"page in use"} ELSE {}
      BY <1>3, Zenon DEF InsertInNewPage, NextLsn
    <3> HIDE DEF new
    <3> QED BY <3>1, Zenon
  <2>3. Len(log) + 1 + 1 = Len(log) + 2
    BY DEF Typed
  <2>4. Searched # {} => last \in Searched /\ pages[last].next = NULL_PAGE_ID /\ last \in Chain(pages)
    <3>1. Searched # {} => /\ \E p \in Searched : pages[p].next = NULL_PAGE_ID
                           /\ Searched \subseteq Chain(pages)
      BY <2>1, SearchEnds
    <3>2. Searched # {} => last = CHOOSE p \in Searched : pages[p].next = NULL_PAGE_ID
      OBVIOUS
    <3> HIDE DEF last
    <3> QED BY <3>1, <3>2
  <2>5. Searched # {} => last # NULL_PAGE_ID
    <3>1. NULL_PAGE_ID \notin PageId
      BY HeapBounds DEF NULL_PAGE_ID, PageId
    <3>2. Chain(pages) \subseteq PageId
      BY ChainFacts DEF Typed
    <3> QED BY <2>4, <3>1, <3>2
  <2>6. \/ new = 0 /\ last = NULL_PAGE_ID
        \/ new = last + 1 /\ last \in Chain(pages) /\ pages[last].next = NULL_PAGE_ID
    BY <2>4
  <2>7. linked = IF last = NULL_PAGE_ID THEN pages ELSE [pages EXCEPT ![last].next = new]
    <3>1. CASE Searched = {}
      <4>1. last = NULL_PAGE_ID /\ linked = pages
        BY <3>1
      <4> QED BY <4>1
    <3>2. CASE Searched # {}
      <4>1. linked = [pages EXCEPT ![last].next = new]
        BY <3>2
      <4> HIDE DEF last, linked, new
      <4> QED BY <2>5, <3>2, <4>1
    <3> QED BY <3>1, <3>2
  <2> HIDE DEF last, new, linked
  <2>8. Opening(x, last, new)
    BY <1>1, <2>1, <2>3, <2>6, <2>7 DEF Opening
  <2> QED BY <2>2, <2>8
<1> QED BY <1>2, <1>3 DEF InsertRecord

\* What opening a page does to the log and the pages.
LEMMA OpeningLog ==
  ASSUME Typed, NEW x \in Xid, NEW last, NEW new, Opening(x, last, new)
  PROVE  LET a == NewPageLog(x, last, new)
             b == InsertLog(x, new, 1)
             N == Len(log) + 1
         IN
         /\ a \in RecordType /\ a.type = "NEW_PAGE" /\ a.xid = x /\ a.page = new /\ a.prev = last
         /\ b \in RecordType /\ RecordShape(b) /\ b.type = "INSERT" /\ b.xid = x /\ b.page = new /\ b.slot = 1
         /\ Extended(log, a, Append(log, a)) /\ Extended(Append(log, a), b, log')
         /\ last \in 0 .. NULL_PAGE_ID /\ RecordShape(a)
         /\ Len(log) \in Nat /\ N + 1 \in 1 .. MaxLsn
         /\ log' \in Seq(RecordType) /\ Len(log') = N + 1 /\ DOMAIN log = 1 .. Len(log) /\ DOMAIN log' = 1 .. N + 1
         /\ log'[N] = a /\ log'[N + 1] = b /\ \A n \in DOMAIN log : log'[n] = log[n]
<1> DEFINE a == NewPageLog(x, last, new)
           b == InsertLog(x, new, 1)
           N == Len(log) + 1
           l1 == Append(log, a)
<1>1. /\ Len(log) \in Nat /\ MaxLsn \in Nat /\ new \in PageId /\ Capacity \in Nat /\ 1 \in 1 .. Capacity /\ MaxPage \in Nat
      /\ log \in Seq(RecordType) /\ x \in Xid
  BY HeapBounds DEF Typed, Opening
<1>2. last \in 0 .. NULL_PAGE_ID /\ ((last = NULL_PAGE_ID /\ new = 0) \/ (new \in 1 .. MaxPage /\ last = new - 1))
  <2>1. CASE new = 0 /\ last = NULL_PAGE_ID
    <3>1. NULL_PAGE_ID \in 0 .. NULL_PAGE_ID
      BY <1>1 DEF NULL_PAGE_ID
    <3> QED BY <2>1, <3>1
  <2>2. CASE new = last + 1 /\ last \in Chain(pages)
    <3>1. last \in 0 .. MaxPage
      BY <2>2, ChainFacts DEF Typed, PageId
    <3> QED BY <1>1, <2>2, <3>1 DEF PageId, NULL_PAGE_ID
  <2> QED BY <2>1, <2>2 DEF Opening
<1>3. /\ a \in RecordType /\ a.type = "NEW_PAGE" /\ a.xid = x /\ a.page = new /\ a.prev = last
  BY <1>1, <1>2, LogRecordTypes
<1>4. b \in RecordType /\ RecordShape(b) /\ b.type = "INSERT" /\ b.xid = x /\ b.page = new /\ b.slot = 1
  BY <1>1, LogRecordTypes
<1> HIDE DEF a, b
<1>5. RecordShape(a)
  BY <1>1, <1>2, <1>3 DEF RecordShape, IsNewPage, IsInsert, IsDelete
<1>6. Extended(log, a, l1) /\ l1 \in Seq(RecordType)
  <2>1. Extended(log, a, Append(log, a))
    BY <1>1, <1>3, AppendExtends
  <2> QED BY <2>1 DEF Extended
<1>7. log' = Append(l1, b)
  <2>1. log' = log \o <<a, b>>
    BY DEF Opening, a, b
  <2>2. log \o <<a, b>> = Append(Append(log, a), b)
    BY <1>1, <1>3, <1>4
  <2> QED BY <2>1, <2>2
<1>8. Extended(l1, b, log')
  <2> HIDE DEF l1
  <2>1. Extended(l1, b, Append(l1, b))
    BY <1>4, <1>6, AppendExtends
  <2> QED BY <1>7, <2>1
<1>9. N + 1 \in 1 .. MaxLsn
  BY <1>1 DEF Opening
<1>10. /\ Len(l1) = N /\ DOMAIN l1 = 1 .. N /\ l1[N] = a /\ DOMAIN log = 1 .. Len(log)
       /\ \A n \in 1 .. Len(log) : l1[n] = log[n]
  <2> HIDE DEF l1
  <2> QED BY <1>1, <1>6 DEF Extended
<1>11. /\ log' \in Seq(RecordType) /\ Len(log') = N + 1 /\ DOMAIN log' = 1 .. N + 1
       /\ log'[N + 1] = b /\ \A n \in 1 .. N : log'[n] = l1[n]
  <2> HIDE DEF l1, N
  <2> QED BY <1>8, <1>10 DEF Extended
<1>12. log'[N] = a /\ \A n \in DOMAIN log : log'[n] = log[n]
  <2> HIDE DEF l1
  <2> QED BY <1>1, <1>10, <1>11
<1> QED BY <1>1, <1>2, <1>3, <1>4, <1>5, <1>6, <1>8, <1>9, <1>10, <1>11, <1>12 DEF a, b

LEMMA BlankIs == Blank = [lsn |-> NoLsn, next |-> NULL_PAGE_ID, slots |-> <<>>, exists |-> TRUE]
<1> DEFINE no == FALSE
           yes == TRUE
           none == <<>>
<1>1. /\ NoPage = [lsn |-> NoLsn, next |-> NULL_PAGE_ID, slots |-> none, exists |-> no]
      /\ Blank = [NoPage EXCEPT !.exists = yes]
  BY Zenon DEF NoPage, Blank
<1> HIDE DEF no, yes, none
<1>2. Blank = [lsn |-> NoLsn, next |-> NULL_PAGE_ID, slots |-> none, exists |-> yes]
  BY <1>1
<1> QED BY <1>2, Zenon DEF yes, none

\* What opening the page new leaves.
OpenedPages(x, last, new) ==
  /\ Typed'
  /\ \A o \in PageId \ {new} :
       /\ pages'[o].lsn = pages[o].lsn /\ pages'[o].exists = pages[o].exists /\ pages'[o].slots = pages[o].slots
       /\ pages'[o].next = IF o = last THEN new ELSE pages[o].next
       /\ o # last => pages'[o] = pages[o]
  /\ pages'[new].lsn = Len(log) + 2 /\ pages'[new].next = NULL_PAGE_ID /\ pages'[new].exists = TRUE
  /\ pages'[new].slots = <<Slot(Len(log) + 2, x)>>
  /\ \A o \in PageId : dpt_'[o] = dpt_[o] \/ (dpt_[o] = NoLsn /\ dpt_'[o] = Len(log) + 1)
  /\ dpt_'[new] # NoLsn

LEMMA OpeningPages ==
  ASSUME Typed, NEW x \in Xid, NEW last, NEW new, Opening(x, last, new)
  PROVE  OpenedPages(x, last, new)
<1> DEFINE N == Len(log) + 2
           s == Slot(N, x)
           linked == IF last = NULL_PAGE_ID THEN pages ELSE [pages EXCEPT ![last].next = new]
           made == [Blank EXCEPT !.lsn = N, !.slots = <<s>>]
<1>1. /\ Len(log) \in Nat /\ N \in 0 .. MaxLsn /\ Len(log) + 1 \in 1 .. MaxLsn /\ N <= MaxLsn
      /\ new \in PageId /\ pages \in PagesType /\ MaxLsn \in Nat
      /\ 1 <= Capacity /\ NULL_PAGE_ID \in 0 .. NULL_PAGE_ID /\ new \in 0 .. NULL_PAGE_ID
      /\ NULL_PAGE_ID \notin PageId /\ last \in PageId \cup {NULL_PAGE_ID}
  <2>1. Len(log) \in Nat /\ Len(log) + 2 <= MaxLsn /\ MaxLsn \in Nat /\ new \in PageId /\ pages \in PagesType
    BY HeapBounds DEF Typed, Opening
  <2>2. last \in PageId \cup {NULL_PAGE_ID}
    <3>1. Chain(pages) \subseteq PageId
      BY <2>1, ChainFacts
    <3> QED BY <3>1 DEF Opening
  <2>3. 1 <= Capacity /\ NULL_PAGE_ID \in 0 .. NULL_PAGE_ID /\ new \in 0 .. NULL_PAGE_ID /\ NULL_PAGE_ID \notin PageId
    BY <2>1, HeapBounds DEF NULL_PAGE_ID, PageId
  <2> QED BY <2>1, <2>2, <2>3
<1>2. s \in SlotType
  BY <1>1, SlotTypes
<1> HIDE DEF s, N
<1>3. made = [lsn |-> N, next |-> NULL_PAGE_ID, slots |-> <<s>>, exists |-> TRUE]
  <2>1. Blank = [lsn |-> NoLsn, next |-> NULL_PAGE_ID, slots |-> <<>>, exists |-> TRUE]
    BY BlankIs
  <2> DEFINE one == <<s>>
  <2> HIDE DEF one
  <2>2. made = [Blank EXCEPT !.lsn = N, !.slots = one]
    BY DEF one
  <2> HIDE DEF made
  <2>3. made = [lsn |-> N, next |-> NULL_PAGE_ID, slots |-> one, exists |-> TRUE]
    BY <2>1, <2>2
  <2> QED BY <2>3 DEF one
<1>4. made \in PageType
  <2>1. <<s>> \in Seq(SlotType) /\ Len(<<s>>) = 1
    BY <1>2
  <2> HIDE DEF made
  <2> QED BY <1>1, <1>3, <2>1, PageIntro
<1>5. ASSUME NEW o \in PageId
      PROVE  linked[o] = IF o = last THEN [pages[o] EXCEPT !.next = new] ELSE pages[o]
  BY <1>1, <1>5 DEF PagesType
<1>6. DOMAIN linked = PageId
  BY <1>1 DEF PagesType
<1>7. pages' = [linked EXCEPT ![new] = made]
  BY DEF Opening, s, N
<1> HIDE DEF linked, made
<1>8. ASSUME NEW o \in PageId
      PROVE  pages'[o] = IF o = new THEN made ELSE IF o = last THEN [pages[o] EXCEPT !.next = new] ELSE pages[o]
  BY <1>1, <1>5, <1>6, <1>7
<1>9. ASSUME NEW o \in PageId
      PROVE  /\ pages'[o] \in PageType
             /\ o # new => /\ pages'[o].lsn = pages[o].lsn /\ pages'[o].exists = pages[o].exists
                           /\ pages'[o].slots = pages[o].slots
                           /\ pages'[o].next = IF o = last THEN new ELSE pages[o].next
                           /\ o # last => pages'[o] = pages[o]
  <2>1. pages[o] \in PageType
    BY <1>1 DEF PagesType
  <2> QED BY <1>1, <1>4, <1>8, <2>1 DEF PageType
<1>10. pages' \in PagesType
  <2>1. pages' = [o \in PageId |-> pages'[o]]
    BY <1>6, <1>7
  <2> QED BY <1>9, <2>1 DEF PagesType
<1>11. /\ pages'[new].lsn = N /\ pages'[new].next = NULL_PAGE_ID /\ pages'[new].exists = TRUE
       /\ pages'[new].slots = <<s>>
  <2> DEFINE one == <<s>>
  <2>1. pages'[new] = [lsn |-> N, next |-> NULL_PAGE_ID, slots |-> one, exists |-> TRUE]
    BY <1>1, <1>3, <1>8
  <2> HIDE DEF one
  <2>2. /\ pages'[new].lsn = N /\ pages'[new].next = NULL_PAGE_ID /\ pages'[new].exists = TRUE
        /\ pages'[new].slots = one
    BY <2>1
  <2> QED BY <2>2 DEF one
<1>12. /\ dpt_' \in [PageId -> 0 .. MaxLsn]
       /\ \A o \in PageId : dpt_'[o] = dpt_[o] \/ (dpt_[o] = NoLsn /\ dpt_'[o] = Len(log) + 1)
       /\ dpt_'[new] # NoLsn
  <2>1. dpt_ \in [PageId -> 0 .. MaxLsn] /\ dpt_' = Dirtied(dpt_, {new, last}, Len(log) + 1)
    BY DEF Opening, Typed
  <2>2. IsDirtied(dpt_, {new, last}, Len(log) + 1, dpt_')
    BY <1>1, <2>1, DirtiedFacts
  <2> QED BY <1>1, <2>2 DEF IsDirtied
<1>13. log' \in Seq(RecordType) /\ Len(log') = Len(log) + 2
  BY <1>1, OpeningLog
<1>14. Typed'
  <2>1. UNCHANGED <<disk, flushed_lsn_, att_, checkpoint, active, next_xid_, control_xid, undone, initial>>
    BY DEF Opening
  <2>2. Len(log') <= MaxLsn /\ flushed_lsn_ \in 0 .. Len(log')
    BY <1>1, <1>13 DEF Typed, N
  <2> QED BY <1>10, <1>12, <1>13, <2>1, <2>2 DEF Typed
<1> QED BY <1>9, <1>11, <1>12, <1>14 DEF s, N, OpenedPages

LEMMA OpeningFacts ==
  ASSUME Typed, Exact, NEW x \in Xid, NEW last, NEW new, Opening(x, last, new), ~pages[new].exists
  PROVE  /\ Change(x, new) /\ LogShape(log')
         /\ new \in PageId /\ DOMAIN pages[new].slots = {} /\ pages[new].next = NULL_PAGE_ID
         /\ \A o \in PageId : o >= new => ~pages[o].exists
         /\ \A n \in DOMAIN log : log[n].page # new /\ (IsNewPage(log[n]) => log[n].page < new)
         /\ \A y, o, j : Deletes(y, o, j)' <=> Deletes(y, o, j)
         /\ \A y, o : OpenedBy(y, o)' <=> OpenedBy(y, o) \/ (y = x /\ o = new)
<1> DEFINE a == NewPageLog(x, last, new)
           b == InsertLog(x, new, 1)
           l1 == Append(log, a)
           N == Len(log) + 1
<1>1. /\ a \in RecordType /\ a.type = "NEW_PAGE" /\ a.xid = x /\ a.page = new /\ a.prev = last
      /\ b \in RecordType /\ RecordShape(b) /\ b.type = "INSERT" /\ b.xid = x /\ b.page = new /\ b.slot = 1
      /\ Extended(log, a, l1) /\ Extended(l1, b, log')
      /\ RecordShape(a)
      /\ Len(log) \in Nat /\ N + 1 \in 1 .. MaxLsn
      /\ log' \in Seq(RecordType) /\ Len(log') = N + 1 /\ DOMAIN log = 1 .. Len(log) /\ DOMAIN log' = 1 .. N + 1
      /\ log'[N] = a /\ log'[N + 1] = b /\ \A n \in DOMAIN log : log'[n] = log[n]
  BY OpeningLog
<1> HIDE DEF a, b, l1
<1>2. /\ ~IsEnd(a) /\ IsNewPage(a) /\ ~IsInsert(a) /\ ~IsDelete(a)
      /\ ~IsEnd(b) /\ ~IsNewPage(b) /\ IsInsert(b) /\ ~IsDelete(b)
  BY <1>1 DEF IsEnd, IsNewPage, IsInsert, IsDelete
<1>3. /\ new \in PageId /\ x \in active /\ pages[new] = NoPage
      /\ \A o \in PageId : o >= new => ~pages[o].exists
  <2>1. new \in PageId /\ x \in active /\ PagesExact
    BY DEF Opening, Exact
  <2> QED BY <2>1, NothingBeyond DEF PagesExact
<1>4. DOMAIN pages[new].slots = {} /\ pages[new].next = NULL_PAGE_ID
  BY <1>3 DEF NoPage
<1>5. ASSUME NEW n \in DOMAIN log PROVE log[n].page # new /\ (IsNewPage(log[n]) => log[n].page < new)
  <2>1. RecordShape(log[n])
    BY DEF Exact, LogShape
  <2>2. IsNewPage(log[n]) => log[n].page \in PageId /\ pages[log[n].page].exists
    <3>1. IsNewPage(log[n]) => log[n].page \in PageId
      BY <2>1, HeapBounds DEF RecordShape, PageId
    <3> QED BY <3>1 DEF Exact, PagesExact, Opened
  <2>3. IsInsert(log[n]) => log[n].slot \in DOMAIN pages[log[n].page].slots
    BY DEF Exact, RowsInv, InsertsPresent
  <2>4. IsDelete(log[n]) => log[n].slot \in DOMAIN pages[log[n].page].slots
    BY DEF Exact, RowsInv, DeletesExact
  <2>5. log[n].page # new
    BY <1>3, <1>4, <2>1, <2>2, <2>3, <2>4 DEF RecordShape
  <2>6. ASSUME IsNewPage(log[n]) PROVE log[n].page < new
    <3>1. ~(log[n].page >= new) /\ log[n].page \in PageId
      BY <1>3, <2>2, <2>6
    <3> QED BY <1>3, <3>1, HeapBounds DEF PageId
  <2> QED BY <2>5, <2>6
<1>6. ASSUME NEW n \in DOMAIN log PROVE IsEnd(log[n]) => log[n].xid # x
  BY <1>3, EndsAreEnded DEF Exact, RecoverInv, XactsExact, Typed
<1>7. LogShape(log')
  <2>1. ASSUME NEW m \in DOMAIN log PROVE InOrder(log[m], a) /\ InOrder(log[m], b)
    BY <1>1, <1>2, <1>5, <1>6 DEF InOrder, SameRid
  <2>2. InOrder(a, b)
    BY <1>1, <1>2 DEF InOrder
  <2>3. LogShape(l1) /\ l1 \in Seq(RecordType)
    <3>1. LogShape(l1)
      BY <1>1, <2>1, ExtendedShape DEF Exact, Typed
    <3> QED BY <1>1, <3>1 DEF Extended
  <2>4. ASSUME NEW m \in DOMAIN l1 PROVE InOrder(l1[m], b)
    <3>1. m \in 1 .. Len(log) + 1 /\ l1[Len(log) + 1] = a /\ \A n \in 1 .. Len(log) : l1[n] = log[n]
      BY <1>1 DEF Extended
    <3>2. m = Len(log) + 1 \/ m \in 1 .. Len(log)
      BY <1>1, <3>1
    <3> QED BY <1>1, <2>1, <2>2, <3>1, <3>2
  <2> QED BY <1>1, <2>3, <2>4, ExtendedShape
<1>8. Committed(log') = Committed(log) /\ RolledBack(log') = RolledBack(log)
  <2>1. Committed(l1) = Committed(log) /\ RolledBack(l1) = RolledBack(log)
    BY <1>1, <1>2 DEF Extended
  <2>2. Committed(log') = Committed(l1) /\ RolledBack(log') = RolledBack(l1)
    BY <1>1, <1>2 DEF Extended
  <2> QED BY <2>1, <2>2
<1>9. /\ \A y, o, j : Deletes(y, o, j)' <=> Deletes(y, o, j)
      /\ \A y, o : OpenedBy(y, o)' <=> OpenedBy(y, o) \/ (y = x /\ o = new)
  <2>1. /\ \A y, o, j : DeletesIn(l1, DOMAIN l1, y, o, j) <=> DeletesIn(log, DOMAIN log, y, o, j)
        /\ \A y, o : OpensIn(l1, DOMAIN l1, y, o) <=> OpensIn(log, DOMAIN log, y, o) \/ (y = x /\ o = new)
    BY <1>1, <1>2 DEF Extended
  <2>2. /\ \A y, o, j : DeletesIn(log', DOMAIN log', y, o, j) <=> DeletesIn(l1, DOMAIN l1, y, o, j)
        /\ \A y, o : OpensIn(log', DOMAIN log', y, o) <=> OpensIn(l1, DOMAIN l1, y, o)
    BY <1>1, <1>2 DEF Extended
  <2> QED BY <2>1, <2>2 DEF Deletes, OpenedBy
<1>10. Change(x, new)
  <2>1. /\ Typed'
        /\ \A o \in PageId \ {new} :
              /\ pages'[o].lsn = pages[o].lsn /\ pages'[o].exists = pages[o].exists /\ pages'[o].slots = pages[o].slots
              /\ pages'[o].next = IF o = last THEN new ELSE pages[o].next
              /\ o # last => pages'[o] = pages[o]
        /\ pages'[new].lsn = Len(log) + 2
        /\ \A o \in PageId : dpt_'[o] = dpt_[o] \/ (dpt_[o] = NoLsn /\ dpt_'[o] = Len(log) + 1)
        /\ dpt_'[new] # NoLsn
    <3>1. OpenedPages(x, last, new)
      BY OpeningPages
    <3> QED BY <3>1 DEF OpenedPages
  <2>2. /\ Len(log') \in Len(log) + 1 .. MaxLsn
        /\ \A n \in DOMAIN log : log'[n] = log[n] /\ n \in DOMAIN log'
        /\ \A n \in DOMAIN log' \ DOMAIN log : n = N \/ n = N + 1
        /\ Len(log') = Len(log) + 2
    BY <1>1
  <2>3. \A n \in DOMAIN log' \ DOMAIN log : log'[n].xid = x /\ log'[n].page = new /\ ~IsEnd(log'[n])
    BY <1>1, <1>2, <2>2
  <2>4. UNCHANGED <<disk, flushed_lsn_, att_, checkpoint, active, undone, initial>>
    BY DEF Opening
  <2>5. ASSUME NEW o \in 1 .. MaxPage, OpenedByRolledBack(o) PROVE pages'[o - 1].next = pages[o - 1].next
    <3>1. o \in PageId /\ o - 1 \in PageId /\ pages[o].exists
      <4>1. o \in PageId /\ o - 1 \in PageId
        BY HeapBounds DEF PageId
      <4>2. Opened(o)
        BY <2>5 DEF OpenedByRolledBack, OpenedBy, OpensIn, Opened
      <4> QED BY <4>1, <4>2 DEF Exact, PagesExact
    <3>2. ~(o >= new) /\ new \in 0 .. MaxPage
      BY <1>3, <3>1 DEF PageId
    <3>3. o - 1 # new /\ o # new
      BY <3>2, HeapBounds
    <3>4. o - 1 # last
      <4>1. CASE new = 0 /\ last = NULL_PAGE_ID
        BY <4>1, HeapBounds DEF NULL_PAGE_ID
      <4>2. CASE new = last + 1 /\ last \in Chain(pages)
        <5>1. last \in 0 .. MaxPage
          BY <4>2, ChainFacts DEF Typed, PageId
        <5> QED BY <3>3, <4>2, <5>1, HeapBounds
      <4> QED BY <4>1, <4>2 DEF Opening
    <3> QED BY <2>1, <3>1, <3>3, <3>4
  <2>6. /\ \A o \in PageId : \A i \in DOMAIN pages[o].slots :
             /\ i \in DOMAIN pages'[o].slots
             /\ pages'[o].slots[i].row = pages[o].slots[i].row
             /\ pages'[o].slots[i].xmin = pages[o].slots[i].xmin
    BY <1>4, <2>1
  <2>7. pages' \in PagesType /\ pages'[new].lsn = Len(log')
    BY <2>1, <2>2 DEF Typed
  <2> QED BY <1>1, <1>3, <1>8, <2>1, <2>2, <2>3, <2>4, <2>5, <2>6, <2>7 DEF Change
<1> QED BY <1>3, <1>4, <1>5, <1>7, <1>9, <1>10

LEMMA OpeningLinks ==
  ASSUME Typed, Exact, NEW x \in Xid, NEW last, NEW new, Opening(x, last, new), ~pages[new].exists
  PROVE  LinksExact'
<1>1. /\ Change(x, new)
      /\ new \in PageId /\ DOMAIN pages[new].slots = {} /\ pages[new].next = NULL_PAGE_ID
      /\ \A o \in PageId : o >= new => ~pages[o].exists
      /\ \A n \in DOMAIN log : log[n].page # new /\ (IsNewPage(log[n]) => log[n].page < new)
      /\ \A y, o : OpenedBy(y, o)' <=> OpenedBy(y, o) \/ (y = x /\ o = new)
  BY OpeningFacts
<1>2. /\ Typed'
      /\ \A o \in PageId \ {new} :
           /\ pages'[o].exists = pages[o].exists /\ pages'[o].slots = pages[o].slots
           /\ pages'[o].next = IF o = last THEN new ELSE pages[o].next
      /\ pages'[new].next = NULL_PAGE_ID /\ pages'[new].exists = TRUE
  <2>1. OpenedPages(x, last, new)
    BY OpeningPages
  <2> QED BY <2>1 DEF OpenedPages
<1>3. /\ LinksExact /\ x \in active /\ active' = active /\ Live' = Live /\ RolledBack(log') = RolledBack(log)
      /\ x \in Live /\ x \notin RolledBack(log) /\ pages \in PagesType /\ pages' \in PagesType
  <2>1. XactsExact /\ LinksExact
    BY DEF Exact, RecoverInv
  <2>2. x \in active /\ active' = active /\ Live' = Live /\ RolledBack(log') = RolledBack(log)
    BY <1>1, ChangeLog DEF Change
  <2> QED BY <1>2, <2>1, <2>2, LiveNotRolledBack DEF Live, Typed
<1>4. /\ MaxPage \in Nat /\ NULL_PAGE_ID = MaxPage + 1 /\ PageId = 0 .. MaxPage /\ 0 \in PageId
      /\ \/ new = 0 /\ last = NULL_PAGE_ID
         \/ new = last + 1 /\ last \in PageId /\ last \in Chain(pages) /\ pages[last].next = NULL_PAGE_ID
  BY <1>3, ChainFacts, HeapBounds DEF PageId, NULL_PAGE_ID, Opening
<1>5. ASSUME NEW y, NEW o, OpenedBy(y, o) PROVE o < new /\ o # new
  BY <1>1, <1>5 DEF OpenedBy, OpensIn
<1>6. ASSUME NEW o \in PageId
      PROVE  /\ pages'[o].next = IF o = last THEN new ELSE pages[o].next
             /\ pages[o].exists => pages'[o].exists
             /\ o = last => pages[o].next = NULL_PAGE_ID
  BY <1>1, <1>2, <1>4
<1>7. Chain(pages) \subseteq Chain(pages') /\ new \in Chain(pages')
  <2>1. Chain(pages) \subseteq Chain(pages')
    BY <1>4, <1>6, LinkAdds
  <2>2. new = 0 => new \in Chain(pages')
    BY <1>2, <1>3, ChainFacts
  <2>3. new = last + 1 /\ last \in Chain(pages) /\ last \in PageId => new \in Chain(pages')
    <3>1. last \in Chain(pages') => pages'[last].next \in Chain(pages') \cup {NULL_PAGE_ID}
      BY <1>3, ChainFacts
    <3>2. new # NULL_PAGE_ID
      BY <1>1, <1>4
    <3> QED BY <1>6, <2>1, <3>1, <3>2
  <2> QED BY <1>4, <2>1, <2>2, <2>3
<1>8. ASSUME NEW o \in PageId
      PROVE  /\ Relinked[o].exists = pages[o].exists
             /\ Relinked'[o].exists = pages'[o].exists
             /\ Relinked'[o].next = IF o = last THEN new ELSE Relinked[o].next
             /\ o = last => Relinked[o].next = NULL_PAGE_ID
             /\ o = new => Relinked'[o].next = NULL_PAGE_ID
  <2>1. /\ Relinked[o].exists = pages[o].exists
        /\ Relinked[o].next = IF \E y \in Xid \ RolledBack(log) : OpenedBy(y, o + 1) THEN o + 1 ELSE pages[o].next
    BY <1>3, RelinkedFacts DEF Relinked, OpenedBy
  <2>2. /\ Relinked'[o].exists = pages'[o].exists
        /\ Relinked'[o].next = IF \E y \in Xid \ RolledBack(log') : OpenedBy(y, o + 1)' THEN o + 1 ELSE pages'[o].next
    BY <1>3, RelinkedFacts DEF Relinked, OpenedBy
  <2>3. CASE o = last
    <3>1. o + 1 = new /\ ~\E y : OpenedBy(y, o + 1)
      BY <1>4, <1>5, <2>3
    <3>2. OpenedBy(x, o + 1)'
      BY <1>1, <3>1
    <3> QED BY <1>3, <1>4, <1>6, <2>1, <2>2, <2>3, <3>1, <3>2
  <2>4. CASE o # last
    <3>1. o + 1 # new
      BY <1>4, <2>4
    <3>2. \A y : OpenedBy(y, o + 1)' <=> OpenedBy(y, o + 1)
      BY <1>1, <3>1
    <3>3. o = new => ~\E y : OpenedBy(y, o + 1)
      BY <1>4, <1>5
    <3> QED BY <1>2, <1>3, <1>6, <2>1, <2>2, <2>4, <3>2, <3>3
  <2> QED BY <2>3, <2>4
<1>9. Relinked \in PagesType /\ Relinked' \in PagesType
  BY <1>3, RelinkedFacts DEF Relinked
<1>10. Chain(Relinked) \subseteq Chain(Relinked') /\ new \in Chain(Relinked')
  <2> DEFINE q == Relinked
             w == Relinked'
  <2>0. /\ w \in PagesType /\ q[0].exists = pages[0].exists /\ w[0].exists = pages'[0].exists
        /\ \A o \in PageId : w[o].next = IF o = last THEN new ELSE q[o].next
        /\ \A o \in PageId : o = last => q[o].next = NULL_PAGE_ID
    BY <1>4, <1>8, <1>9
  <2> HIDE DEF q, w
  <2>1. Chain(q) \subseteq Chain(w)
    BY <1>4, <1>6, <2>0, LinkAdds
  <2>2. Chain(pages) \subseteq Chain(q)
    BY <1>3, ChainInRelinked DEF q
  <2>3. new = 0 => new \in Chain(w)
    BY <1>2, <2>0, ChainFacts
  <2>4. new = last + 1 /\ last \in Chain(pages) /\ last \in PageId => new \in Chain(w)
    <3>1. last \in Chain(w) => w[last].next \in Chain(w) \cup {NULL_PAGE_ID}
      BY <2>0, ChainFacts
    <3>2. new # NULL_PAGE_ID
      BY <1>1, <1>4
    <3> QED BY <2>0, <2>1, <2>2, <3>1, <3>2
  <2>5. Chain(q) \subseteq Chain(w) /\ new \in Chain(w)
    BY <1>4, <2>1, <2>3, <2>4
  <2> QED BY <2>5 DEF q, w
<1>11. Chain(Relinked') \subseteq Chain(Relinked) \cup {new}
  <2> DEFINE q == Relinked
             w == Relinked'
             C == Chain(q) \cup {new}
  <2>0. /\ q \in PagesType /\ w \in PagesType /\ q[0].exists = pages[0].exists
        /\ \A o \in PageId : w[o].next = IF o = last THEN new ELSE q[o].next
        /\ w[new].next = NULL_PAGE_ID
    BY <1>1, <1>4, <1>8, <1>9
  <2> HIDE DEF q, w
  <2>1. C \in SUBSET PageId
    BY <1>1, <2>0, ChainFacts
  <2>2. 0 \in C
    <3>1. CASE new = 0
      BY <3>1
    <3>2. CASE last \in Chain(pages)
      <4>1. pages[0].exists
        BY <1>3, <3>2, ChainFacts
      <4> QED BY <2>0, <4>1, ChainFacts
    <3> QED BY <1>4, <3>1, <3>2
  <2>3. ASSUME NEW o \in C \cap PageId PROVE w[o].next \in C \cup {NULL_PAGE_ID}
    <3>1. o \in Chain(q) => q[o].next \in Chain(q) \cup {NULL_PAGE_ID}
      BY <2>0, ChainFacts
    <3> QED BY <2>0, <2>3, <3>1
  <2> HIDE DEF C
  <2>4. Closed(w, PageId, C)
    BY <2>2, <2>3 DEF Closed
  <2>5. Chain(w) \subseteq C
    BY <2>1, <2>4, ReachedLeast DEF Chain
  <2> QED BY <2>5 DEF C, q, w
<1>12. Forward(pages')
  <2> SUFFICES ASSUME NEW o \in PageId PROVE pages'[o].next \in o + 1 .. NULL_PAGE_ID
    BY DEF Forward
  <2>1. pages[o].next \in o + 1 .. NULL_PAGE_ID
    BY <1>3 DEF LinksExact, Forward
  <2> QED BY <1>1, <1>4, <1>6, <2>1
<1>13. ASSUME NEW o \in PageId, pages'[o].next # NULL_PAGE_ID PROVE pages'[pages'[o].next].exists
  <2>1. CASE o = last
    BY <1>2, <1>6, <2>1
  <2>2. CASE o # last
    <3>1. pages'[o].next = pages[o].next /\ pages[o].next \in PageId
      BY <1>3, <1>6, <1>13, <2>2, NextType
    <3>2. pages[pages[o].next].exists
      BY <1>3, <1>13, <3>1 DEF LinksExact
    <3> QED BY <1>6, <3>1, <3>2
  <2> QED BY <2>1, <2>2
<1>14. ASSUME NEW o \in 1 .. MaxPage, NEW y \in Live', OpenedBy(y, o)' PROVE pages'[o - 1].next = o
  <2>1. o - 1 \in PageId /\ o # NULL_PAGE_ID /\ o # 0
    BY <1>4
  <2>2. CASE OpenedBy(y, o)
    <3>1. pages[o - 1].next = o
      BY <1>3, <2>2 DEF LinksExact
    <3> QED BY <1>6, <2>1, <3>1
  <2>3. CASE o = new
    <3>1. o - 1 = last
      BY <1>4, <2>1, <2>3
    <3> QED BY <1>6, <2>1, <2>3, <3>1
  <2> QED BY <1>1, <1>14, <2>2, <2>3
<1>15. ASSUME NEW o \in PageId \ Chain(pages'), NEW i \in DOMAIN pages'[o].slots
       PROVE  pages'[o].slots[i].xmin \notin Live' \cup {NULL_XID}
  <2>1. o # new /\ o \notin Chain(pages) /\ pages'[o].slots = pages[o].slots
    BY <1>2, <1>7
  <2> QED BY <1>3, <2>1 DEF LinksExact
<1>16. ASSUME NEW o \in PageId \ Chain(Relinked'), NEW i \in DOMAIN pages'[o].slots
       PROVE  pages'[o].slots[i].xmin \in RolledBack(log')
  <2>1. o # new /\ o \notin Chain(Relinked) /\ pages'[o].slots = pages[o].slots
    BY <1>2, <1>10
  <2> QED BY <1>3, <2>1 DEF LinksExact
<1>17. ASSUME NEW o \in 1 .. MaxPage - 1, NEW z \in active', NEW y \in Xid, OpenedBy(z, o)', OpenedBy(y, o + 1)'
       PROVE  y \in Live' \cup RolledBack(log')
  <2>1. CASE OpenedBy(y, o + 1)
    <3>1. o # new
      BY <1>4, <1>5, <2>1
    <3>2. OpenedBy(z, o)
      BY <1>1, <1>17, <3>1
    <3> QED BY <1>3, <2>1, <3>2 DEF LinksExact
  <2>2. CASE y = x
    BY <1>3, <2>2
  <2> QED BY <1>1, <1>17, <2>1, <2>2
<1>18. ASSUME NEW o \in Chain(Relinked') PROVE pages'[o].next \in Chain(Relinked') \cup {NULL_PAGE_ID}
  <2>1. CASE o = new
    BY <1>2, <2>1
  <2>2. CASE o \in Chain(Relinked)
    <3>1. pages[o].next \in Chain(Relinked) \cup {NULL_PAGE_ID} /\ o \in PageId
      BY <1>3, <1>9, <2>2, ChainFacts DEF LinksExact
    <3> QED BY <1>6, <1>10, <3>1
  <2> QED BY <1>11, <2>1, <2>2
<1>19. ASSUME NEW o \in 1 .. MaxPage, NEW y \in Xid \ (Live' \cup RolledBack(log')), NEW z \in active', OpenedBy(y, o)'
       PROVE  ~OpenedBy(z, pages[o - 1].next)'
  <2>1. OpenedBy(y, o) /\ o - 1 \in PageId
    BY <1>1, <1>3, <1>4, <1>19
  <2>2. o - 1 # last /\ pages'[o - 1].next = pages[o - 1].next
    BY <1>4, <1>5, <1>6, <2>1
  <2>3. ~OpenedBy(z, pages[o - 1].next)
    BY <1>3, <2>1 DEF LinksExact
  <2>4. pages[o - 1].next # new
    <3>1. new # NULL_PAGE_ID
      BY <1>1, <1>4
    <3> QED BY <1>3, <2>1, <3>1 DEF LinksExact
  <2>5. PICK t : t = pages'[o - 1].next
    OBVIOUS
  <2>6. ~OpenedBy(z, t)'
    BY <1>1, <2>2, <2>3, <2>4, <2>5
  <2> QED BY <2>5, <2>6 DEF OpenedBy, OpensIn
<1> QED BY <1>12, <1>13, <1>14, <1>15, <1>16, <1>17, <1>18, <1>19 DEF LinksExact

LEMMA OpeningExact ==
  ASSUME Typed, Exact, NEW x \in Xid, NEW last, NEW new, Opening(x, last, new), ~pages[new].exists
  PROVE  Exact'
<1> DEFINE a == NewPageLog(x, last, new)
           b == InsertLog(x, new, 1)
           N == Len(log) + 1
<1>1. /\ Change(x, new) /\ LogShape(log')
      /\ new \in PageId /\ DOMAIN pages[new].slots = {}
      /\ \A o \in PageId : o >= new => ~pages[o].exists
      /\ \A n \in DOMAIN log : log[n].page # new /\ (IsNewPage(log[n]) => log[n].page < new)
      /\ \A y, o, j : Deletes(y, o, j)' <=> Deletes(y, o, j)
      /\ \A y, o : OpenedBy(y, o)' <=> OpenedBy(y, o) \/ (y = x /\ o = new)
  BY OpeningFacts
<1>2. OpenedPages(x, last, new)
  BY OpeningPages
<1>3. /\ Typed'
      /\ \A o \in PageId \ {new} :
           /\ pages'[o].exists = pages[o].exists /\ pages'[o].slots = pages[o].slots
           /\ o # last => pages'[o] = pages[o]
      /\ pages'[new].exists = TRUE
      /\ pages'[new].slots = <<Slot(Len(log) + 2, x)>>
  BY <1>2 DEF OpenedPages
<1>4. /\ a.type = "NEW_PAGE" /\ a.xid = x /\ a.page = new
      /\ b.type = "INSERT" /\ b.xid = x /\ b.page = new /\ b.slot = 1
      /\ Len(log) \in Nat /\ N + 1 \in 1 .. MaxLsn
      /\ Len(log') = N + 1 /\ DOMAIN log = 1 .. Len(log) /\ DOMAIN log' = 1 .. N + 1
      /\ log'[N] = a /\ log'[N + 1] = b /\ \A n \in DOMAIN log : log'[n] = log[n]
  BY OpeningLog
<1> HIDE DEF a, b
<1>5. /\ ~IsEnd(a) /\ IsNewPage(a) /\ ~IsInsert(a) /\ ~IsDelete(a)
      /\ ~IsEnd(b) /\ ~IsNewPage(b) /\ IsInsert(b) /\ ~IsDelete(b)
  BY <1>4 DEF IsEnd, IsNewPage, IsInsert, IsDelete
<1>6. /\ Live' = Live /\ x \in active /\ x \in Live /\ initial' = initial
      /\ RolledBack(log') = RolledBack(log) /\ Committed(log') = Committed(log)
  BY <1>1, ChangeLog DEF Change, Live
<1>7. ASSUME NEW n \in DOMAIN log' PROVE n \in DOMAIN log \/ n = N \/ n = N + 1
  BY <1>4
<1> DEFINE M == N + 1
           s == Slot(M, x)
<1>8. M \in 0 .. MaxLsn /\ M \in DOMAIN log' /\ N \in DOMAIN log' /\ M \in Nat /\ N \in Nat /\ Len(log) + 2 = M
  BY <1>4
<1>9. s.row = M /\ s.xmin = x /\ s.xmax = NULL_XID
  <2> HIDE DEF M
  <2> QED BY <1>8, SlotTypes
<1>10. pages'[new].slots = <<s>>
  BY <1>3, <1>8
<1> HIDE DEF s, N, M
<1>11. DOMAIN pages'[new].slots = {1} /\ pages'[new].slots[1] = s
  <2>1. DOMAIN <<s>> = {1} /\ <<s>>[1] = s
    OBVIOUS
  <2> QED BY <1>10, <2>1
<1>12. log'[M] = b /\ log'[N] = a
  BY <1>4 DEF M
<1>13. ASSUME NEW o \in PageId, NEW j \in DOMAIN pages'[o].slots
       PROVE  \/ o = new /\ j = 1
              \/ j \in DOMAIN pages[o].slots /\ pages'[o].slots[j] = pages[o].slots[j]
  BY <1>3, <1>11
<1>14. RowsExact'
  <2> SUFFICES ASSUME NEW o \in PageId, NEW j \in DOMAIN pages'[o].slots
               PROVE  RowOf(o, j, pages[o].slots[j])'
    BY DEF RowsExact
  <2>1. CASE o = new /\ j = 1
    <3>1. PICK t : t = pages'[o].slots[j]
      OBVIOUS
    <3>2. t.row = M /\ t.xmin = x
      BY <1>9, <1>11, <2>1, <3>1
    <3>3. RowOf(o, j, t)'
      BY <1>4, <1>5, <1>8, <1>12, <2>1, <3>2 DEF RowOf
    <3> QED BY <3>1, <3>3 DEF RowOf
  <2>2. CASE j \in DOMAIN pages[o].slots
    BY <1>1, <2>2, ChangeKeeps
  <2> QED BY <1>13, <2>1, <2>2
<1>15. InsertsPresent' /\ InitialPresent'
  <2>1. \A n \in DOMAIN log : IsInsert(log[n]) =>
          /\ log[n].slot \in DOMAIN pages'[log[n].page].slots
          /\ pages'[log[n].page].slots[log[n].slot].row = n
    BY <1>1, ChangeKeeps
  <2>2. InitialPresent'
    BY <1>1, ChangeKeeps
  <2>3. 1 \in DOMAIN pages'[new].slots /\ pages'[new].slots[1].row = M
    BY <1>9, <1>11
  <2>4. InsertsPresent'
    <3> SUFFICES ASSUME NEW n \in DOMAIN log', IsInsert(log'[n])
                 PROVE  /\ log'[n].slot \in DOMAIN pages'[log'[n].page].slots
                        /\ pages'[log'[n].page].slots[log'[n].slot].row = n
      BY DEF InsertsPresent
    <3>1. n \in DOMAIN log \/ n = M
      BY <1>5, <1>7, <1>12 DEF M
    <3> QED BY <1>4, <1>12, <2>1, <2>3, <3>1
  <2> QED BY <2>2, <2>4
<1>16. MarksExact'
  <2> SUFFICES ASSUME NEW o \in PageId, NEW j \in DOMAIN pages'[o].slots
               PROVE  MarkOf(o, j, pages[o].slots[j])'
    BY DEF MarksExact
  <2>0. PICK t : t = pages'[o].slots[j]
    OBVIOUS
  <2>2. IF t.xmin \in Live' \cup {NULL_XID}
        THEN /\ t.xmax = NULL_XID \/ (t.xmax \in Live' /\ Deletes(t.xmax, o, j)')
             /\ \A y \in Live' : Deletes(y, o, j)' => t.xmax = y
        ELSE t.xmax = t.xmin
    <3>1. CASE o = new /\ j = 1
      <4>1. t.xmin = x /\ t.xmax = NULL_XID
        BY <1>9, <1>11, <2>0, <3>1
      <4>2. \A y : ~Deletes(y, new, 1)
        BY <1>1 DEF Deletes, DeletesIn
      <4> QED BY <1>1, <1>6, <3>1, <4>1, <4>2
    <3>2. CASE j \in DOMAIN pages[o].slots /\ t = pages[o].slots[j]
      <4>1. MarkOf(o, j, t)
        BY <3>2 DEF Exact, RowsInv, MarksExact
      <4> QED BY <1>1, <1>6, <4>1 DEF MarkOf
    <3> QED BY <1>13, <2>0, <3>1, <3>2
  <2> QED BY <2>0, <2>2 DEF MarkOf, Deletes, DeletesIn
<1>17. DeletesExact'
  <2>1. ASSUME NEW n \in DOMAIN log', IsDelete(log'[n]) PROVE n \in DOMAIN log /\ log'[n] = log[n]
    BY <1>4, <1>5, <1>7, <2>1
  <2>2. ASSUME NEW n \in DOMAIN log', IsDelete(log'[n])
        PROVE  /\ log'[n].slot \in DOMAIN pages'[log'[n].page].slots
               /\ LET ss == pages'[log'[n].page].slots[log'[n].slot] IN
                  /\ log'[n].row = ss.row /\ ss.row < n
                  /\ ss.xmin \in Committed(log') \cup {NULL_XID, log'[n].xid}
    BY <1>1, <1>6, <2>1, <2>2, ChangeKeeps
  <2>3. ASSUME NEW m \in DOMAIN log', NEW n \in DOMAIN log',
               IsDelete(log'[m]) /\ IsDelete(log'[n]) /\ SameRid(log'[m], log'[n]) /\ m < n
        PROVE  log'[m].xid \notin Live'
    BY <1>6, <2>1, <2>3 DEF Exact, RowsInv, DeletesExact
  <2> QED BY <2>2, <2>3 DEF DeletesExact
<1>18. PagesExact'
  <2>1. PagesExact
    BY DEF Exact
  <2>2. \A o : Opened(o)' <=> Opened(o) \/ o = new
    <3>1. ASSUME NEW o, Opened(o)' PROVE Opened(o) \/ o = new
      BY <1>4, <1>5, <1>7, <3>1 DEF Opened
    <3>2. ASSUME NEW o, Opened(o) PROVE Opened(o)'
      BY <1>4, <3>2 DEF Opened, N
    <3>3. Opened(new)'
      BY <1>4, <1>5, <1>8, <1>12 DEF Opened
    <3> QED BY <3>1, <3>2, <3>3
  <2>3. /\ \A n \in DOMAIN log' : log'[n].page \in PageId =>
             n <= flushed_lsn_' \/ n <= pages'[log'[n].page].lsn
        /\ \A o \in PageId : pages'[o].lsn <= Len(log')
    BY <1>1, ChangeLsns
  <2>4. (new = 0 /\ last = NULL_PAGE_ID) \/ (new \in 1 .. MaxPage /\ last = new - 1 /\ last \in PageId /\ pages[last].exists)
    <3>1. last \in Chain(pages) => pages[last].exists /\ last \in PageId
      <4>1. ScanPagesExist
        BY ChainPagesExist DEF Exact
      <4>2. Chain(pages) \subseteq PageId
        BY ChainFacts DEF Typed
      <4> QED BY <4>1, <4>2 DEF ScanPagesExist
    <3>2. \/ new = 0 /\ last = NULL_PAGE_ID
          \/ new = last + 1 /\ last \in Chain(pages)
      BY DEF Opening
    <3> QED BY <1>1, <3>1, <3>2, HeapBounds DEF PageId, NULL_PAGE_ID
  <2>5. ASSUME NEW o \in PageId, ~pages'[o].exists PROVE pages'[o] = NoPage
    <3>1. o # new /\ ~pages[o].exists
      BY <1>3, <2>5
    <3>2. o # last
      BY <2>4, <3>1, HeapBounds DEF NULL_PAGE_ID, PageId
    <3> QED BY <1>3, <2>1, <3>1, <3>2 DEF PagesExact
  <2>6. ASSUME NEW o \in PageId PROVE pages'[o].exists <=> Opened(o)' \/ (o = 0 /\ initial' > 0)
    BY <1>3, <1>6, <2>1, <2>2 DEF PagesExact
  <2>7. ASSUME NEW o \in 1 .. MaxPage, pages'[o].exists PROVE pages'[o - 1].exists
    <3>1. o \in PageId /\ o - 1 \in PageId
      BY HeapBounds DEF PageId
    <3>2. CASE o = new
      BY <1>3, <2>4, <3>1, <3>2
    <3>3. CASE o # new
      BY <1>3, <2>1, <2>7, <3>1, <3>3 DEF PagesExact
    <3> QED BY <3>2, <3>3
  <2>8. initial' > 0 => ~Opened(0)'
    <3>1. initial > 0 => new # 0
      BY <1>1, <2>1, HeapBounds DEF PagesExact, PageId
    <3> QED BY <1>6, <2>1, <2>2, <3>1 DEF PagesExact
  <2> QED BY <2>3, <2>5, <2>6, <2>7, <2>8 DEF PagesExact
<1>19. LinksExact'
  BY OpeningLinks
<1>20. RecoverInv'
  <2>1. x \notin RolledBack(log)
    BY <1>6, LiveNotRolledBack DEF Exact, RecoverInv
  <2>2. \A o : OpenedByRolledBack(o)' => OpenedByRolledBack(o)
    BY <1>1, <1>6, <2>1 DEF OpenedByRolledBack
  <2> QED BY <1>1, <2>2, ChangeRecover
<1> QED BY <1>1, <1>14, <1>15, <1>16, <1>17, <1>18, <1>19, <1>20 DEF Exact, RowsInv

----------------------------------------------------------------------------
(* Rolling back.                                                           *)

\* Undoing x finds what it expects.
CleanUndo(pg, lg, x) ==
  \A n \in DOMAIN lg : lg[n].xid = x =>
    /\ IsNewPage(lg[n]) => lg[n].prev # NULL_PAGE_ID
    /\ IsNewPage(lg[n]) => \A s \in Range(pg[lg[n].page].slots) : s.xmin = x
    /\ IsDelete(lg[n]) => pg[lg[n].page].slots[lg[n].slot].xmax \in {x, NULL_XID}

LEMMA UndoGapFree ==
  ASSUME NEW pg, NEW lg, NEW x, UndoGaps(pg, lg, x) = {}
  PROVE  CleanUndo(pg, lg, x)
<1> SUFFICES ASSUME NEW n \in DOMAIN lg, lg[n].xid = x
             PROVE  /\ IsNewPage(lg[n]) => lg[n].prev # NULL_PAGE_ID
                    /\ IsNewPage(lg[n]) => \A s \in Range(pg[lg[n].page].slots) : s.xmin = x
                    /\ IsDelete(lg[n]) => pg[lg[n].page].slots[lg[n].slot].xmax \in {x, NULL_XID}
  BY DEF CleanUndo
<1> DEFINE recs == RecordsOf(lg, x)
           A == \E r \in recs : r.type = "NEW_PAGE" /\ r.prev = NULL_PAGE_ID
           B == \E r \in recs : r.type = "NEW_PAGE" /\ \E s \in Range(pg[r.page].slots) : s.xmin # x
           D == \E r \in recs : r.type = "DELETE" /\ pg[r.page].slots[r.slot].xmax \notin {x, NULL_XID}
           u == "first page"
           v == "unlinked"
           w == "undone again"
           G(g) == CASE g = u -> A [] g = v -> B [] g = w -> D
<1>1. lg[n] \in recs
  BY Zenon DEF RecordsOf
<1>2. UndoGaps(pg, lg, x) = {g \in {u, v, w} : G(g)}
  BY Zenon DEF UndoGaps
<1>3. u # v /\ v # w /\ u # w
  OBVIOUS
<1>4. u \notin {g \in {u, v, w} : G(g)} /\ v \notin {g \in {u, v, w} : G(g)} /\ w \notin {g \in {u, v, w} : G(g)}
  BY <1>2, Zenon
<1> HIDE DEF u, v, w, A, B, D
<1>5. ~A /\ ~B /\ ~D
  BY <1>3, <1>4
<1>6. ~A /\ lg[n].type = "NEW_PAGE" => lg[n].prev # NULL_PAGE_ID
  BY <1>1, Zenon DEF A
<1>7. ~B /\ lg[n].type = "NEW_PAGE" => \A s \in Range(pg[lg[n].page].slots) : s.xmin = x
  BY <1>1, Zenon DEF B
<1>8. ~D /\ lg[n].type = "DELETE" => pg[lg[n].page].slots[lg[n].slot].xmax \in {x, NULL_XID}
  BY <1>1, Zenon DEF D
<1> HIDE DEF recs
<1> QED BY <1>5, <1>6, <1>7, <1>8 DEF IsNewPage, IsDelete

\* The pages X are taken out of the links.
Bypassed(pg, q, X) == \A p \in PageId : q[p].next = IF p + 1 \in X THEN q[p + 1].next ELSE pg[p].next

\* No link leads out of a set of pages
\* it did not lead out of before.
LEMMA UnlinkStays ==
  ASSUME NEW pg, NEW q, NEW X, NEW C \in SUBSET PageId,
         Bypassed(pg, q, X),
         \A p \in C : pg[p].next \in C \cup {NULL_PAGE_ID},
         \A p \in C : p + 1 \in X => p + 1 \in C
  PROVE  \A p \in C : q[p].next \in C \cup {NULL_PAGE_ID}
<1> DEFINE S == {p \in C : q[p].next \notin C \cup {NULL_PAGE_ID}}
<1> SUFFICES ASSUME S # {} PROVE FALSE
  OBVIOUS
<1>1. PICK m \in S : \A o \in S : o <= m
  <2>1. MaxPage \in Nat /\ S \subseteq 0 .. MaxPage
    BY HeapBounds DEF PageId
  <2> HIDE DEF S
  <2> QED BY <2>1, GreatestExists
<1>2. m \in C /\ m \in PageId /\ q[m].next \notin C \cup {NULL_PAGE_ID} /\ m \in Nat
  BY HeapBounds DEF PageId
<1>3. m + 1 \in X /\ m + 1 \in C /\ q[m].next = q[m + 1].next
  BY <1>2 DEF Bypassed
<1>4. m + 1 \in S
  BY <1>2, <1>3
<1> QED BY <1>1, <1>2, <1>4

LEMMA UnlinkForward ==
  ASSUME NEW pg, NEW q, NEW X \in SUBSET PageId,
         Bypassed(pg, q, X),
         Forward(pg)
  PROVE  Forward(q)
<1> DEFINE S == {p \in PageId : q[p].next \notin p + 1 .. NULL_PAGE_ID}
<1> SUFFICES ASSUME S # {} PROVE FALSE
  BY DEF Forward
<1>1. PICK m \in S : \A o \in S : o <= m
  <2>1. MaxPage \in Nat /\ S \subseteq 0 .. MaxPage
    BY HeapBounds DEF PageId
  <2> HIDE DEF S
  <2> QED BY <2>1, GreatestExists
<1>2. m \in PageId /\ q[m].next \notin m + 1 .. NULL_PAGE_ID /\ m \in Nat
  BY HeapBounds DEF PageId
<1>3. m + 1 \in X /\ m + 1 \in PageId /\ q[m].next = q[m + 1].next
  BY <1>2 DEF Forward, Bypassed
<1>4. m + 1 \notin S
  BY <1>1, <1>2
<1>5. q[m + 1].next \in m + 2 .. NULL_PAGE_ID
  BY <1>2, <1>3, <1>4
<1>6. NULL_PAGE_ID \in Nat
  BY HeapBounds DEF NULL_PAGE_ID
<1> QED BY <1>2, <1>3, <1>5, <1>6

\* A page is opened once.
LEMMA OneOpener ==
  ASSUME NEW lg \in Seq(RecordType), LogShape(lg), NEW x, NEW y, NEW p,
         OpensIn(lg, DOMAIN lg, x, p), OpensIn(lg, DOMAIN lg, y, p)
  PROVE  x = y
<1>1. PICK m \in DOMAIN lg : IsNewPage(lg[m]) /\ lg[m].xid = x /\ lg[m].page = p
  BY DEF OpensIn
<1>2. PICK n \in DOMAIN lg : IsNewPage(lg[n]) /\ lg[n].xid = y /\ lg[n].page = p
  BY DEF OpensIn
<1>3. m \in Nat /\ n \in Nat
  OBVIOUS
<1>4. ~(m < n) /\ ~(n < m)
  BY <1>1, <1>2 DEF LogShape, InOrder
<1>5. m = n
  BY <1>3, <1>4
<1> QED BY <1>1, <1>2, <1>5

\* The inserting transaction of a row is the one whose record names its slot.
LEMMA OneInserter ==
  ASSUME Typed, RowsExact, InsertsPresent, NEW p \in PageId, NEW i \in DOMAIN pages[p].slots, NEW x
  PROVE  /\ InsertsIn(log, DOMAIN log, x, p, i) => pages[p].slots[i].xmin = x
         /\ pages[p].slots[i].xmin # NULL_XID => InsertsIn(log, DOMAIN log, pages[p].slots[i].xmin, p, i)
<1> DEFINE s == pages[p].slots[i]
<1>1. RowOf(p, i, s)
  BY DEF RowsExact
<1>2. ASSUME InsertsIn(log, DOMAIN log, x, p, i) PROVE s.row \in DOMAIN log /\ log[s.row].xid = x
  <2>1. PICK n \in DOMAIN log : IsInsert(log[n]) /\ log[n].xid = x /\ log[n].page = p /\ log[n].slot = i
    BY <1>2 DEF InsertsIn
  <2> QED BY <2>1 DEF InsertsPresent
<1> HIDE DEF s
<1>3. InsertsIn(log, DOMAIN log, x, p, i) => s.xmin = x
  <2>1. i \in 1 .. Capacity
    BY SlotFacts DEF Typed
  <2>2. -i \notin DOMAIN log
    <3>1. DOMAIN log = 1 .. Len(log) /\ Len(log) \in Nat /\ Capacity \in Nat
      BY HeapBounds DEF Typed
    <3> QED BY <2>1, <3>1
  <2> QED BY <1>1, <1>2, <2>2 DEF RowOf
<1>4. s.xmin # NULL_XID => InsertsIn(log, DOMAIN log, s.xmin, p, i)
  BY <1>1 DEF RowOf, InsertsIn
<1> QED BY <1>3, <1>4 DEF s

\* What rolling x back does.
Undone(x) ==
  /\ x \in active /\ x \in Xid /\ x \notin Ended /\ x \notin RolledBack(log) /\ x # NULL_XID
  /\ UndoneEffect(pages, log, DOMAIN log, x, pages')
  /\ LogShape(log') /\ log' \in Seq(RecordType) /\ Len(log') = Len(log) + 1
  /\ \A n \in DOMAIN log : log'[n] = log[n] /\ n \in DOMAIN log'
  /\ \A n \in DOMAIN log' \ DOMAIN log :
       /\ n = Len(log) + 1 /\ ~IsNewPage(log'[n]) /\ ~IsInsert(log'[n]) /\ ~IsDelete(log'[n])
       /\ log'[n].page \notin PageId
  /\ Committed(log') = Committed(log) /\ RolledBack(log') = RolledBack(log) \cup {x}
  /\ Live' = Live \ {x} /\ x \in Live
  /\ flushed_lsn_' = Len(log') /\ flushed_lsn_ <= flushed_lsn_'
  /\ att_' = att_ \ {x} /\ active' = active \ {x} /\ undone' = undone \cup PagesOf(log, x)
  /\ UNCHANGED <<disk, dpt_, checkpoint, next_xid_, control_xid, initial>>

LEMMA RollbackParts ==
  ASSUME Typed, Exact, NEW x \in Xid, Rollback(x), initial' = initial
  PROVE  Undone(x) /\ Typed'
<1>1. /\ x \in active /\ x \notin Ended
      /\ Extended(log, LogRecord("ROLLBACK", x), log') /\ LogShape(log')
      /\ log' \in Seq(RecordType) /\ Len(log') = Len(log) + 1 /\ Len(log') <= MaxLsn
      /\ DOMAIN log \subseteq DOMAIN log'
      /\ \A n \in DOMAIN log : log'[n] = log[n]
      /\ \A n \in DOMAIN log' \ DOMAIN log :
           /\ n = Len(log) + 1 /\ log'[n].type = "ROLLBACK" /\ log'[n].xid = x
           /\ ~IsNewPage(log'[n]) /\ ~IsInsert(log'[n]) /\ ~IsDelete(log'[n])
           /\ log'[n].page \notin PageId
      /\ flushed_lsn_' = Len(log')
      /\ att_' = att_ \ {x} /\ active' = active \ {x}
      /\ UNCHANGED <<disk, dpt_, checkpoint, next_xid_, control_xid>>
  BY EndFacts DEF Rollback
<1>2. /\ pages' = RolledBackPages(pages, log, x) /\ undone' = undone \cup PagesOf(log, x)
  BY DEF Rollback
<1>3. UndoneEffect(pages, log, DOMAIN log, x, pages')
  BY <1>2, RollbackEffect DEF Exact, Typed
<1>4. Committed(log') = Committed(log) /\ RolledBack(log') = RolledBack(log) \cup {x}
  <2>1. LogRecord("ROLLBACK", x).type = "ROLLBACK" /\ LogRecord("ROLLBACK", x).xid = x
    BY DEF LogRecord
  <2> QED BY <1>1, <2>1 DEF Extended
<1>5. x \in Live /\ x \notin Committed(log) /\ x \notin RolledBack(log) /\ x # NULL_XID
  BY <1>1, HeapBounds DEF Live, Ended, Xid, NULL_XID
<1>6. Live' = Live \ {x}
  BY <1>1, <1>4, <1>5 DEF Live
<1>7. Len(log) \in Nat /\ flushed_lsn_ \in 0 .. Len(log) /\ flushed_lsn_ <= flushed_lsn_' /\ flushed_lsn_' \in 0 .. Len(log')
  BY <1>1 DEF Typed
<1>8. Typed'
  <2>1. undone' \subseteq PageId
    BY <1>2 DEF Typed, PagesOf
  <2>2. checkpoint.pos \in Nat /\ checkpoint.pos <= flushed_lsn_'
    BY <1>7 DEF Typed
  <2>3. pages' \in PagesType
    BY <1>3 DEF UndoneEffect
  <2> QED BY <1>1, <1>7, <2>1, <2>2, <2>3 DEF Typed
<1> QED BY <1>1, <1>2, <1>3, <1>4, <1>5, <1>6, <1>7, <1>8 DEF Undone

LEMMA UndoneRecords ==
  ASSUME NEW x, Undone(x)
  PROVE  /\ \A y, p, i : Deletes(y, p, i)' <=> Deletes(y, p, i)
         /\ \A y, p : OpenedBy(y, p)' <=> OpenedBy(y, p)
         /\ \A p : Opened(p)' <=> Opened(p)
<1>1. \A n \in DOMAIN log : log'[n] = log[n] /\ n \in DOMAIN log'
  BY DEF Undone
<1>2. \A n \in DOMAIN log' \ DOMAIN log : ~IsNewPage(log'[n]) /\ ~IsDelete(log'[n])
  BY DEF Undone
<1>3. \A y, p, i : Deletes(y, p, i)' <=> Deletes(y, p, i)
  BY <1>1, <1>2 DEF Deletes, DeletesIn
<1>4. \A y, p : OpenedBy(y, p)' <=> OpenedBy(y, p)
  BY <1>1, <1>2 DEF OpenedBy, OpensIn
<1>5. \A p : Opened(p)' <=> Opened(p)
  BY <1>1, <1>2 DEF Opened
<1> QED BY <1>3, <1>4, <1>5

LEMMA UndoneRows ==
  ASSUME Typed, Exact, NEW x, Undone(x)
  PROVE  RowsInv'
<1>1. /\ RowsExact /\ InsertsPresent /\ InitialPresent /\ MarksExact /\ DeletesExact /\ LogShape(log)
  BY DEF Exact, RowsInv
<1>2. /\ Live' = Live \ {x} /\ x \in Live /\ Committed(log') = Committed(log) /\ initial' = initial
      /\ \A n \in DOMAIN log : log'[n] = log[n] /\ n \in DOMAIN log'
      /\ \A n \in DOMAIN log' \ DOMAIN log : ~IsInsert(log'[n]) /\ ~IsDelete(log'[n])
      /\ x # NULL_XID
  BY DEF Undone
<1>3. \A p \in PageId :
        /\ DOMAIN pages'[p].slots = DOMAIN pages[p].slots
        /\ \A i \in DOMAIN pages[p].slots :
             pages'[p].slots[i].row = pages[p].slots[i].row /\ pages'[p].slots[i].xmin = pages[p].slots[i].xmin
  BY DEF Undone, UndoneEffect, SameRows
<1>4. \A p \in PageId : \A i \in DOMAIN pages[p].slots :
        pages'[p].slots[i].xmax = IF InsertsIn(log, DOMAIN log, x, p, i) THEN x
                                  ELSE IF Deletes(x, p, i) THEN NULL_XID
                                  ELSE pages[p].slots[i].xmax
  BY DEF Undone, UndoneEffect, Deletes
<1>5. ASSUME NEW n \in DOMAIN log, IsInsert(log[n]) \/ IsDelete(log[n]) PROVE log[n].page \in PageId
  BY <1>1, <1>5 DEF LogShape, RecordShape
<1>6. RowsExact'
  <2> SUFFICES ASSUME NEW p \in PageId, NEW i \in DOMAIN pages'[p].slots
               PROVE  RowOf(p, i, pages[p].slots[i])'
    BY DEF RowsExact
  <2>1. PICK t : t = pages'[p].slots[i]
    OBVIOUS
  <2>2. PICK s : s = pages[p].slots[i]
    OBVIOUS
  <2>3. RowOf(p, i, s) /\ t.row = s.row /\ t.xmin = s.xmin
    BY <1>1, <1>3, <2>1, <2>2 DEF RowsExact
  <2>4. RowOf(p, i, t)'
    BY <1>2, <2>3 DEF RowOf
  <2> QED BY <2>1, <2>4 DEF RowOf
<1>7. InsertsPresent'
  <2> SUFFICES ASSUME NEW n \in DOMAIN log', IsInsert(log'[n])
               PROVE  /\ log'[n].slot \in DOMAIN pages'[log'[n].page].slots
                      /\ pages'[log'[n].page].slots[log'[n].slot].row = n
    BY DEF InsertsPresent
  <2>1. n \in DOMAIN log /\ log'[n] = log[n]
    BY <1>2
  <2> QED BY <1>1, <1>3, <1>5, <2>1 DEF InsertsPresent
<1>8. InitialPresent'
  <2>1. 0 \in PageId
    BY HeapBounds DEF PageId
  <2> QED BY <1>1, <1>2, <1>3, <2>1 DEF InitialPresent
<1>9. MarksExact'
  <2> SUFFICES ASSUME NEW p \in PageId, NEW i \in DOMAIN pages'[p].slots
               PROVE  MarkOf(p, i, pages[p].slots[i])'
    BY DEF MarksExact
  <2>1. PICK t : t = pages'[p].slots[i]
    OBVIOUS
  <2>2. PICK s : s = pages[p].slots[i]
    OBVIOUS
  <2>3. i \in DOMAIN pages[p].slots /\ MarkOf(p, i, s) /\ t.xmin = s.xmin
    BY <1>1, <1>3, <2>1, <2>2 DEF MarksExact
  <2>4. t.xmax = IF InsertsIn(log, DOMAIN log, x, p, i) THEN x
                 ELSE IF Deletes(x, p, i) THEN NULL_XID ELSE s.xmax
    BY <1>4, <2>1, <2>2, <2>3
  <2>5. InsertsIn(log, DOMAIN log, x, p, i) <=> s.xmin = x
    BY <1>1, <1>2, <2>2, <2>3, OneInserter
  <2>6. Deletes(x, p, i) => s.xmin \in Live \cup {NULL_XID}
    <3> SUFFICES ASSUME Deletes(x, p, i) PROVE s.xmin \in Live \cup {NULL_XID}
      OBVIOUS
    <3>1. PICK n \in DOMAIN log : IsDelete(log[n]) /\ log[n].xid = x /\ log[n].page = p /\ log[n].slot = i
      BY DEF Deletes, DeletesIn
    <3>2. s.xmin \in Committed(log) \cup {NULL_XID, x}
      BY <1>1, <2>2, <3>1 DEF DeletesExact
    <3> QED BY <1>2, <3>2 DEF Live
  <2>7. \A y : Deletes(y, p, i)' <=> Deletes(y, p, i)
    BY UndoneRecords
  <2>8. IF t.xmin \in Live' \cup {NULL_XID}
        THEN /\ t.xmax = NULL_XID \/ (t.xmax \in Live' /\ Deletes(t.xmax, p, i)')
             /\ \A y \in Live' : Deletes(y, p, i)' => t.xmax = y
        ELSE t.xmax = t.xmin
    <3>1. CASE s.xmin = x
      BY <1>2, <2>3, <2>4, <2>5, <3>1
    <3>2. CASE s.xmin # x /\ s.xmin \in Live \cup {NULL_XID}
      <4>1. /\ s.xmax = NULL_XID \/ (s.xmax \in Live /\ Deletes(s.xmax, p, i))
            /\ \A y \in Live : Deletes(y, p, i) => s.xmax = y
        BY <2>3, <3>2 DEF MarkOf
      <4>2. CASE Deletes(x, p, i)
        <5>1. t.xmax = NULL_XID /\ \A y \in Live' : ~Deletes(y, p, i)
          BY <1>2, <2>4, <2>5, <3>2, <4>1, <4>2
        <5> QED BY <1>2, <2>3, <2>7, <3>2, <5>1
      <4>3. CASE ~Deletes(x, p, i)
        <5>1. t.xmax = s.xmax
          BY <2>4, <2>5, <3>2, <4>3
        <5> QED BY <1>2, <2>3, <2>7, <3>2, <4>1, <4>3, <5>1
      <4> QED BY <4>2, <4>3
    <3>3. CASE s.xmin \notin Live \cup {NULL_XID}
      BY <1>2, <2>3, <2>4, <2>5, <2>6, <3>3 DEF MarkOf
    <3> QED BY <3>1, <3>2, <3>3
  <2> QED BY <2>1, <2>8 DEF MarkOf, Deletes, DeletesIn
<1>10. DeletesExact'
  <2>1. ASSUME NEW n \in DOMAIN log', IsDelete(log'[n]) PROVE n \in DOMAIN log /\ log'[n] = log[n]
    BY <1>2, <2>1
  <2>2. ASSUME NEW n \in DOMAIN log', IsDelete(log'[n])
        PROVE  /\ log'[n].slot \in DOMAIN pages'[log'[n].page].slots
               /\ LET s == pages'[log'[n].page].slots[log'[n].slot] IN
                  /\ log'[n].row = s.row /\ s.row < n
                  /\ s.xmin \in Committed(log') \cup {NULL_XID, log'[n].xid}
    <3>1. n \in DOMAIN log /\ log'[n] = log[n] /\ log[n].page \in PageId
      BY <1>5, <2>1, <2>2
    <3> QED BY <1>1, <1>2, <1>3, <2>2, <3>1 DEF DeletesExact
  <2>3. ASSUME NEW m \in DOMAIN log', NEW n \in DOMAIN log',
               IsDelete(log'[m]) /\ IsDelete(log'[n]) /\ SameRid(log'[m], log'[n]) /\ m < n
        PROVE  log'[m].xid \notin Live'
    BY <1>1, <1>2, <2>1, <2>3 DEF DeletesExact
  <2> QED BY <2>2, <2>3 DEF DeletesExact
<1> QED BY <1>6, <1>7, <1>8, <1>9, <1>10 DEF RowsInv

\* Two pages with the same fields are the same.
LEMMA SamePage ==
  ASSUME NEW a \in PageType, NEW b \in PageType, a.lsn = b.lsn, a.next = b.next, a.slots = b.slots,
         a.exists = b.exists
  PROVE  a = b
  BY DEF PageType

LEMMA UndonePages ==
  ASSUME Typed, Exact, NEW x, Undone(x)
  PROVE  PagesExact'
<1>1. PagesExact
  BY DEF Exact
<1>2. /\ \A p : Opened(p)' <=> Opened(p)
      /\ initial' = initial /\ UndoneEffect(pages, log, DOMAIN log, x, pages')
      /\ flushed_lsn_' = Len(log') /\ Len(log') = Len(log) + 1
      /\ log' \in Seq(RecordType) /\ Len(log) \in Nat
  BY UndoneRecords DEF Undone, Typed
<1>3. /\ pages' \in PagesType
      /\ \A p \in PageId : /\ pages'[p].lsn = pages[p].lsn /\ pages'[p].exists = pages[p].exists
                           /\ DOMAIN pages'[p].slots = DOMAIN pages[p].slots
                           /\ pages'[p].next = IF OpenedBy(x, p + 1) THEN pages'[p + 1].next ELSE pages[p].next
  BY <1>2 DEF UndoneEffect, SameRows, OpenedBy
<1>4. ASSUME NEW p \in PageId, ~pages'[p].exists PROVE pages'[p] = NoPage
  <2>1. ~pages[p].exists /\ pages[p] = NoPage
    BY <1>1, <1>3, <1>4 DEF PagesExact
  <2>2. ~OpenedBy(x, p + 1)
    <3> SUFFICES ASSUME OpenedBy(x, p + 1) PROVE FALSE
      OBVIOUS
    <3>1. PICK n \in DOMAIN log : IsNewPage(log[n]) /\ log[n].page = p + 1
      BY DEF OpenedBy, OpensIn
    <3>2. RecordShape(log[n])
      BY DEF Exact, LogShape
    <3>3. p + 1 \in 1 .. MaxPage /\ p + 1 \in PageId /\ p + 1 - 1 = p /\ p \in Nat /\ MaxPage \in Nat
      BY <3>1, <3>2, HeapBounds DEF RecordShape, PageId
    <3>4. pages[p + 1].exists
      BY <1>1, <3>1, <3>3 DEF PagesExact, Opened
    <3>5. \A k \in 1 .. MaxPage : pages[k].exists => pages[k - 1].exists
      BY <1>1 DEF PagesExact
    <3>6. pages[p].exists
      BY <3>3, <3>4, <3>5
    <3> QED BY <2>1, <3>3, <3>6
  <2>3. pages'[p].next = pages[p].next
    BY <1>3, <2>2
  <2>4. pages'[p].slots = pages[p].slots
    <3>1. DOMAIN pages'[p].slots = {} /\ DOMAIN pages[p].slots = {}
      BY <1>3, <2>1 DEF NoPage
    <3>2. pages'[p].slots \in Seq(SlotType) /\ pages[p].slots \in Seq(SlotType)
      BY <1>3, PageFacts DEF Typed
    <3>3. ASSUME NEW s \in Seq(SlotType), DOMAIN s = {} PROVE s = <<>>
      <4>1. Len(s) \in Nat /\ DOMAIN s = 1 .. Len(s)
        OBVIOUS
      <4>2. Len(s) = 0
        BY <3>3, <4>1
      <4> QED BY <4>2
    <3> QED BY <3>1, <3>2, <3>3
  <2>5. pages'[p] \in PageType /\ pages[p] \in PageType
    BY <1>3, PageFacts DEF Typed
  <2>6. pages'[p] = pages[p]
    BY <1>3, <2>3, <2>4, <2>5, SamePage
  <2> QED BY <2>1, <2>6
<1>5. \A p \in PageId : pages'[p].exists <=> Opened(p)' \/ (p = 0 /\ initial' > 0)
  BY <1>1, <1>2, <1>3 DEF PagesExact
<1>6. ASSUME NEW p \in 1 .. MaxPage, pages'[p].exists PROVE pages'[p - 1].exists
  <2>1. p \in PageId /\ p - 1 \in PageId
    BY HeapBounds DEF PageId
  <2> QED BY <1>1, <1>3, <1>6, <2>1 DEF PagesExact
<1>7. initial' > 0 => ~Opened(0)'
  BY <1>1, <1>2 DEF PagesExact
<1>8. \A n \in DOMAIN log' : n <= flushed_lsn_'
  BY <1>2
<1>9. ASSUME NEW p \in PageId PROVE pages'[p].lsn <= Len(log')
  <2>1. pages[p].lsn <= Len(log) /\ pages[p].lsn \in 0 .. MaxLsn /\ MaxLsn \in Nat
    BY <1>1, PageFacts, HeapBounds DEF PagesExact, Typed
  <2> QED BY <1>2, <1>3, <2>1
<1> QED BY <1>4, <1>5, <1>6, <1>7, <1>8, <1>9 DEF PagesExact

LEMMA UndoneLinks ==
  ASSUME Typed, Exact, NEW x, Undone(x), CleanUndo(pages, log, x)
  PROVE  LinksExact'
<1> DEFINE X == {p \in PageId : OpenedBy(x, p)}
<1>1. /\ LinksExact /\ PagesExact /\ LogShape(log) /\ pages \in PagesType /\ log \in Seq(RecordType)
      /\ MaxPage \in Nat /\ PageId = 0 .. MaxPage /\ NULL_PAGE_ID = MaxPage + 1 /\ 0 \in PageId
  BY HeapBounds DEF Exact, Typed, PageId, NULL_PAGE_ID
<1>2. /\ x \in active /\ x \in Xid /\ x \in Live /\ Live' = Live \ {x} /\ active' = active \ {x} /\ x # NULL_XID
      /\ RolledBack(log') = RolledBack(log) \cup {x} /\ x \notin RolledBack(log)
      /\ \A y, p : OpenedBy(y, p)' <=> OpenedBy(y, p)
      /\ UndoneEffect(pages, log, DOMAIN log, x, pages')
  BY UndoneRecords DEF Undone
<1>3. ASSUME NEW y, NEW p, OpenedBy(y, p) PROVE p \in PageId /\ pages[p].exists
  <2>1. PICK n \in DOMAIN log : IsNewPage(log[n]) /\ log[n].page = p
    BY <1>3 DEF OpenedBy, OpensIn
  <2>2. p \in PageId
    BY <1>1, <2>1 DEF LogShape, RecordShape
  <2> QED BY <1>1, <2>1, <2>2 DEF PagesExact, Opened
<1>4. /\ pages' \in PagesType
      /\ \A p \in PageId : /\ pages'[p].exists = pages[p].exists
                           /\ DOMAIN pages'[p].slots = DOMAIN pages[p].slots
                           /\ \A i \in DOMAIN pages[p].slots : pages'[p].slots[i].xmin = pages[p].slots[i].xmin
                           /\ pages'[p].next = IF p + 1 \in X THEN pages'[p + 1].next ELSE pages[p].next
  <2>1. \A p : OpensIn(log, DOMAIN log, x, p) <=> p \in X
    BY <1>3 DEF OpenedBy
  <2> HIDE DEF X
  <2> QED BY <1>2, <2>1 DEF UndoneEffect, SameRows
<1>5. X \in SUBSET PageId /\ Bypassed(pages, pages', X)
  BY <1>4 DEF Bypassed
<1>6. ASSUME NEW y, NEW p, OpenedBy(y, p), p \in X PROVE y = x
  BY <1>1, <1>6, OneOpener DEF OpenedBy
<1>7. ASSUME NEW p \in PageId, p + 1 \in X PROVE pages[p].next = p + 1 /\ p + 1 \in 1 .. MaxPage
  <2>1. p + 1 \in 1 .. MaxPage /\ p + 1 - 1 = p /\ OpenedBy(x, p + 1)
    BY <1>1, <1>7
  <2> QED BY <1>1, <1>2, <2>1 DEF LinksExact
<1>8. ASSUME NEW p \in X, NEW i \in DOMAIN pages[p].slots PROVE pages[p].slots[i].xmin = x
  <2>1. PICK n \in DOMAIN log : IsNewPage(log[n]) /\ log[n].xid = x /\ log[n].page = p
    BY <1>8 DEF OpenedBy, OpensIn
  <2>2. \A s \in Range(pages[p].slots) : s.xmin = x
    BY <2>1 DEF CleanUndo
  <2> QED BY <2>2 DEF Range
<1> HIDE DEF X
<1>9. Forward(pages')
  BY <1>1, <1>5, UnlinkForward DEF LinksExact
<1>10. ASSUME NEW p \in PageId, pages'[p].next # NULL_PAGE_ID PROVE pages'[pages'[p].next].exists
  <2> DEFINE C == {o \in PageId : pages[o].exists}
  <2>1. ASSUME NEW o \in C PROVE pages[o].next \in C \cup {NULL_PAGE_ID}
    BY <1>1, NextType DEF LinksExact
  <2>2. \A o \in C : o + 1 \in X => o + 1 \in C
    BY <1>3 DEF X
  <2>3. C \in SUBSET PageId
    OBVIOUS
  <2>4. p \in C
    <3>1. ~pages'[p].exists => pages'[p] = NoPage
      BY UndonePages DEF PagesExact
    <3> QED BY <1>4, <1>10, <3>1 DEF NoPage
  <2> HIDE DEF C
  <2>5. pages'[p].next \in C \cup {NULL_PAGE_ID}
    BY <1>5, <2>1, <2>2, <2>3, <2>4, UnlinkStays
  <2>6. pages'[p].next \in PageId /\ pages[pages'[p].next].exists
    BY <1>10, <2>5 DEF C
  <2> QED BY <1>4, <2>6
<1>11. ASSUME NEW p \in 1 .. MaxPage, NEW y \in Live', OpenedBy(y, p)
       PROVE  pages'[p - 1].next = p
  <2>1. p \notin X /\ p - 1 \in PageId /\ p - 1 + 1 = p
    BY <1>1, <1>2, <1>6, <1>11
  <2>2. pages[p - 1].next = p
    BY <1>1, <1>2, <1>11 DEF LinksExact
  <2> QED BY <1>4, <2>1, <2>2
<1>12. Chain(pages) \ X \subseteq Chain(pages')
  <2>1. \A p \in PageId : p + 1 \in X => pages[p].next = p + 1 /\ pages'[p].next = pages'[p + 1].next
    BY <1>4, <1>7
  <2>2. \A p \in PageId : p + 1 \notin X => pages'[p].next = pages[p].next
    BY <1>4
  <2>3. pages'[0].exists = pages[0].exists
    BY <1>1, <1>4
  <2> QED BY <1>1, <1>4, <1>5, <2>1, <2>2, <2>3, UnlinkKeepsOthers
<1>13. ASSUME NEW p \in PageId \ Chain(pages'), NEW i \in DOMAIN pages'[p].slots
       PROVE  pages'[p].slots[i].xmin \notin Live' \cup {NULL_XID}
  <2>1. i \in DOMAIN pages[p].slots /\ pages'[p].slots[i].xmin = pages[p].slots[i].xmin
    BY <1>4
  <2>2. CASE p \in X
    BY <1>2, <1>8, <2>1, <2>2
  <2>3. CASE p \notin Chain(pages)
    <3>1. pages[p].slots[i].xmin \notin Live \cup {NULL_XID}
      BY <1>1, <2>1, <2>3 DEF LinksExact
    <3> QED BY <1>2, <2>1, <3>1
  <2> QED BY <1>12, <2>2, <2>3
\* The links redo makes.
<1> DEFINE q == Relinked
           w == Relinked'
<1>14. /\ q \in PagesType /\ w \in PagesType
       /\ \A p \in PageId :
            /\ q[p].exists = pages[p].exists
            /\ q[p].next = IF \E y \in Xid \ RolledBack(log) : OpenedBy(y, p + 1) THEN p + 1 ELSE pages[p].next
            /\ w[p].exists = pages[p].exists
            /\ w[p].next = IF \E y \in Xid \ (RolledBack(log) \cup {x}) : OpenedBy(y, p + 1) THEN p + 1 ELSE pages'[p].next
  <2>1. /\ q \in PagesType
        /\ \A p \in PageId :
            /\ q[p].exists = pages[p].exists
            /\ q[p].next = IF \E y \in Xid \ RolledBack(log) : OpenedBy(y, p + 1) THEN p + 1 ELSE pages[p].next
    BY <1>1, RelinkedFacts DEF Relinked, OpenedBy
  <2>2. /\ w \in PagesType
        /\ \A p \in PageId :
            /\ w[p].exists = pages'[p].exists
            /\ w[p].next = IF \E y \in Xid \ RolledBack(log') : OpenedBy(y, p + 1)' THEN p + 1 ELSE pages'[p].next
    BY <1>4, RelinkedFacts DEF Relinked, OpenedBy
  <2> HIDE DEF q, w
  <2> QED BY <1>2, <1>4, <2>1, <2>2
<1>15. Chain(q) = Chain(Relinked) /\ Chain(w) = Chain(Relinked')
  OBVIOUS
<1> HIDE DEF q, w
<1>16. ASSUME NEW p \in PageId
       PROVE  /\ p + 1 \in X => q[p].next = p + 1 /\ w[p].next = w[p + 1].next
              /\ p + 1 \notin X => w[p].next = q[p].next
  <2>1. ASSUME p + 1 \in X PROVE q[p].next = p + 1 /\ w[p].next = w[p + 1].next
    <3>1. OpenedBy(x, p + 1) /\ p + 1 \in PageId /\ p + 1 \in 1 .. MaxPage
      BY <1>7, <2>1 DEF X
    <3>2. q[p].next = p + 1
      BY <1>2, <1>14, <3>1
    <3>3. w[p].next = pages'[p + 1].next
      BY <1>4, <1>6, <1>14, <2>1
    <3>4. w[p + 1].next = pages'[p + 1].next
      <4>1. CASE \E y \in Xid \ (RolledBack(log) \cup {x}) : OpenedBy(y, p + 1 + 1)
        <5>1. PICK y \in Xid \ (RolledBack(log) \cup {x}) : OpenedBy(y, p + 1 + 1)
          BY <4>1
        <5>2. p + 1 + 1 \in PageId
          BY <1>3, <5>1
        <5>3. p + 1 \in 1 .. MaxPage - 1 /\ p + 1 + 1 \in 1 .. MaxPage /\ (p + 1 + 1) - 1 = p + 1
          BY <1>1, <5>2
        <5>4. y \in Live'
          BY <1>1, <1>2, <3>1, <5>1, <5>3 DEF LinksExact
        <5>5. pages'[(p + 1 + 1) - 1].next = p + 1 + 1
          BY <1>11, <5>1, <5>3, <5>4
        <5>6. w[p + 1].next = p + 1 + 1
          BY <1>14, <3>1, <4>1
        <5> QED BY <5>3, <5>5, <5>6
      <4>2. CASE ~\E y \in Xid \ (RolledBack(log) \cup {x}) : OpenedBy(y, p + 1 + 1)
        BY <1>14, <3>1, <4>2
      <4> QED BY <4>1, <4>2
    <3> QED BY <3>2, <3>3, <3>4
  <2>2. ASSUME p + 1 \notin X PROVE w[p].next = q[p].next
    <3>1. ~OpenedBy(x, p + 1)
      BY <1>3, <2>2 DEF X
    <3>2. pages'[p].next = pages[p].next
      BY <1>4, <2>2
    <3>3. (\E y \in Xid \ (RolledBack(log) \cup {x}) : OpenedBy(y, p + 1)) <=>
          (\E y \in Xid \ RolledBack(log) : OpenedBy(y, p + 1))
      BY <3>1
    <3> QED BY <1>14, <3>2, <3>3
  <2> QED BY <2>1, <2>2
<1>16a. Bypassed(q, w, X)
  BY <1>16 DEF Bypassed
<1>17. Chain(q) \ X \subseteq Chain(w)
  <2>1. w[0].exists = q[0].exists
    BY <1>1, <1>14
  <2> QED BY <1>5, <1>14, <1>16, <2>1, UnlinkKeepsOthers
<1>18. ASSUME NEW p \in PageId \ Chain(w), NEW i \in DOMAIN pages'[p].slots
       PROVE  pages'[p].slots[i].xmin \in RolledBack(log')
  <2>1. i \in DOMAIN pages[p].slots /\ pages'[p].slots[i].xmin = pages[p].slots[i].xmin
    BY <1>4
  <2>2. CASE p \in X
    BY <1>2, <1>8, <2>1, <2>2
  <2>3. CASE p \notin Chain(q)
    <3>1. pages[p].slots[i].xmin \in RolledBack(log)
      BY <1>1, <1>15, <2>1, <2>3 DEF LinksExact
    <3> QED BY <1>2, <2>1, <3>1
  <2> QED BY <1>17, <2>2, <2>3
<1>19. ASSUME NEW p \in 1 .. MaxPage - 1, NEW z \in active', NEW y \in Xid, OpenedBy(z, p), OpenedBy(y, p + 1)
       PROVE  y \in Live' \cup RolledBack(log')
  BY <1>1, <1>2, <1>19 DEF LinksExact
<1>20. Chain(q) \subseteq PageId /\ \A p \in Chain(q) : p + 1 \in X => p + 1 \in Chain(q)
  <2>1. Chain(q) \subseteq PageId
    BY <1>14, ChainFacts
  <2>2. ASSUME NEW p \in Chain(q), p + 1 \in X PROVE p + 1 \in Chain(q)
    <3>1. q[p].next = p + 1 /\ q[p].next \in Chain(q) \cup {NULL_PAGE_ID} /\ p + 1 # NULL_PAGE_ID
      BY <1>1, <1>5, <1>14, <1>16, <2>1, <2>2, ChainFacts
    <3> QED BY <3>1
  <2> QED BY <2>1, <2>2
<1>21. Chain(w) \subseteq Chain(q)
  <2>1. CASE pages[0].exists
    <3>1. \A p \in Chain(q) : q[p].next \in Chain(q) \cup {NULL_PAGE_ID}
      BY <1>14, ChainFacts
    <3>2. \A p \in Chain(q) : w[p].next \in Chain(q) \cup {NULL_PAGE_ID}
      BY <1>16a, <1>20, <3>1, UnlinkStays
    <3>3. 0 \in Chain(q)
      BY <1>1, <1>14, <2>1, ChainFacts
    <3>4. Closed(w, PageId, Chain(q))
      BY <3>2, <3>3 DEF Closed
    <3> QED BY <1>20, <3>4, ReachedLeast DEF Chain
  <2>2. CASE ~pages[0].exists
    BY <1>1, <1>14, <2>2, ChainFacts
  <2> QED BY <2>1, <2>2
<1>22. ASSUME NEW p \in Chain(w) PROVE pages'[p].next \in Chain(w) \cup {NULL_PAGE_ID}
  <2>1. p \in Chain(q) /\ p \in PageId
    BY <1>20, <1>21
  <2>2. pages'[p].next \in Chain(q) \cup {NULL_PAGE_ID}
    <3>1. \A o \in Chain(q) : pages[o].next \in Chain(q) \cup {NULL_PAGE_ID}
      BY <1>1, <1>15 DEF LinksExact
    <3>2. \A o \in Chain(q) : pages'[o].next \in Chain(q) \cup {NULL_PAGE_ID}
      BY <1>5, <1>20, <3>1, UnlinkStays
    <3> QED BY <2>1, <3>2
  <2>3. CASE w[p].next = pages'[p].next
    <3>1. w[p].next \in Chain(w) \cup {NULL_PAGE_ID}
      BY <1>14, ChainFacts
    <3> QED BY <2>3, <3>1
  <2>4. CASE w[p].next # pages'[p].next
    <3>1. PICK y \in Xid \ (RolledBack(log) \cup {x}) : OpenedBy(y, p + 1)
      BY <1>14, <2>1, <2>4
    <3>2. p + 1 \in PageId /\ p + 1 \in 1 .. MaxPage /\ p + 1 - 1 = p /\ w[p].next = p + 1 /\ p \in Nat /\ MaxPage \in Nat
      BY <1>1, <1>3, <1>14, <2>1, <3>1
    <3>3. y \notin Live
      <4> SUFFICES ASSUME y \in Live PROVE FALSE
        OBVIOUS
      <4>1. PICK k \in 1 .. MaxPage : k = p + 1
        BY <3>2
      <4>2. y \in Live' /\ OpenedBy(y, k)
        BY <1>2, <3>1, <4>1
      <4>3. pages'[k - 1].next = k
        BY <1>11, <4>2
      <4>4. k - 1 = p
        BY <3>2, <4>1
      <4> QED BY <2>4, <3>2, <4>1, <4>3, <4>4
    <3>4. p + 1 \notin X
      BY <1>6, <3>1
    <3>5. pages'[p].next = pages[p].next
      BY <1>4, <2>1, <3>4
    <3>6. ~OpenedBy(x, pages[p].next)
      <4>1. PICK k \in 1 .. MaxPage : k = p + 1 /\ k - 1 = p
        BY <3>2
      <4>2. \A o \in 1 .. MaxPage : \A v \in Xid \ (Live \cup RolledBack(log)), z \in active :
               OpenedBy(v, o) => ~OpenedBy(z, pages[o - 1].next)
        BY <1>1 DEF LinksExact
      <4>3. ~OpenedBy(x, pages[k - 1].next)
        BY <1>2, <3>1, <3>3, <4>1, <4>2
      <4> QED BY <4>1, <4>3
    <3>7. pages'[p].next \notin X
      BY <3>2, <3>5, <3>6 DEF X
    <3> QED BY <1>17, <2>2, <3>7
  <2> QED BY <2>3, <2>4
<1>23. ASSUME NEW p \in 1 .. MaxPage, NEW y \in Xid \ (Live' \cup RolledBack(log')), NEW z \in active', OpenedBy(y, p)
       PROVE  ~OpenedBy(z, pages[p - 1].next)'
  <2>1. p - 1 \in PageId /\ p - 1 + 1 = p /\ p \notin X /\ y \notin Live /\ y \notin RolledBack(log) /\ z \in active
    BY <1>1, <1>2, <1>6, <1>23
  <2>2. pages'[p - 1].next = pages[p - 1].next
    BY <1>4, <2>1
  <2>3. ~OpenedBy(z, pages[p - 1].next)
    BY <1>1, <1>23, <2>1 DEF LinksExact
  <2>4. PICK t : t = pages'[p - 1].next
    OBVIOUS
  <2>5. ~OpenedBy(z, t)'
    BY <1>2, <2>2, <2>3, <2>4
  <2> QED BY <2>4, <2>5 DEF OpenedBy, OpensIn
<1> QED BY <1>2, <1>9, <1>10, <1>11, <1>13, <1>15, <1>18, <1>19, <1>22, <1>23 DEF LinksExact

LEMMA UndonePagesOf ==
  ASSUME NEW lg, NEW x, NEW n \in DOMAIN lg, lg[n].xid = x
  PROVE  /\ lg[n].page \in PageId => lg[n].page \in PagesOf(lg, x)
         /\ lg[n].prev \in PageId => lg[n].prev \in PagesOf(lg, x)
  BY DEF PagesOf, RecordsOf

LEMMA UndoneRecover ==
  ASSUME Typed, Exact, NEW x, Undone(x), XactsExact', Ended' = Ended \cup {x}
  PROVE  RecoverInv'
<1>1. /\ DiskRows /\ DiskMarks /\ Coverage /\ RowsExact /\ LogShape(log)
      /\ Settled(att_, dpt_, Len(log)) /\ Settled(checkpoint.att, checkpoint.dpt, checkpoint.pos)
  BY DEF Exact, RowsInv, RecoverInv
<1>2. /\ x \in active /\ Live' = Live \ {x} /\ RolledBack(log') = RolledBack(log) \cup {x}
      /\ \A n \in DOMAIN log : log'[n] = log[n] /\ n \in DOMAIN log'
      /\ \A n \in DOMAIN log' \ DOMAIN log : log'[n].page \notin PageId
      /\ att_' = att_ \ {x} /\ undone' = undone \cup PagesOf(log, x) /\ x # NULL_XID
      /\ UNCHANGED <<disk, dpt_, checkpoint, initial>>
      /\ UndoneEffect(pages, log, DOMAIN log, x, pages')
  BY DEF Undone
<1>3. /\ Len(log) \in Nat /\ DOMAIN log = 1 .. Len(log) /\ Len(log') = Len(log) + 1 /\ DOMAIN log' = 1 .. Len(log')
      /\ flushed_lsn_ \in 0 .. Len(log) /\ flushed_lsn_' = Len(log') /\ checkpoint.pos \in 0 .. flushed_lsn_
      /\ log \in Seq(RecordType) /\ dpt_ \in [PageId -> 0 .. MaxLsn]
  BY DEF Typed, Undone
<1>4. ASSUME NEW n \in 1 .. flushed_lsn_ PROVE n \in 1 .. flushed_lsn_' /\ n \in DOMAIN log /\ log'[n] = log[n]
  BY <1>2, <1>3
<1>5. /\ \A p \in PageId :
           /\ DOMAIN pages'[p].slots = DOMAIN pages[p].slots
           /\ \A i \in DOMAIN pages[p].slots :
                pages'[p].slots[i].row = pages[p].slots[i].row /\ pages'[p].slots[i].xmin = pages[p].slots[i].xmin
           /\ pages'[p].next = IF OpenedBy(x, p + 1) THEN pages'[p + 1].next ELSE pages[p].next
  BY <1>2 DEF UndoneEffect, SameRows, OpenedBy
<1>6. DiskRows'
  <2>1. ASSUME NEW p \in PageId, NEW i \in DOMAIN disk[p].slots
        PROVE  /\ i \in DOMAIN pages'[p].slots
               /\ disk[p].slots[i].row = pages'[p].slots[i].row
               /\ disk[p].slots[i].xmin = pages'[p].slots[i].xmin
               /\ disk[p].slots[i].row <= flushed_lsn_'
    <3>1. /\ i \in DOMAIN pages[p].slots
          /\ disk[p].slots[i].row = pages[p].slots[i].row
          /\ disk[p].slots[i].xmin = pages[p].slots[i].xmin
          /\ disk[p].slots[i].row <= flushed_lsn_
      BY <1>1 DEF DiskRows
    <3>2. disk[p].slots[i].row \in Int
      BY SlotFacts DEF Typed
    <3> QED BY <1>3, <1>5, <3>1, <3>2
  <2>2. ASSUME NEW p \in PageId, disk[p].exists
        PROVE  \/ p = 0 /\ initial > 0
               \/ \E n \in 1 .. flushed_lsn_' : IsNewPage(log'[n]) /\ log'[n].page = p
    BY <1>1, <1>4, <2>2 DEF DiskRows
  <2>3. ASSUME NEW p \in PageId PROVE disk[p].lsn <= flushed_lsn_'
    <3>1. disk[p].lsn <= flushed_lsn_ /\ disk[p].lsn \in 0 .. MaxLsn /\ MaxLsn \in Nat
      BY <1>1, PageFacts, HeapBounds DEF DiskRows, Typed
    <3> QED BY <1>3, <3>1
  <2>4. ASSUME NEW p \in 1 .. MaxPage, OpenedByRolledBack(p)', p - 1 \notin undone'
        PROVE  disk[p - 1].next = pages'[p - 1].next
    <3>1. p - 1 \in PageId /\ p - 1 + 1 = p
      BY HeapBounds DEF PageId
    <3>2. PICK y \in RolledBack(log) \cup {x} : OpenedBy(y, p)
      BY <1>2, <2>4, UndoneRecords DEF OpenedByRolledBack
    <3>3. ~OpenedBy(x, p)
      <4> SUFFICES ASSUME OpenedBy(x, p) PROVE FALSE
        OBVIOUS
      <4>1. PICK n \in DOMAIN log : IsNewPage(log[n]) /\ log[n].xid = x /\ log[n].page = p
        BY DEF OpenedBy, OpensIn
      <4>2. log[n].prev = p - 1
        BY <1>1, <4>1, HeapBounds DEF LogShape, RecordShape
      <4>3. p - 1 \in PagesOf(log, x)
        BY <3>1, <4>1, <4>2, UndonePagesOf
      <4> QED BY <1>2, <2>4, <4>3
    <3>4. OpenedByRolledBack(p)
      BY <3>2, <3>3 DEF OpenedByRolledBack
    <3>5. disk[p - 1].next = pages[p - 1].next
      BY <1>1, <1>2, <2>4, <3>4 DEF DiskRows
    <3> QED BY <1>5, <3>1, <3>3, <3>5
  <2>5. /\ \A i \in 1 .. initial : i \in DOMAIN disk[0].slots
        /\ \A p \in PageId : ~disk[p].exists => disk[p] = NoPage
        /\ initial > 0 => disk[0].exists
        /\ Forward(disk)
    BY <1>1 DEF DiskRows
  <2>6. Forward(disk)'
    BY <1>2, <2>5 DEF Forward
  <2> QED BY <1>2, <2>1, <2>2, <2>3, <2>4, <2>5, <2>6 DEF DiskRows
<1>7. DiskMarks'
  <2> SUFFICES ASSUME NEW p \in PageId, NEW i \in DOMAIN disk[p].slots
               PROVE  LET s == disk[p].slots[i] IN
                      /\ \/ s.xmax = NULL_XID
                         \/ s.xmax = s.xmin /\ s.xmin \notin Live'
                         \/ DeletesIn(log', 1 .. flushed_lsn_', s.xmax, p, i)
                      /\ p \notin undone' =>
                           /\ s.xmin \in RolledBack(log') => s.xmax = s.xmin
                           /\ s.xmax \in RolledBack(log') => s.xmax = s.xmin
    BY <1>2 DEF DiskMarks
  <2>1. PICK s : s = disk[p].slots[i]
    OBVIOUS
  <2>2. /\ \/ s.xmax = NULL_XID
           \/ s.xmax = s.xmin /\ s.xmin \notin Live
           \/ DeletesIn(log, 1 .. flushed_lsn_, s.xmax, p, i)
        /\ p \notin undone =>
             /\ s.xmin \in RolledBack(log) => s.xmax = s.xmin
             /\ s.xmax \in RolledBack(log) => s.xmax = s.xmin
    BY <1>1, <2>1 DEF DiskMarks
  <2>3. DeletesIn(log, 1 .. flushed_lsn_, s.xmax, p, i) => DeletesIn(log', 1 .. flushed_lsn_', s.xmax, p, i)
    BY <1>4 DEF DeletesIn
  <2>4. s.xmin = x => p \in undone'
    <3> SUFFICES ASSUME s.xmin = x PROVE p \in undone'
      OBVIOUS
    <3>1. i \in DOMAIN pages[p].slots /\ pages[p].slots[i].xmin = x
      BY <1>1, <2>1 DEF DiskRows
    <3>2. RowOf(p, i, pages[p].slots[i])
      BY <1>1, <3>1 DEF RowsExact
    <3>3. PICK n \in DOMAIN log : log[n].page = p /\ log[n].xid = x
      BY <1>2, <3>1, <3>2 DEF RowOf
    <3> QED BY <1>2, <3>3, UndonePagesOf
  <2>5. s.xmax = x => p \in undone' \/ s.xmax = s.xmin
    <3> SUFFICES ASSUME s.xmax = x, s.xmax # s.xmin PROVE p \in undone'
      OBVIOUS
    <3>1. PICK n \in 1 .. flushed_lsn_ : log[n].page = p /\ log[n].xid = x
      BY <1>2, <2>2 DEF DeletesIn
    <3> QED BY <1>2, <1>4, <3>1, UndonePagesOf
  <2>6. /\ \/ s.xmax = NULL_XID
           \/ s.xmax = s.xmin /\ s.xmin \notin Live'
           \/ DeletesIn(log', 1 .. flushed_lsn_', s.xmax, p, i)
        /\ p \notin undone' =>
             /\ s.xmin \in RolledBack(log') => s.xmax = s.xmin
             /\ s.xmax \in RolledBack(log') => s.xmax = s.xmin
    BY <1>2, <2>2, <2>3, <2>4, <2>5
  <2> QED BY <2>1, <2>6
<1>8. ASSUME NEW n \in DOMAIN log', log'[n].page \in PageId
      PROVE  n \in 1 .. Len(log) /\ n \in DOMAIN log /\ log'[n] = log[n]
  BY <1>2, <1>3, <1>8
<1>9. Coverage'
  <2>1. ASSUME NEW n \in DOMAIN log', log'[n].page \in PageId, ~OnDisk(n)'
        PROVE  /\ n > disk[log'[n].page].lsn
               /\ InRange(dpt_, n)'
               /\ n <= checkpoint.pos => InRange(checkpoint.dpt, n)'
    <3>1. n \in DOMAIN log /\ log'[n] = log[n]
      BY <1>8, <2>1
    <3>2. ~OnDisk(n)
      BY <1>2, <2>1, <3>1 DEF OnDisk
    <3>3. /\ n > disk[log[n].page].lsn
          /\ InRange(dpt_, n)
          /\ n <= checkpoint.pos => InRange(checkpoint.dpt, n)
      BY <1>1, <2>1, <3>1, <3>2 DEF Coverage
    <3> QED BY <1>2, <3>1, <3>3 DEF InRange
  <2>2. ASSUME NEW p \in PageId PROVE dpt_[p] <= Len(log') /\ checkpoint.dpt[p] <= checkpoint.pos
    <3>1. dpt_[p] <= Len(log) /\ checkpoint.dpt[p] <= checkpoint.pos /\ dpt_[p] \in 0 .. MaxLsn /\ MaxLsn \in Nat
      BY <1>1, <1>3, HeapBounds DEF Coverage
    <3> QED BY <1>3, <3>1
  <2> QED BY <1>2, <2>1, <2>2 DEF Coverage
<1>10. ASSUME NEW n \in DOMAIN log
       PROVE  /\ UndoneOnDisk(n)' <=> UndoneOnDisk(n)
              /\ InRange(dpt_, n)' <=> InRange(dpt_, n)
              /\ InRange(checkpoint.dpt, n)' <=> InRange(checkpoint.dpt, n)
  BY <1>2, <1>10 DEF UndoneOnDisk, InRange
<1>11. Settled(att_, dpt_, Len(log))'
  <2> SUFFICES ASSUME NEW n \in 1 .. Len(log'), log'[n].page \in PageId, log'[n].xid \notin att_' \cup Ended'
               PROVE  ~InRange(dpt_, n)' /\ UndoneOnDisk(n)'
    BY DEF Settled
  <2>1. n \in 1 .. Len(log) /\ n \in DOMAIN log /\ log'[n] = log[n]
    BY <1>3, <1>8
  <2>2. log[n].xid \notin att_ \cup Ended
    BY <1>2, <2>1
  <2>3. ~InRange(dpt_, n) /\ UndoneOnDisk(n)
    BY <1>1, <2>1, <2>2 DEF Settled
  <2> QED BY <1>10, <2>1, <2>3
<1>12. Settled(checkpoint.att, checkpoint.dpt, checkpoint.pos)'
  <2> SUFFICES ASSUME NEW n \in 1 .. checkpoint.pos, log'[n].page \in PageId, log'[n].xid \notin checkpoint.att \cup Ended'
               PROVE  ~InRange(checkpoint.dpt, n)' /\ UndoneOnDisk(n)'
    BY <1>2 DEF Settled
  <2>1. n \in DOMAIN log /\ log'[n] = log[n]
    BY <1>2, <1>3
  <2>2. ~InRange(checkpoint.dpt, n) /\ UndoneOnDisk(n)
    BY <1>1, <2>1 DEF Settled
  <2> QED BY <1>10, <2>1, <2>2
<1> QED BY <1>6, <1>7, <1>9, <1>11, <1>12 DEF RecoverInv

LEMMA RollbackExact ==
  ASSUME Typed, Exact, NEW x \in Xid, Rollback(x), initial' = initial, gaps' = {}
  PROVE  Exact'
<1>1. Undone(x)
  BY RollbackParts
<1>2. CleanUndo(pages, log, x)
  <2>1. UndoGaps(pages, log, x) = {}
    BY Zenon DEF Rollback
  <2> QED BY <2>1, UndoGapFree
<1>3. XactsExact' /\ Ended' = Ended \cup {x}
  BY EndXacts DEF Rollback
<1>4. RowsInv' /\ PagesExact' /\ LinksExact' /\ RecoverInv'
  BY <1>1, <1>2, <1>3, UndoneRows, UndonePages, UndoneLinks, UndoneRecover
<1> QED BY <1>1, <1>4 DEF Exact, Undone

----------------------------------------------------------------------------
(* Recovering: what repeating one record does.                             *)

\* A page is made anew, behind the page before it.
Made(pg, q, r) ==
  /\ q \in PagesType
  /\ \A o \in PageId \ {r.page} :
       /\ q[o].lsn = pg[o].lsn /\ q[o].exists = pg[o].exists /\ q[o].slots = pg[o].slots
       /\ q[o].next = IF o = r.prev THEN r.page ELSE pg[o].next
       /\ o # r.prev => q[o] = pg[o]
  /\ q[r.page].lsn = NoLsn /\ DOMAIN q[r.page].slots = {} /\ q[r.page].exists
  /\ q[r.page].next = IF r.prev = NULL_PAGE_ID THEN NULL_PAGE_ID ELSE pg[r.prev].next

\* A row is put behind the last of its page.
Added(pg, q, r, n) ==
  /\ q \in PagesType
  /\ \A o \in PageId \ {r.page} : q[o] = pg[o]
  /\ q[r.page].lsn = pg[r.page].lsn /\ q[r.page].exists = pg[r.page].exists /\ q[r.page].next = pg[r.page].next
  /\ DOMAIN q[r.page].slots = 1 .. Len(pg[r.page].slots) + 1
  /\ \A i \in 1 .. Len(pg[r.page].slots) : q[r.page].slots[i] = pg[r.page].slots[i]
  /\ q[r.page].slots[Len(pg[r.page].slots) + 1] = Slot(n, r.xid)

\* A row is marked.
Marked(pg, q, r) ==
  /\ q \in PagesType
  /\ SameRows(pg, q)
  /\ \A o \in PageId : q[o].next = pg[o].next
  /\ \A o \in PageId : \A i \in DOMAIN pg[o].slots :
       q[o].slots[i].xmax = IF o = r.page /\ i = r.slot THEN r.xid ELSE pg[o].slots[i].xmax

LEMMA MadeEffect ==
  ASSUME NEW pg \in PagesType, NEW r \in RecordType, RecordShape(r), IsNewPage(r)
  PROVE  Made(pg, RedoNewPage(pg, r), r)
<1> DEFINE next == IF r.prev = NULL_PAGE_ID THEN NULL_PAGE_ID ELSE pg[r.prev].next
           page == [Blank EXCEPT !.next = next]
           made == [pg EXCEPT ![r.page] = page]
           q == RedoNewPage(pg, r)
<1>1. /\ r.page \in PageId /\ (r.prev = NULL_PAGE_ID \/ r.prev \in PageId) /\ r.prev # r.page
      /\ NULL_PAGE_ID \notin PageId /\ NULL_PAGE_ID \in 0 .. NULL_PAGE_ID
      /\ NoLsn \in 0 .. MaxLsn /\ 0 <= Capacity /\ \A o \in PageId : o \in 0 .. NULL_PAGE_ID
  <2>1. /\ r.page \in PageId /\ (r.prev = NULL_PAGE_ID \/ r.prev \in PageId) /\ r.prev # r.page
    BY HeapBounds DEF RecordShape, PageId, NULL_PAGE_ID
  <2>2. /\ NULL_PAGE_ID \notin PageId /\ NULL_PAGE_ID \in 0 .. NULL_PAGE_ID
        /\ NoLsn \in 0 .. MaxLsn /\ 0 <= Capacity /\ \A o \in PageId : o \in 0 .. NULL_PAGE_ID
    BY HeapBounds DEF PageId, NULL_PAGE_ID, NoLsn
  <2> QED BY <2>1, <2>2
<1>2. next \in 0 .. NULL_PAGE_ID
  BY <1>1, PageFacts
<1> HIDE DEF next
<1>3. page = [lsn |-> NoLsn, next |-> next, slots |-> <<>>, exists |-> TRUE]
  <2> DEFINE none == <<>>
             yes == TRUE
  <2>1. Blank = [lsn |-> NoLsn, next |-> NULL_PAGE_ID, slots |-> none, exists |-> yes]
    BY BlankIs, Zenon
  <2> HIDE DEF none, yes
  <2>2. page = [lsn |-> NoLsn, next |-> next, slots |-> none, exists |-> yes]
    BY <2>1
  <2> QED BY <2>2, Zenon DEF none, yes
<1> HIDE DEF page
<1>4. page \in PageType
  <2>1. <<>> \in Seq(SlotType) /\ Len(<<>>) = 0
    OBVIOUS
  <2> QED BY <1>1, <1>2, <1>3, <2>1, PageIntro
<1>5. page.lsn = NoLsn /\ page.next = next /\ DOMAIN page.slots = {} /\ page.exists
  BY <1>3
<1>6. made \in PagesType /\ made[r.page] = page /\ \A o \in PageId \ {r.page} : made[o] = pg[o]
  BY <1>1, <1>4 DEF PagesType
<1>7. q = IF r.prev = NULL_PAGE_ID THEN made ELSE [made EXCEPT ![r.prev].next = r.page]
  BY DEF RedoNewPage, next, page
<1> HIDE DEF made, q
<1>8. CASE r.prev = NULL_PAGE_ID
  <2>1. q = made
    BY <1>7, <1>8
  <2> QED BY <1>1, <1>5, <1>6, <1>8, <2>1 DEF Made, q, next
<1>9. CASE r.prev # NULL_PAGE_ID
  <2>1. q = [made EXCEPT ![r.prev] = [made[r.prev] EXCEPT !.next = r.page]] /\ r.prev \in PageId
    BY <1>1, <1>7, <1>9
  <2>2. /\ q[r.prev] = [made[r.prev] EXCEPT !.next = r.page]
        /\ \A o \in PageId \ {r.prev} : q[o] = made[o]
        /\ DOMAIN q = PageId /\ q = [o \in PageId |-> q[o]]
    BY <1>6, <2>1 DEF PagesType
  <2>3. made[r.prev] \in PageType /\ made[r.prev] = pg[r.prev]
    BY <1>1, <1>6, <2>1 DEF PagesType
  <2>4. /\ q[r.prev] \in PageType /\ q[r.prev].next = r.page
        /\ q[r.prev].lsn = pg[r.prev].lsn /\ q[r.prev].exists = pg[r.prev].exists /\ q[r.prev].slots = pg[r.prev].slots
    BY <1>1, <2>2, <2>3 DEF PageType
  <2>5. q \in PagesType
    BY <1>6, <2>2, <2>4 DEF PagesType
  <2>6. q[r.page] = page
    BY <1>1, <1>6, <2>2
  <2>7. \A o \in PageId \ {r.page} :
          /\ q[o].lsn = pg[o].lsn /\ q[o].exists = pg[o].exists /\ q[o].slots = pg[o].slots
          /\ q[o].next = IF o = r.prev THEN r.page ELSE pg[o].next
          /\ o # r.prev => q[o] = pg[o]
    BY <1>6, <2>2, <2>4
  <2>8. next = pg[r.prev].next
    BY <1>9 DEF next
  <2> QED BY <1>5, <1>9, <2>5, <2>6, <2>7, <2>8 DEF Made, q
<1> QED BY <1>8, <1>9

LEMMA AddedEffect ==
  ASSUME NEW pg \in PagesType, NEW r \in RecordType, RecordShape(r), IsInsert(r), NEW n \in 0 .. MaxLsn,
         Len(pg[r.page].slots) < r.slot
  PROVE  Added(pg, RedoInsert(pg, r, n), r, n)
<1> DEFINE p == r.page
           ss == pg[p].slots
           L == Len(ss)
           s == Slot(n, r.xid)
           a == Append(ss, s)
           q == RedoInsert(pg, r, n)
<1>1. p \in PageId /\ r.xid \in Xid /\ r.slot \in 0 .. Capacity /\ Capacity \in Nat
  BY HeapBounds DEF RecordShape, RecordType
<1>2. /\ pg[p] \in PageType /\ ss \in Seq(SlotType) /\ L \in Nat /\ DOMAIN ss = 1 .. L
  BY <1>1, PageFacts
<1>3. s \in SlotType
  BY <1>1, SlotTypes
<1>4. L + 1 <= Capacity
  <2>1. L < r.slot
    OBVIOUS
  <2> HIDE DEF L
  <2> QED BY <1>1, <1>2, <2>1
<1> HIDE DEF s
<1>5. /\ a \in Seq(SlotType) /\ Len(a) = L + 1 /\ DOMAIN a = 1 .. L + 1 /\ Len(a) <= Capacity
      /\ a[L + 1] = s /\ \A i \in 1 .. L : a[i] = ss[i]
  <2> HIDE DEF ss
  <2>1. /\ Append(ss, s) \in Seq(SlotType) /\ Len(Append(ss, s)) = L + 1
        /\ Append(ss, s)[L + 1] = s /\ \A j \in 1 .. L : Append(ss, s)[j] = ss[j]
    BY <1>2, <1>3
  <2>2. a \in Seq(SlotType) /\ Len(a) = L + 1 /\ a[L + 1] = s /\ \A i \in 1 .. L : a[i] = ss[i]
    BY <2>1
  <2> HIDE DEF a, L
  <2> QED BY <1>2, <1>4, <2>2
<1>6. q = [pg EXCEPT ![p] = [pg[p] EXCEPT !.slots = a]]
  BY <1>1 DEF RedoInsert, Appended, s, PagesType
<1> HIDE DEF a, q
<1>7. ASSUME NEW o \in PageId PROVE q[o] = IF o = p THEN [pg[p] EXCEPT !.slots = a] ELSE pg[o]
  BY <1>1, <1>6 DEF PagesType
<1>8. /\ q[p].lsn = pg[p].lsn /\ q[p].exists = pg[p].exists /\ q[p].next = pg[p].next /\ q[p].slots = a
      /\ q[p] \in PageType
  BY <1>1, <1>2, <1>5, <1>7 DEF PageType
<1>9. q \in PagesType
  <2>1. q = [o \in PageId |-> q[o]]
    BY <1>6 DEF PagesType
  <2> QED BY <1>7, <1>8, <2>1 DEF PagesType
<1>10. \A o \in PageId \ {p} : q[o] = pg[o]
  BY <1>7
<1> HIDE DEF L
<1>11. DOMAIN q[p].slots = 1 .. L + 1 /\ q[p].slots[L + 1] = s /\ \A i \in 1 .. L : q[p].slots[i] = ss[i]
  BY <1>5, <1>8
<1> QED BY <1>8, <1>9, <1>10, <1>11 DEF Added, q, s, L

LEMMA MarkedEffect ==
  ASSUME NEW pg \in PagesType, NEW r \in RecordType
  PROVE  Marked(pg, SetXmax(pg, r, r.xid), r)
<1>1. r.xid \in 0 .. MaxXid
  BY HeapBounds DEF RecordType, Xid
<1> QED BY <1>1, SetXmaxEffect DEF Marked

----------------------------------------------------------------------------
(* Recovering: the run of Redo.                                            *)

RecoveryGap ==
  {"unreadable", "repeated", "circle", "twice", "unlinked page", "first page", "unlinked", "undone again"}

RecoveryStates(A, R) == [pages : PagesType, gaps : SUBSET RecoveryGap, dpt : {A}, rolledBack : {R}]

\* Redo repeats record n on the pages pg.
Again(A, pg, n) == InRange(A, n) /\ (IsNewPage(log[n]) \/ n > pg[log[n].page].lsn)

\* Redo of record n as long as nothing has gone wrong.
Repeated(A, R, pg, q, n) ==
  LET r == log[n] IN
  /\ r.page \in PageId /\ Again(A, pg, n) /\ r.xid \notin R
  /\ pg[Needed(r)].exists /\ ~Linked(pg, r)
  /\ IsNewPage(r) => Made(pg, q, r)
  /\ IsInsert(r) => Len(pg[r.page].slots) < r.slot /\ Added(pg, q, r, n)
  /\ IsDelete(r) => Marked(pg, q, r)

Skipped(A, R, pg, q, n) ==
  LET r == log[n] IN
  /\ q = pg
  /\ r.page \in PageId =>
       /\ ~Again(A, pg, n)
       /\ IsNewPage(r) /\ r.prev # NULL_PAGE_ID =>
            pg[r.prev].next = IF r.xid \in R THEN disk[r.prev].next ELSE r.page

RedoneWell(A, R, pg, q, n) == Repeated(A, R, pg, q, n) \/ Skipped(A, R, pg, q, n)

\* The gaps of one record.
LEMMA SkipGapFacts ==
  ASSUME NEW st, NEW n
  PROVE  /\ SkipGaps(st, n) \subseteq RecoveryGap
         /\ SkipGaps(st, n) = {} /\ IsNewPage(log[n]) /\ log[n].prev # NULL_PAGE_ID =>
              st.pages[log[n].prev].next =
                IF log[n].xid \in st.rolledBack THEN disk[log[n].prev].next ELSE log[n].page
<1> DEFINE r == log[n]
           link == IF r.xid \in st.rolledBack THEN disk[r.prev].next ELSE r.page
           bad == r.type = "NEW_PAGE" /\ r.prev # NULL_PAGE_ID /\ st.pages[r.prev].next # link
           g == "unlinked page"
<1>1. SkipGaps(st, n) = IF bad THEN {g} ELSE {}
  BY Zenon DEF SkipGaps
<1>2. g \in RecoveryGap
  BY Zenon DEF RecoveryGap
<1> HIDE DEF bad, g
<1>3. SkipGaps(st, n) \subseteq RecoveryGap
  BY <1>1, <1>2
<1>4. SkipGaps(st, n) = {} => ~bad
  BY <1>1
<1> QED BY <1>3, <1>4 DEF bad, IsNewPage

LEMMA RepeatGapFacts ==
  ASSUME NEW st, NEW n
  PROVE  /\ RepeatGaps(st, n) \subseteq RecoveryGap
         /\ "twice" \notin RepeatGaps(st, n) => ~(IsInsert(log[n]) /\ log[n].slot <= Len(st.pages[log[n].page].slots))
         /\ RepeatGaps(st, n) = {} =>
              /\ st.pages[Needed(log[n])].exists
              /\ log[n].xid \notin st.rolledBack
              /\ ~Linked(st.pages, log[n])
<1> DEFINE r == log[n]
           pg == st.pages
           A == ~pg[Needed(r)].exists
           B == r.xid \in st.rolledBack
           C == Linked(pg, r)
           D == r.type = "INSERT" /\ r.slot <= Len(pg[r.page].slots)
           G(g) == CASE g = "unreadable" -> A [] g = "repeated" -> B [] g = "circle" -> C [] g = "twice" -> D
           W == {g \in {"unreadable", "repeated", "circle", "twice"} : G(g)}
<1>1. RepeatGaps(st, n) = W
  BY Zenon DEF RepeatGaps
<1>2. {"unreadable", "repeated", "circle", "twice"} \subseteq RecoveryGap
  BY Zenon DEF RecoveryGap
<1> HIDE DEF A, B, C, D
<1>3. W \subseteq RecoveryGap
  <2> HIDE DEF G
  <2>1. W \subseteq {"unreadable", "repeated", "circle", "twice"}
    OBVIOUS
  <2> HIDE DEF W
  <2> QED BY <1>2, <2>1, Zenon
<1>4. "twice" \notin W => ~D
  <2> SUFFICES ASSUME D PROVE "twice" \in W
    OBVIOUS
  <2>1. G("twice")
    OBVIOUS
  <2> HIDE DEF G
  <2> QED BY <2>1
<1>5. W = {} => ~A /\ ~B /\ ~C
  <2>1. A => "unreadable" \in W
    OBVIOUS
  <2>2. B => "repeated" \in W
    OBVIOUS
  <2>3. C => "circle" \in W
    OBVIOUS
  <2> HIDE DEF W
  <2> QED BY <2>1, <2>2, <2>3
<1>6. ~D => ~(IsInsert(r) /\ r.slot <= Len(pg[r.page].slots))
  BY DEF D, IsInsert
<1>7. ~A /\ ~B /\ ~C => pg[Needed(r)].exists /\ r.xid \notin st.rolledBack /\ ~Linked(pg, r)
  BY DEF A, B, C
<1> HIDE DEF W
<1> QED BY <1>1, <1>3, <1>4, <1>5, <1>6, <1>7

\* What redo of one record leaves.
RedoOutcome(A, R, st, t, n) ==
  /\ t \in RecoveryStates(A, R)
  /\ st.gaps \subseteq t.gaps
  /\ t.gaps = {} => RedoneWell(A, R, st.pages, t.pages, n)

LEMMA RedoRecordOutcome ==
  ASSUME Typed, LogShape(log), NEW A, NEW R, NEW st \in RecoveryStates(A, R), NEW n \in 1 .. flushed_lsn_
  PROVE  RedoOutcome(A, R, st, RedoRecord(st, n), n)
<1> DEFINE r == log[n]
           t == RedoRecord(st, n)
           S1 == SkipGaps(st, n)
           S2 == RepeatGaps(st, n)
           skip == [st EXCEPT !.gaps = @ \cup S1]
           checked == [st EXCEPT !.gaps = @ \cup S2]
           done == [checked EXCEPT !.pages = Redone(@, r, n)]
<1>1. /\ n \in DOMAIN log /\ n \in 0 .. MaxLsn /\ r \in RecordType /\ RecordShape(r)
      /\ st.pages \in PagesType /\ st.gaps \subseteq RecoveryGap /\ st.dpt = A /\ st.rolledBack = R
  <2>1. n \in DOMAIN log /\ n \in 0 .. MaxLsn
    BY HeapBounds DEF Typed
  <2>2. r \in RecordType /\ RecordShape(r)
    BY <2>1 DEF Typed, LogShape
  <2> QED BY <2>1, <2>2 DEF RecoveryStates
<1>2. S1 \subseteq RecoveryGap /\ S2 \subseteq RecoveryGap
  BY SkipGapFacts, RepeatGapFacts
<1>3. t = IF r.page \notin PageId \/ Broken(st) THEN st
          ELSE IF ~Repeats(st, n) THEN skip
          ELSE IF Broken(checked) THEN checked ELSE done
  BY DEF RedoRecord
<1>4. Repeats(st, n) <=> Again(A, st.pages, n)
  BY <1>1 DEF Repeats, Again, IsNewPage
<1>5. S1 = {} /\ IsNewPage(r) /\ r.prev # NULL_PAGE_ID =>
        st.pages[r.prev].next = IF r.xid \in R THEN disk[r.prev].next ELSE r.page
  BY <1>1, SkipGapFacts
<1>6. /\ "twice" \notin S2 => ~(IsInsert(r) /\ r.slot <= Len(st.pages[r.page].slots))
      /\ S2 = {} => st.pages[Needed(r)].exists /\ r.xid \notin R /\ ~Linked(st.pages, r)
  BY <1>1, RepeatGapFacts
<1> HIDE DEF t, S1, S2
<1>7. /\ skip \in RecoveryStates(A, R) /\ skip.pages = st.pages /\ skip.gaps = st.gaps \cup S1
      /\ checked \in RecoveryStates(A, R) /\ checked.pages = st.pages /\ checked.gaps = st.gaps \cup S2
  BY <1>1, <1>2 DEF RecoveryStates
<1>8. Broken(checked) => checked.gaps # {}
  BY DEF Broken
<1>9. Broken(st) => st.gaps # {}
  BY DEF Broken
<1>10. ~Broken(checked) => "twice" \notin S2
  BY <1>7 DEF Broken
<1>11. done = [checked EXCEPT !.pages = Redone(checked.pages, r, n)]
  OBVIOUS
<1> HIDE DEF skip, checked
<1>12. CASE r.page \notin PageId \/ Broken(st)
  <2>1. t = st
    BY <1>3, <1>12
  <2>2. t.gaps = {} => Skipped(A, R, st.pages, t.pages, n)
    BY <1>9, <1>12, <2>1 DEF Skipped
  <2> QED BY <2>1, <2>2 DEF RedoOutcome, RedoneWell, t
<1>13. CASE r.page \in PageId /\ ~Broken(st) /\ ~Again(A, st.pages, n)
  <2>1. t = skip
    BY <1>3, <1>4, <1>13
  <2>2. t.gaps = {} => Skipped(A, R, st.pages, t.pages, n)
    BY <1>5, <1>7, <1>13, <2>1 DEF Skipped
  <2> QED BY <1>7, <2>1, <2>2 DEF RedoOutcome, RedoneWell, t
<1>14. CASE r.page \in PageId /\ ~Broken(st) /\ Again(A, st.pages, n) /\ Broken(checked)
  <2>1. t = checked
    BY <1>3, <1>4, <1>14
  <2> QED BY <1>7, <1>8, <1>14, <2>1 DEF RedoOutcome, t
<1>15. CASE r.page \in PageId /\ ~Broken(st) /\ Again(A, st.pages, n) /\ ~Broken(checked)
  <2> DEFINE q == Redone(st.pages, r, n)
  <2>1. t = done
    BY <1>3, <1>4, <1>15
  <2>2. IsInsert(r) => Len(st.pages[r.page].slots) < r.slot
    <3>1. Len(st.pages[r.page].slots) \in Nat /\ r.slot \in Nat
      <4>1. Len(st.pages[r.page].slots) \in Nat
        BY <1>1, <1>15, PageFacts
      <4> QED BY <1>1, <4>1, HeapBounds DEF RecordType
    <3>2. "twice" \notin S2
      BY <1>10, <1>15
    <3>3. IsInsert(r) => ~(r.slot <= Len(st.pages[r.page].slots))
      BY <1>6, <3>2
    <3> DEFINE L == Len(st.pages[r.page].slots)
               k == r.slot
    <3>4. L \in Nat /\ k \in Nat /\ (IsInsert(r) => ~(k <= L))
      BY <3>1, <3>3
    <3> HIDE DEF L, k
    <3>5. IsInsert(r) => L < k
      BY <3>4
    <3> QED BY <3>5 DEF L, k
  <2>3. IsNewPage(r) => Made(st.pages, q, r)
    <3> SUFFICES ASSUME IsNewPage(r) PROVE Made(st.pages, q, r)
      OBVIOUS
    <3>1. q = RedoNewPage(st.pages, r)
      BY DEF Redone, IsNewPage
    <3> QED BY <1>1, <3>1, MadeEffect
  <2>4. IsInsert(r) => Added(st.pages, q, r, n)
    <3> SUFFICES ASSUME IsInsert(r) PROVE Added(st.pages, q, r, n)
      OBVIOUS
    <3>1. q = RedoInsert(st.pages, r, n)
      BY DEF Redone, IsInsert
    <3> QED BY <1>1, <2>2, <3>1, AddedEffect
  <2>5. IsDelete(r) => Marked(st.pages, q, r)
    <3> SUFFICES ASSUME IsDelete(r) PROVE Marked(st.pages, q, r)
      OBVIOUS
    <3>1. q = SetXmax(st.pages, r, r.xid)
      BY DEF Redone, IsDelete
    <3> QED BY <1>1, <3>1, MarkedEffect
  <2>6. q \in PagesType
    BY <1>1, <1>15, <2>3, <2>4, <2>5 DEF RecordShape, Made, Added, Marked
  <2> HIDE DEF q
  <2>7. done = [checked EXCEPT !.pages = q]
    BY <1>7, <1>11 DEF q
  <2>8. done \in RecoveryStates(A, R) /\ done.pages = q /\ done.gaps = st.gaps \cup S2
    BY <1>7, <2>6, <2>7 DEF RecoveryStates
  <2> HIDE DEF done
  <2>9. t.gaps = {} => Repeated(A, R, st.pages, t.pages, n)
    BY <1>6, <1>15, <2>1, <2>2, <2>3, <2>4, <2>5, <2>8 DEF Repeated
  <2> QED BY <2>1, <2>8, <2>9 DEF RedoOutcome, RedoneWell, t
<1> QED BY <1>12, <1>13, <1>14, <1>15

LEMMA RedoRun ==
  ASSUME Typed, LogShape(log), NEW A, A = AnalyzedDpt, NEW R, R = RolledBack(Durable)
  PROVE  \E f \in [0 .. flushed_lsn_ -> RecoveryStates(A, R)] :
           /\ f[0].pages = disk
           /\ \A n \in 1 .. flushed_lsn_ : f[n] = RedoRecord(f[n - 1], n)
           /\ \A n \in 0 .. flushed_lsn_ : RedoTo(n) = f[n]
<1> DEFINE N == flushed_lsn_
           S == RecoveryStates(A, R)
           a == [pages |-> disk, gaps |-> {}, dpt |-> A, rolledBack |-> R]
           G == [n \in 1 .. N |-> [s \in S |-> RedoRecord(s, n)]]
           H(f) == [n \in 0 .. N |-> IF n = 0 THEN a ELSE RedoRecord(f[n - 1], n)]
<1>1. N \in Nat /\ a \in S /\ a.pages = disk
  BY DEF Typed, RecoveryStates
<1>2. ASSUME NEW n \in 1 .. N, NEW s \in S PROVE RedoRecord(s, n) \in S
  BY <1>2, RedoRecordOutcome DEF RedoOutcome
<1> HIDE DEF a, S, N
<1>3. G \in [1 .. N -> [S -> S]]
  BY <1>2
<1>4. PICK u \in [0 .. N -> S] : Runs(u, N, a, G)
  <2> HIDE DEF G
  <2> QED BY <1>1, <1>3, Iteration
<1>5. ASSUME NEW n \in 1 .. N PROVE u[n] = RedoRecord(u[n - 1], n)
  <2>1. u[n] = G[n][u[n - 1]] /\ n - 1 \in 0 .. N
    BY <1>1, <1>4 DEF Runs
  <2> QED BY <2>1
<1>6. u[0] = a
  BY <1>4 DEF Runs
<1> HIDE DEF G
<1>7. ASSUME NEW f, f = H(f) PROVE f = u
  <2> DEFINE T == {n \in 0 .. N : f[n] = u[n]}
  <2>1. /\ f[0] = a
        /\ \A n \in 1 .. N : f[n] = RedoRecord(f[n - 1], n)
        /\ f = [n \in 0 .. N |-> f[n]]
    <3>1. \A n \in 0 .. N : H(f)[n] = IF n = 0 THEN a ELSE RedoRecord(f[n - 1], n)
      OBVIOUS
    <3>2. H(f) = [n \in 0 .. N |-> H(f)[n]]
      OBVIOUS
    <3> HIDE DEF H
    <3>3. f[0] = a /\ \A n \in 1 .. N : f[n] = RedoRecord(f[n - 1], n)
      BY <1>1, <1>7, <3>1
    <3> QED BY <1>7, <3>2, <3>3
  <2>2. 0 \in T
    BY <1>1, <1>6, <2>1
  <2>3. ASSUME NEW n \in 0 .. N - 1, n \in T PROVE n + 1 \in T
    <3>1. n + 1 \in 1 .. N /\ n + 1 - 1 = n /\ n + 1 \in 0 .. N
      BY <1>1
    <3>2. f[n + 1] = RedoRecord(f[n + 1 - 1], n + 1) /\ u[n + 1] = RedoRecord(u[n + 1 - 1], n + 1)
      BY <1>5, <2>1, <3>1
    <3>3. f[n + 1 - 1] = u[n + 1 - 1]
      BY <2>3, <3>1
    <3> QED BY <3>1, <3>2, <3>3
  <2>4. \A n \in 0 .. N : n \in T
    <3> HIDE DEF T
    <3> QED BY <1>1, <2>2, <2>3, UpTo
  <2>5. \A n \in 0 .. N : f[n] = u[n]
    BY <2>4
  <2> HIDE DEF T, H
  <2> QED BY <2>1, <2>5
<1>8. u = H(u)
  <2>1. ASSUME NEW n \in 0 .. N PROVE u[n] = H(u)[n]
    <3>1. H(u)[n] = IF n = 0 THEN a ELSE RedoRecord(u[n - 1], n)
      OBVIOUS
    <3>2. n # 0 => n \in 1 .. N
      BY <1>1
    <3> HIDE DEF H
    <3> QED BY <1>5, <1>6, <3>1, <3>2
  <2>2. H(u) = [n \in 0 .. N |-> H(u)[n]]
    OBVIOUS
  <2> HIDE DEF H
  <2> QED BY <2>1, <2>2
<1> DEFINE c == CHOOSE f : f = H(f)
<1>9. c = u
  <2>1. c = H(c)
    <3> HIDE DEF H
    <3> QED BY <1>8
  <2> HIDE DEF c, H
  <2> QED BY <1>7, <2>1
<1>10. \A n \in 0 .. N : RedoTo(n) = c[n]
  BY DEF RedoTo, a, N
<1> HIDE DEF c, H
<1> QED BY <1>1, <1>5, <1>6, <1>9, <1>10 DEF N, S

\* Redo, and the pages it goes through when nothing goes wrong.
LEMMA RedoResult ==
  ASSUME Typed, LogShape(log), NEW A, A = AnalyzedDpt, NEW R, R = RolledBack(Durable)
  PROVE  /\ Redo \in RecoveryStates(A, R)
         /\ Redo.gaps = {} =>
              \E u \in [0 .. flushed_lsn_ -> PagesType] :
                /\ u[0] = disk
                /\ \A n \in 1 .. flushed_lsn_ : RedoneWell(A, R, u[n - 1], u[n], n)
                /\ Redo.pages = u[flushed_lsn_]
<1> DEFINE N == flushed_lsn_
<1>1. PICK f \in [0 .. N -> RecoveryStates(A, R)] :
           /\ f[0].pages = disk
           /\ \A n \in 1 .. N : f[n] = RedoRecord(f[n - 1], n)
           /\ \A n \in 0 .. N : RedoTo(n) = f[n]
  BY RedoRun
<1>2. N \in Nat /\ N \in 0 .. N
  BY DEF Typed
<1>3. Redo = f[N] /\ Redo \in RecoveryStates(A, R)
  BY <1>1, <1>2 DEF Redo
<1>4. ASSUME NEW n \in 1 .. N PROVE RedoOutcome(A, R, f[n - 1], f[n], n)
  <2>1. n - 1 \in 0 .. N
    BY <1>2
  <2> QED BY <1>1, <2>1, RedoRecordOutcome
<1>5. SUFFICES ASSUME Redo.gaps = {}
               PROVE  \E u \in [0 .. N -> PagesType] :
                        /\ u[0] = disk
                        /\ \A n \in 1 .. N : RedoneWell(A, R, u[n - 1], u[n], n)
                        /\ Redo.pages = u[N]
  BY <1>3
<1> HIDE DEF N
<1>6. \A n \in 0 .. N : f[n].gaps = {}
  <2> DEFINE T == {n \in 0 .. N : f[n].gaps = {}}
  <2>1. N \in T
    BY <1>2, <1>3, <1>5
  <2>2. ASSUME NEW n \in 0 .. N - 1, n + 1 \in T PROVE n \in T
    <3>1. n + 1 \in 1 .. N /\ n + 1 - 1 = n /\ n \in 0 .. N
      BY <1>2
    <3>2. RedoOutcome(A, R, f[n + 1 - 1], f[n + 1], n + 1)
      BY <1>4, <3>1
    <3> QED BY <2>2, <3>1, <3>2 DEF RedoOutcome
  <2>3. \A n \in 0 .. N : n \in T
    <3> HIDE DEF T
    <3> QED BY <1>2, <2>1, <2>2, DownFrom
  <2> QED BY <2>3
<1> DEFINE u == [n \in 0 .. N |-> f[n].pages]
<1>7. u \in [0 .. N -> PagesType] /\ u[0] = disk /\ Redo.pages = u[N]
  BY <1>1, <1>2, <1>3 DEF RecoveryStates
<1>8. ASSUME NEW n \in 1 .. N PROVE RedoneWell(A, R, u[n - 1], u[n], n)
  <2>1. n - 1 \in 0 .. N /\ n \in 0 .. N
    BY <1>2
  <2>2. u[n - 1] = f[n - 1].pages /\ u[n] = f[n].pages
    BY <2>1
  <2> HIDE DEF u
  <2> QED BY <1>4, <1>6, <2>1, <2>2 DEF RedoOutcome
<1> QED BY <1>7, <1>8

LEMMA UndoLoserOutcome ==
  ASSUME NEW lg \in Seq(RecordType), LogShape(lg), lg = Durable, NEW A, NEW R, NEW st \in RecoveryStates(A, R), NEW x
  PROVE  /\ UndoLoser(st, x) \in RecoveryStates(A, R)
         /\ st.gaps \subseteq UndoLoser(st, x).gaps
         /\ UndoneEffect(st.pages, lg, DOMAIN lg, x, UndoLoser(st, x).pages)
         /\ UndoLoser(st, x).gaps = {} => CleanUndo(st.pages, lg, x)
<1> DEFINE q == RolledBackPages(st.pages, lg, x)
           W == UndoGaps(st.pages, lg, x)
           t == [st EXCEPT !.pages = q, !.gaps = st.gaps \cup W]
<1>1. st.pages \in PagesType
  BY DEF RecoveryStates
<1>2. UndoneEffect(st.pages, lg, DOMAIN lg, x, q)
  BY <1>1, RollbackEffect
<1>3. W \subseteq RecoveryGap
  <2>1. {"first page", "unlinked", "undone again"} \subseteq RecoveryGap
    BY Zenon DEF RecoveryGap
  <2>2. UndoGaps(st.pages, lg, x) \subseteq {"first page", "unlinked", "undone again"}
    BY Zenon DEF UndoGaps
  <2> QED BY <2>1, <2>2, Zenon
<1>4. W = {} => CleanUndo(st.pages, lg, x)
  BY UndoGapFree
<1>5. UndoLoser(st, x) = t
  BY Zenon DEF UndoLoser
<1> HIDE DEF q, W
<1>6. q \in PagesType
  BY <1>2 DEF UndoneEffect
<1>7. t \in RecoveryStates(A, R) /\ t.pages = q /\ t.gaps = st.gaps \cup W
  BY <1>3, <1>6 DEF RecoveryStates
<1> HIDE DEF t
<1> QED BY <1>2, <1>4, <1>5, <1>7 DEF q

----------------------------------------------------------------------------
(* Recovering: the run of Undo.                                            *)

\* The losers in some order.
LoserOrder(losers, L) ==
  /\ losers \in Seq(Xid) /\ Len(losers) \in Nat
  /\ \A i \in 1 .. Len(losers) : losers[i] \in L
  /\ \A x \in L : \E i \in 1 .. Len(losers) : losers[i] = x
  /\ \A i, j \in 1 .. Len(losers) : losers[i] = losers[j] => i = j

LEMMA LosersInOrder ==
  ASSUME NEW L \in SUBSET Xid, NEW losers \in Bijection(1 .. Cardinality(L), L)
  PROVE  LoserOrder(losers, L)
<1> DEFINE k == Cardinality(L)
<1>1. k \in Nat
  <2>1. IsFiniteSet(Xid)
    <3>1. MaxXid \in Int /\ 1 \in Int
      BY HeapBounds
    <3> QED BY <3>1, FS_Interval DEF Xid
  <2>2. IsFiniteSet(L)
    BY <2>1, FS_Subset
  <2> QED BY <2>2, FS_CardinalityType
<1>2. /\ losers \in [1 .. k -> L] /\ \A x \in L : \E i \in 1 .. k : losers[i] = x
      /\ \A i, j \in 1 .. k : losers[i] = losers[j] => i = j
  BY DEF Bijection, Injection, Surjection, IsInjective
<1> HIDE DEF k
<1>3. losers \in [1 .. k -> Xid]
  BY <1>2
<1>4. losers \in Seq(Xid) /\ Len(losers) = k
  BY <1>1, <1>3
<1> QED BY <1>1, <1>2, <1>4 DEF LoserOrder

LEMMA UndoRun ==
  ASSUME NEW lg \in Seq(RecordType), LogShape(lg), lg = Durable, NEW A, NEW R, NEW a \in RecoveryStates(A, R),
         NEW L, NEW losers, LoserOrder(losers, L)
  PROVE  \E f \in [0 .. Len(losers) -> RecoveryStates(A, R)] :
           /\ f[0] = a
           /\ \A i \in 1 .. Len(losers) : f[i] = UndoLoser(f[i - 1], losers[i])
           /\ Undo(a, losers) = f[Len(losers)]
<1> DEFINE N == Len(losers)
           S == RecoveryStates(A, R)
           G == [n \in 1 .. N |-> [s \in S |-> UndoLoser(s, losers[n])]]
           H(f) == [n \in 0 .. N |-> IF n = 0 THEN a ELSE UndoLoser(f[n - 1], losers[n])]
<1>1. N \in Nat /\ a \in S
  BY DEF LoserOrder
<1>2. ASSUME NEW n \in 1 .. N, NEW s \in S PROVE UndoLoser(s, losers[n]) \in S
  BY <1>2, UndoLoserOutcome
<1> HIDE DEF S, N
<1>3. G \in [1 .. N -> [S -> S]]
  BY <1>2
<1>4. PICK u \in [0 .. N -> S] : Runs(u, N, a, G)
  <2> HIDE DEF G
  <2> QED BY <1>1, <1>3, Iteration
<1>5. ASSUME NEW n \in 1 .. N PROVE u[n] = UndoLoser(u[n - 1], losers[n])
  <2>1. u[n] = G[n][u[n - 1]] /\ n - 1 \in 0 .. N
    BY <1>1, <1>4 DEF Runs
  <2> QED BY <2>1
<1>6. u[0] = a
  BY <1>4 DEF Runs
<1> HIDE DEF G
<1>7. ASSUME NEW f, f = H(f) PROVE f = u
  <2> DEFINE T == {n \in 0 .. N : f[n] = u[n]}
  <2>1. /\ f[0] = a
        /\ \A n \in 1 .. N : f[n] = UndoLoser(f[n - 1], losers[n])
        /\ f = [n \in 0 .. N |-> f[n]]
    <3>1. \A n \in 0 .. N : H(f)[n] = IF n = 0 THEN a ELSE UndoLoser(f[n - 1], losers[n])
      OBVIOUS
    <3>2. H(f) = [n \in 0 .. N |-> H(f)[n]]
      OBVIOUS
    <3> HIDE DEF H
    <3>3. f[0] = a /\ \A n \in 1 .. N : f[n] = UndoLoser(f[n - 1], losers[n])
      BY <1>1, <1>7, <3>1
    <3> QED BY <1>7, <3>2, <3>3
  <2>2. 0 \in T
    BY <1>1, <1>6, <2>1
  <2>3. ASSUME NEW n \in 0 .. N - 1, n \in T PROVE n + 1 \in T
    <3>1. n + 1 \in 1 .. N /\ n + 1 - 1 = n /\ n + 1 \in 0 .. N
      BY <1>1
    <3>2. PICK m \in 1 .. N : m = n + 1 /\ m - 1 = n /\ m \in 0 .. N
      BY <3>1
    <3>3. f[m] = UndoLoser(f[m - 1], losers[m])
      BY <2>1
    <3>4. u[m] = UndoLoser(u[m - 1], losers[m])
      BY <1>5
    <3>5. f[m - 1] = u[m - 1]
      BY <2>3, <3>2
    <3>6. f[m] = u[m]
      BY <3>3, <3>4, <3>5
    <3> QED BY <3>2, <3>6
  <2>4. \A n \in 0 .. N : n \in T
    <3> HIDE DEF T
    <3> QED BY <1>1, <2>2, <2>3, UpTo
  <2>5. \A n \in 0 .. N : f[n] = u[n]
    BY <2>4
  <2> HIDE DEF T, H
  <2> QED BY <2>1, <2>5
<1>8. u = H(u)
  <2>1. ASSUME NEW n \in 0 .. N PROVE u[n] = H(u)[n]
    <3>1. H(u)[n] = IF n = 0 THEN a ELSE UndoLoser(u[n - 1], losers[n])
      OBVIOUS
    <3>2. n # 0 => n \in 1 .. N
      BY <1>1
    <3> HIDE DEF H
    <3> QED BY <1>5, <1>6, <3>1, <3>2
  <2>2. H(u) = [n \in 0 .. N |-> H(u)[n]]
    OBVIOUS
  <2> HIDE DEF H
  <2> QED BY <2>1, <2>2
<1> DEFINE c == CHOOSE f : f = H(f)
<1>9. c = u
  <2>1. c = H(c)
    <3> HIDE DEF H
    <3> QED BY <1>8
  <2> HIDE DEF c, H
  <2> QED BY <1>7, <2>1
<1>10. Undo(a, losers) = c[N]
  BY DEF Undo, N
<1> HIDE DEF c, H
<1> QED BY <1>1, <1>5, <1>6, <1>9, <1>10 DEF N, S

\* Undo, and the pages it goes through when nothing goes wrong.
UndoSteps(v, lg, losers) ==
  \A i \in 1 .. Len(losers) :
    /\ UndoneEffect(v[i - 1], lg, DOMAIN lg, losers[i], v[i])
    /\ CleanUndo(v[i - 1], lg, losers[i])

LEMMA UndoResult ==
  ASSUME NEW lg \in Seq(RecordType), LogShape(lg), lg = Durable, NEW A, NEW R, NEW a \in RecoveryStates(A, R),
         NEW L, NEW losers, LoserOrder(losers, L)
  PROVE  /\ Undo(a, losers) \in RecoveryStates(A, R)
         /\ Undo(a, losers).gaps = {} =>
              /\ a.gaps = {}
              /\ \E v \in [0 .. Len(losers) -> PagesType] :
                   v[0] = a.pages /\ UndoSteps(v, lg, losers) /\ Undo(a, losers).pages = v[Len(losers)]
<1> DEFINE N == Len(losers)
           z == Undo(a, losers)
<1>1. PICK f \in [0 .. N -> RecoveryStates(A, R)] :
           /\ f[0] = a
           /\ \A i \in 1 .. N : f[i] = UndoLoser(f[i - 1], losers[i])
           /\ z = f[N]
  BY UndoRun
<1> HIDE DEF z
<1>2. N \in Nat /\ N \in 0 .. N
  BY DEF LoserOrder
<1>3. z \in RecoveryStates(A, R)
  BY <1>1, <1>2
<1>4. ASSUME NEW n \in 1 .. N
      PROVE  /\ f[n - 1].gaps \subseteq f[n].gaps
             /\ UndoneEffect(f[n - 1].pages, lg, DOMAIN lg, losers[n], f[n].pages)
             /\ f[n].gaps = {} => CleanUndo(f[n - 1].pages, lg, losers[n])
  <2>1. n - 1 \in 0 .. N /\ f[n] = UndoLoser(f[n - 1], losers[n])
    BY <1>1, <1>2
  <2>2. f[n - 1] \in RecoveryStates(A, R)
    BY <2>1
  <2> QED BY <2>1, <2>2, UndoLoserOutcome
<1>5. SUFFICES ASSUME z.gaps = {}
               PROVE  /\ a.gaps = {}
                      /\ \E v \in [0 .. N -> PagesType] :
                           v[0] = a.pages /\ UndoSteps(v, lg, losers) /\ z.pages = v[N]
  BY <1>3 DEF z
<1> HIDE DEF N
<1>6. \A n \in 0 .. N : f[n].gaps = {}
  <2> DEFINE T == {n \in 0 .. N : f[n].gaps = {}}
  <2>1. N \in T
    BY <1>1, <1>2, <1>5
  <2>2. ASSUME NEW n \in 0 .. N - 1, n + 1 \in T PROVE n \in T
    <3>1. n + 1 \in 1 .. N /\ n + 1 - 1 = n /\ n \in 0 .. N
      BY <1>2
    <3>2. f[n + 1 - 1].gaps \subseteq f[n + 1].gaps
      BY <1>4, <3>1
    <3> QED BY <2>2, <3>1, <3>2
  <2>3. \A n \in 0 .. N : n \in T
    <3> HIDE DEF T
    <3> QED BY <1>2, <2>1, <2>2, DownFrom
  <2> QED BY <2>3
<1> DEFINE v == [n \in 0 .. N |-> f[n].pages]
<1>7. v \in [0 .. N -> PagesType] /\ v[0] = a.pages /\ z.pages = v[N] /\ a.gaps = {}
  BY <1>1, <1>2, <1>6 DEF RecoveryStates
<1>8. ASSUME NEW n \in 1 .. N
      PROVE  UndoneEffect(v[n - 1], lg, DOMAIN lg, losers[n], v[n]) /\ CleanUndo(v[n - 1], lg, losers[n])
  <2>1. n - 1 \in 0 .. N /\ n \in 0 .. N
    BY <1>2
  <2>2. v[n - 1] = f[n - 1].pages /\ v[n] = f[n].pages
    BY <2>1
  <2> HIDE DEF v
  <2> QED BY <1>4, <1>6, <2>1, <2>2
<1>9. UndoSteps(v, lg, losers)
  <2> HIDE DEF v
  <2> QED BY <1>8 DEF UndoSteps, N
<1> QED BY <1>7, <1>9

----------------------------------------------------------------------------
(* Recovering: what Analyze finds.                                         *)

\* Redo starts early enough on every page, and a transaction that is neither
\* ended nor a loser is undone in the table file and not repeated.
Survey(A, L) ==
  /\ A \in [PageId -> 0 .. MaxLsn] /\ L \subseteq Xid /\ L \cap Ended = {}
  /\ \A p \in PageId : A[p] <= flushed_lsn_
  /\ \A n \in 1 .. flushed_lsn_ : log[n].page \in PageId /\ ~OnDisk(n) => InRange(A, n)
  /\ Settled(L, A, flushed_lsn_)

LEMMA AnalyzedDptOf ==
  ASSUME Typed, NEW p \in PageId
  PROVE  LET later == {n \in AfterCheckpoint : log[n].page = p} IN
         IF checkpoint.dpt[p] # NoLsn \/ later = {} THEN AnalyzedDpt[p] = checkpoint.dpt[p]
         ELSE AnalyzedDpt[p] \in later /\ \A k \in later : AnalyzedDpt[p] <= k
<1> DEFINE later == {n \in AfterCheckpoint : log[n].page = p}
           least == CHOOSE n \in later : \A k \in later : n <= k
<1>1. AnalyzedDpt[p] = IF checkpoint.dpt[p] # NoLsn \/ later = {} THEN checkpoint.dpt[p] ELSE least
  BY DEF AnalyzedDpt
<1>2. later # {} => \E n \in later : \A k \in later : n <= k
  <2>1. later \subseteq Nat
    BY DEF AfterCheckpoint, Typed
  <2> HIDE DEF later
  <2> QED BY <2>1, LeastExists
<1> HIDE DEF later
<1>3. later # {} => least \in later /\ \A k \in later : least <= k
  BY <1>2
<1> HIDE DEF least
<1> QED BY <1>1, <1>3 DEF later

LEMMA AnalyzedDptRange ==
  ASSUME Typed
  PROVE  AnalyzedDpt \in [PageId -> 0 .. MaxLsn]
<1>1. ASSUME NEW p \in PageId PROVE AnalyzedDpt[p] \in 0 .. MaxLsn
  <2> DEFINE later == {n \in AfterCheckpoint : log[n].page = p}
  <2>1. AnalyzedDpt[p] = checkpoint.dpt[p] \/ AnalyzedDpt[p] \in later
    BY AnalyzedDptOf
  <2>2. checkpoint.dpt[p] \in 0 .. MaxLsn
    BY DEF Typed
  <2>3. later \subseteq 0 .. MaxLsn
    BY HeapBounds DEF AfterCheckpoint, Typed
  <2> QED BY <2>1, <2>2, <2>3
<1>2. AnalyzedDpt = [p \in PageId |-> AnalyzedDpt[p]]
  BY DEF AnalyzedDpt
<1> QED BY <1>1, <1>2

LEMMA AnalyzedXidRange ==
  ASSUME Typed
  PROVE  AnalyzedXid \in 1 .. MaxXid + 1
<1> DEFINE xids == {log[n].xid : n \in AfterCheckpoint} \cup {control_xid - 1}
           m == CHOOSE x \in xids : \A y \in xids : y <= x
<1>1. MaxXid \in Nat /\ control_xid - 1 \in 0 .. MaxXid
  BY HeapBounds DEF Typed
<1>2. ASSUME NEW n \in AfterCheckpoint PROVE log[n].xid \in 0 .. MaxXid
  <2>1. n \in 1 .. Len(log)
    BY DEF AfterCheckpoint, Typed
  <2>2. log[n] \in RecordType
    BY <2>1 DEF Typed
  <2> QED BY <1>1, <2>2 DEF RecordType, Xid
<1>3. xids \subseteq 0 .. MaxXid /\ xids # {}
  BY <1>1, <1>2
<1> HIDE DEF xids
<1>4. \E x \in xids : \A y \in xids : y <= x
  BY <1>1, <1>3, GreatestExists
<1>5. m \in xids
  BY <1>4
<1>6. AnalyzedXid = 1 + m
  BY DEF AnalyzedXid, xids
<1> HIDE DEF m
<1> QED BY <1>1, <1>3, <1>5, <1>6

\* Up to the checkpoint, a record is in range if it was so for the checkpoint;
\* after it, always.
LEMMA AnalyzedRange ==
  ASSUME Typed, Exact, NEW n \in 1 .. flushed_lsn_, log[n].page \in PageId
  PROVE  /\ n <= checkpoint.pos => (InRange(AnalyzedDpt, n) <=> InRange(checkpoint.dpt, n))
         /\ n > checkpoint.pos => InRange(AnalyzedDpt, n)
<1> DEFINE p == log[n].page
           later == {k \in AfterCheckpoint : log[k].page = p}
           a == AnalyzedDpt[p]
           c == checkpoint.dpt[p]
           pos == checkpoint.pos
<1>1. IF c # NoLsn \/ later = {} THEN a = c ELSE a \in later /\ \A k \in later : a <= k
  BY AnalyzedDptOf
<1>2. c \in Nat /\ c <= pos /\ pos \in Nat /\ n \in Nat
  BY DEF Typed, Exact, RecoverInv, Coverage
<1>3. \A k \in later : k \in Nat /\ k > pos
  BY DEF AfterCheckpoint, Typed
<1>4. n > pos => n \in later
  BY <1>2 DEF AfterCheckpoint, Typed
<1>5. (InRange(AnalyzedDpt, n) <=> a # NoLsn /\ n >= a) /\ (InRange(checkpoint.dpt, n) <=> c # NoLsn /\ n >= c)
  BY DEF InRange
<1> HIDE DEF p, later, a, c, pos
<1>6. n <= pos => (InRange(AnalyzedDpt, n) <=> InRange(checkpoint.dpt, n))
  BY <1>1, <1>2, <1>3, <1>5 DEF NoLsn
<1>7. n > pos => InRange(AnalyzedDpt, n)
  BY <1>1, <1>2, <1>3, <1>4, <1>5 DEF NoLsn
<1> QED BY <1>6, <1>7 DEF pos

LEMMA AnalyzedWell ==
  ASSUME Typed, Exact
  PROVE  Survey(AnalyzedDpt, AnalyzedAtt)
<1> DEFINE A == AnalyzedDpt
           L == AnalyzedAtt
           F == flushed_lsn_
           pos == checkpoint.pos
<1>0. /\ pos \in Nat /\ F \in Nat /\ pos <= F /\ F <= Len(log) /\ Len(log) \in Nat /\ DOMAIN log = 1 .. Len(log)
      /\ \A n \in 1 .. F : n \in DOMAIN log /\ n \in Nat /\ (n > pos <=> n \in AfterCheckpoint)
      /\ \A n \in AfterCheckpoint : n \in 1 .. F /\ n > pos
  BY DEF Typed, AfterCheckpoint
<1>1. ASSUME NEW n \in DOMAIN log PROVE log[n].xid \in Xid
  <2>1. log[n] \in RecordType
    BY DEF Typed
  <2> QED BY <2>1 DEF RecordType
<1>2. A \in [PageId -> 0 .. MaxLsn] /\ L \subseteq Xid
  BY AnalyzedDptRange DEF AnalyzedAtt
<1>3. ASSUME NEW x \in L, x \in Ended PROVE FALSE
  <2>1. PICK n \in DOMAIN log : log[n].xid = x /\ IsEnd(log[n])
    BY <1>3 DEF Ended, Committed, RolledBack, OfType, IsEnd
  <2>2. n \in 1 .. F /\ (n <= pos => x \notin checkpoint.att)
    BY <1>0, <2>1 DEF Exact, RecoverInv, XactsExact
  <2>3. n \notin AfterCheckpoint
    BY <2>1 DEF AnalyzedAtt, IsEnd
  <2>4. n <= pos
    BY <1>0, <2>2, <2>3
  <2>5. PICK m \in AfterCheckpoint : log[m].xid = x
    BY <2>2, <2>4 DEF AnalyzedAtt
  <2>6. m \in DOMAIN log /\ n < m
    BY <1>0, <2>2, <2>4
  <2>7. InOrder(log[n], log[m])
    BY <2>6 DEF Exact, LogShape
  <2> QED BY <2>1, <2>5, <2>7 DEF InOrder
<1>4. ASSUME NEW p \in PageId PROVE A[p] <= F
  <2> DEFINE later == {n \in AfterCheckpoint : log[n].page = p}
  <2>1. A[p] = checkpoint.dpt[p] \/ A[p] \in later
    BY AnalyzedDptOf
  <2>2. checkpoint.dpt[p] <= pos /\ checkpoint.dpt[p] \in Nat
    BY DEF Typed, Exact, RecoverInv, Coverage
  <2>3. \A n \in later : n <= F
    BY <1>0
  <2> HIDE DEF later, A, F, pos
  <2> QED BY <1>0, <2>1, <2>2, <2>3
<1>5. ASSUME NEW n \in 1 .. F, log[n].page \in PageId, ~OnDisk(n) PROVE InRange(A, n)
  <2>1. n \in DOMAIN log /\ (n <= pos \/ n > pos)
    BY <1>0
  <2>2. n <= pos => InRange(checkpoint.dpt, n)
    BY <1>5, <2>1 DEF Exact, RecoverInv, Coverage
  <2> QED BY <1>5, <2>1, <2>2, AnalyzedRange
<1>6. ASSUME NEW n \in 1 .. F, log[n].page \in PageId, log[n].xid \notin L \cup Ended
      PROVE  ~InRange(A, n) /\ UndoneOnDisk(n)
  <2> DEFINE x == log[n].xid
  <2>1. n \in DOMAIN log /\ x \in Xid /\ (n <= pos \/ n > pos)
    BY <1>0, <1>1
  <2>2. ~\E m \in AfterCheckpoint : log[m].xid = x /\ log[m].type \in {"COMMIT", "ROLLBACK"}
    <3> SUFFICES ASSUME NEW m \in AfterCheckpoint, log[m].xid = x, log[m].type \in {"COMMIT", "ROLLBACK"} PROVE FALSE
      OBVIOUS
    <3>1. m \in DOMAIN log /\ IsEnd(log[m])
      BY <1>0 DEF IsEnd
    <3> QED BY <1>6, <3>1, EndsAreEnded
  <2>3. x \notin checkpoint.att /\ n \notin AfterCheckpoint
    BY <1>6, <2>1, <2>2 DEF AnalyzedAtt
  <2>4. n <= pos /\ n \in 1 .. pos
    BY <1>0, <2>1, <2>3
  <2>5. ~InRange(checkpoint.dpt, n) /\ UndoneOnDisk(n)
    BY <1>6, <2>3, <2>4 DEF Exact, RecoverInv, Settled
  <2> QED BY <1>6, <2>4, <2>5, AnalyzedRange
<1>7. Settled(L, A, F)
  BY <1>6 DEF Settled
<1> HIDE DEF A, L
<1> QED BY <1>2, <1>3, <1>4, <1>5, <1>7 DEF Survey, A, L

----------------------------------------------------------------------------
(* Recovering: the parts of a crash.                                       *)

\* What is left of the log.
DurableLog(lg) ==
  /\ lg \in Seq(RecordType) /\ Len(lg) = flushed_lsn_ /\ DOMAIN lg = 1 .. flushed_lsn_
  /\ \A n \in 1 .. flushed_lsn_ : lg[n] = log[n] /\ n \in DOMAIN log
  /\ LogShape(lg)
  /\ Committed(lg) = Committed(log) /\ RolledBack(lg) = RolledBack(log)

LEMMA DurableFacts ==
  ASSUME Typed, Exact
  PROVE  DurableLog(Durable)
<1> DEFINE lg == Durable
           F == flushed_lsn_
<1>1. log \in Seq(RecordType) /\ F \in 0 .. Len(log) /\ LogShape(log)
  BY DEF Typed, Exact
<1>2. /\ lg \in Seq(RecordType) /\ Len(lg) = F /\ DOMAIN lg = 1 .. F
      /\ \A n \in 1 .. F : lg[n] = log[n] /\ n \in DOMAIN log
      /\ LogShape(lg)
  BY <1>1, CutShape DEF Durable
<1>3. \A n \in DOMAIN log : IsEnd(log[n]) => n \in 1 .. F
  <2>1. DOMAIN log = 1 .. Len(log) /\ Len(log) \in Nat /\ F \in Nat
    BY DEF Typed
  <2> QED BY <2>1 DEF Exact, RecoverInv, XactsExact
<1> HIDE DEF lg
<1>4. ASSUME NEW x, NEW t \in {"COMMIT", "ROLLBACK"} PROVE OfType(lg, x, t) <=> OfType(log, x, t)
  BY <1>2, <1>3 DEF OfType, IsEnd
<1>5. Committed(lg) = Committed(log) /\ RolledBack(lg) = RolledBack(log)
  BY <1>4 DEF Committed, RolledBack
<1> QED BY <1>2, <1>5 DEF DurableLog, lg

\* The state of recovery, with and without the work of Undo.
LEMMA RecoveredState ==
  ASSUME Typed, Exact, NEW A, A = AnalyzedDpt, NEW R, R = RolledBack(Durable),
         NEW L, NEW losers, LoserOrder(losers, L)
  PROVE  Redo \in RecoveryStates(A, R) /\ Undo(Redo, losers) \in RecoveryStates(A, R)
<1>1. Redo \in RecoveryStates(A, R)
  BY RedoResult DEF Exact
<1>2. Durable \in Seq(RecordType) /\ LogShape(Durable)
  BY DurableFacts DEF DurableLog
<1> QED BY <1>1, <1>2, UndoResult

LEMMA CrashParts ==
  ASSUME Typed, Exact, Crash
  PROVE  \E losers :
    /\ LoserOrder(losers, AnalyzedAtt)
    /\ pages' = IF Broken(Redo) THEN Redo.pages ELSE Undo(Redo, losers).pages
    /\ gaps' = {} => (IF Broken(Redo) THEN Redo.gaps ELSE Undo(Redo, losers).gaps) = {} /\ CrashGaps(pages') = {}
    /\ log' = Durable /\ att_' = AnalyzedAtt /\ dpt_' = AnalyzedDpt /\ active' = {}
    /\ next_xid_' = AnalyzedXid /\ undone' = {}
    /\ UNCHANGED <<disk, flushed_lsn_, checkpoint, control_xid>>
<1>1. PICK losers \in Bijection(1 .. Cardinality(AnalyzedAtt), AnalyzedAtt) :
        LET state == IF Broken(Redo) THEN Redo ELSE Undo(Redo, losers) IN
        /\ pages' = state.pages
        /\ gaps' = state.gaps \cup CrashGaps(state.pages)
        /\ log' = Durable /\ att_' = AnalyzedAtt /\ dpt_' = AnalyzedDpt /\ active' = {}
        /\ next_xid_' = AnalyzedXid /\ undone' = {}
        /\ UNCHANGED <<disk, flushed_lsn_, checkpoint, control_xid>>
  BY Zenon DEF Crash
<1>2. LoserOrder(losers, AnalyzedAtt)
  <2>1. AnalyzedAtt \in SUBSET Xid
    BY DEF AnalyzedAtt
  <2> QED BY <2>1, LosersInOrder
<1> QED BY <1>1, <1>2

LEMMA CrashType ==
  ASSUME Typed, Exact, Crash, initial' = initial
  PROVE  Typed'
<1>1. PICK losers :
    /\ LoserOrder(losers, AnalyzedAtt)
    /\ pages' = IF Broken(Redo) THEN Redo.pages ELSE Undo(Redo, losers).pages
    /\ log' = Durable /\ att_' = AnalyzedAtt /\ dpt_' = AnalyzedDpt /\ active' = {}
    /\ next_xid_' = AnalyzedXid /\ undone' = {}
    /\ UNCHANGED <<disk, flushed_lsn_, checkpoint, control_xid>>
  BY CrashParts
<1>2. pages' \in PagesType
  <2>1. Redo \in RecoveryStates(AnalyzedDpt, RolledBack(Durable))
        /\ Undo(Redo, losers) \in RecoveryStates(AnalyzedDpt, RolledBack(Durable))
    BY <1>1, RecoveredState
  <2> QED BY <1>1, <2>1 DEF RecoveryStates
<1>3. log' \in Seq(RecordType) /\ Len(log') = flushed_lsn_
  BY <1>1, DurableFacts DEF DurableLog
<1>4. att_' \subseteq Xid /\ dpt_' \in [PageId -> 0 .. MaxLsn] /\ next_xid_' \in 1 .. MaxXid + 1
  BY <1>1, AnalyzedDptRange, AnalyzedXidRange DEF AnalyzedAtt
<1>5. flushed_lsn_ \in 0 .. Len(log') /\ Len(log') <= MaxLsn
  <2>1. flushed_lsn_ \in 0 .. flushed_lsn_ /\ flushed_lsn_ <= MaxLsn
    BY HeapBounds DEF Typed
  <2> QED BY <1>3, <2>1
<1>6. /\ disk \in PagesType
      /\ checkpoint \in [pos : 0 .. MaxLsn, att : SUBSET Xid, dpt : [PageId -> 0 .. MaxLsn]]
      /\ checkpoint.pos <= flushed_lsn_ /\ control_xid \in 1 .. MaxXid + 1 /\ initial \in 0 .. Capacity
  BY DEF Typed
<1> QED BY <1>1, <1>2, <1>3, <1>4, <1>5, <1>6 DEF Typed

\* Neither does a recovery that pushes out a page.
LEMMA CrashEvictingType ==
  ASSUME Typed, Exact, CrashEvicting, initial' = initial
  PROVE  Typed' /\ gaps' # {}
<1>1. PICK n \in 0 .. flushed_lsn_, p \in PageId :
    /\ pages' = RedoTo(n).pages /\ disk' = [disk EXCEPT ![p] = RedoTo(n).pages[p]]
    /\ gaps' = RedoTo(n).gaps \cup {"evicted"}
    /\ log' = Durable /\ att_' = AnalyzedAtt /\ dpt_' = [AnalyzedDpt EXCEPT ![p] = NoLsn]
    /\ active' = {} /\ next_xid_' = AnalyzedXid /\ undone' = {}
    /\ UNCHANGED <<flushed_lsn_, checkpoint, control_xid>>
  BY Zenon DEF CrashEvicting
<1>2. RedoTo(n) \in RecoveryStates(AnalyzedDpt, RolledBack(Durable))
  BY <1>1, RedoRun DEF Exact
<1>3. pages' \in PagesType /\ disk' \in PagesType
  <2>1. RedoTo(n).pages \in PagesType /\ disk \in PagesType
    BY <1>2 DEF RecoveryStates, Typed
  <2> QED BY <1>1, <2>1 DEF PagesType
<1>4. log' \in Seq(RecordType) /\ Len(log') = flushed_lsn_
  BY <1>1, DurableFacts DEF DurableLog
<1>5. att_' \subseteq Xid /\ dpt_' \in [PageId -> 0 .. MaxLsn] /\ next_xid_' \in 1 .. MaxXid + 1
  <2>1. AnalyzedDpt \in [PageId -> 0 .. MaxLsn] /\ NoLsn \in 0 .. MaxLsn
    BY AnalyzedDptRange, HeapBounds DEF NoLsn
  <2> QED BY <1>1, <2>1, AnalyzedXidRange DEF AnalyzedAtt
<1>6. flushed_lsn_ \in 0 .. Len(log') /\ Len(log') <= MaxLsn
  <2>1. flushed_lsn_ \in 0 .. flushed_lsn_ /\ flushed_lsn_ <= MaxLsn
    BY HeapBounds DEF Typed
  <2> QED BY <1>4, <2>1
<1>7. /\ checkpoint \in [pos : 0 .. MaxLsn, att : SUBSET Xid, dpt : [PageId -> 0 .. MaxLsn]]
      /\ checkpoint.pos <= flushed_lsn_ /\ control_xid \in 1 .. MaxXid + 1 /\ initial \in 0 .. Capacity
  BY DEF Typed
<1>8. gaps' # {}
  BY <1>1
<1> QED BY <1>1, <1>3, <1>4, <1>5, <1>6, <1>7, <1>8 DEF Typed

\* A recovery in which nothing went wrong: the pages u of redo and v of undo.
RedoSteps(A, u) ==
  /\ u \in [0 .. flushed_lsn_ -> PagesType]
  /\ u[0] = disk
  /\ \A n \in 1 .. flushed_lsn_ : RedoneWell(A, RolledBack(log), u[n - 1], u[n], n)

GoodLinks(pg) == \A p \in PageId : pg[p].next # NULL_PAGE_ID => pg[pg[p].next].exists

LEMMA CrashGapFree ==
  ASSUME NEW pg, CrashGaps(pg) = {}
  PROVE  undone = {} /\ GoodLinks(pg)
<1> DEFINE A == undone # {}
           B == \E p \in PageId : pg[p].next # NULL_PAGE_ID /\ ~pg[pg[p].next].exists
           a == "rollback lost"
           b == "link ahead of log"
           G(g) == CASE g = a -> A [] g = b -> B
           W == {g \in {a, b} : G(g)}
<1>1. CrashGaps(pg) = W
  BY Zenon DEF CrashGaps
<1>2. a # b
  OBVIOUS
<1>3. a \notin W /\ b \notin W
  BY <1>1, Zenon
<1> HIDE DEF a, b, A, B
<1>4. ~A /\ ~B
  BY <1>2, <1>3
<1> QED BY <1>4, Zenon DEF A, B, GoodLinks

LEMMA CrashRuns ==
  ASSUME Typed, Exact, Crash, gaps' = {}
  PROVE  /\ undone = {} /\ GoodLinks(pages')
         /\ \E u, v, losers :
              /\ LoserOrder(losers, AnalyzedAtt)
              /\ RedoSteps(AnalyzedDpt, u)
              /\ v \in [0 .. Len(losers) -> PagesType]
              /\ v[0] = u[flushed_lsn_] /\ UndoSteps(v, Durable, losers) /\ pages' = v[Len(losers)]
<1> DEFINE A == AnalyzedDpt
           R == RolledBack(Durable)
<1>1. PICK losers :
    /\ LoserOrder(losers, AnalyzedAtt)
    /\ pages' = IF Broken(Redo) THEN Redo.pages ELSE Undo(Redo, losers).pages
    /\ (IF Broken(Redo) THEN Redo.gaps ELSE Undo(Redo, losers).gaps) = {} /\ CrashGaps(pages') = {}
  BY CrashParts
<1>2. undone = {} /\ GoodLinks(pages')
  BY <1>1, CrashGapFree
<1>3. ~Broken(Redo)
  <2>1. Broken(Redo) => Redo.gaps # {}
    BY DEF Broken
  <2> QED BY <1>1, <2>1
<1>4. pages' = Undo(Redo, losers).pages /\ Undo(Redo, losers).gaps = {}
  BY <1>1, <1>3
<1>5. Redo \in RecoveryStates(A, R)
  BY <1>1, RecoveredState
<1>6. Durable \in Seq(RecordType) /\ LogShape(Durable) /\ R = RolledBack(log)
  BY DurableFacts DEF DurableLog
<1>7. Redo.gaps = {} /\ \E v \in [0 .. Len(losers) -> PagesType] :
        v[0] = Redo.pages /\ UndoSteps(v, Durable, losers) /\ Undo(Redo, losers).pages = v[Len(losers)]
  BY <1>1, <1>4, <1>5, <1>6, UndoResult
<1>8. PICK v \in [0 .. Len(losers) -> PagesType] :
        v[0] = Redo.pages /\ UndoSteps(v, Durable, losers) /\ pages' = v[Len(losers)]
  BY <1>4, <1>7
<1>9. PICK u \in [0 .. flushed_lsn_ -> PagesType] :
        /\ u[0] = disk
        /\ \A n \in 1 .. flushed_lsn_ : RedoneWell(A, R, u[n - 1], u[n], n)
        /\ Redo.pages = u[flushed_lsn_]
  BY <1>7, RedoResult DEF Exact
<1>10. RedoSteps(A, u)
  BY <1>6, <1>9 DEF RedoSteps
<1> QED BY <1>1, <1>2, <1>8, <1>9, <1>10

----------------------------------------------------------------------------
(* Recovering: the pages after the records K were redone.                  *)

Remade(A, p, K) == \E m \in K : IsNewPage(log[m]) /\ log[m].page = p /\ InRange(A, m)

RedonePages(A, pg, K) ==
  \A p \in PageId :
    /\ pg[p].lsn = IF Remade(A, p, K) THEN NoLsn ELSE disk[p].lsn
    /\ ~Remade(A, p, K) => \A i \in DOMAIN disk[p].slots : i \in DOMAIN pg[p].slots
    /\ pg[p].exists <=> disk[p].exists \/ \E m \in K : IsNewPage(log[m]) /\ log[m].page = p
    /\ ~pg[p].exists => pg[p] = NoPage

\* The slot is that of the same row as before the crash.
RowKept(p, i, s) ==
  /\ i \in DOMAIN pages[p].slots
  /\ s.row = pages[p].slots[i].row /\ s.xmin = pages[p].slots[i].xmin
  /\ s.row <= flushed_lsn_

RedoneRows(pg, K) ==
  /\ \A p \in PageId : \A i \in DOMAIN pg[p].slots : RowKept(p, i, pg[p].slots[i])
  /\ \A m \in K : IsInsert(log[m]) => log[m].slot \in DOMAIN pg[log[m].page].slots

RedoneLinks(pg, K) ==
  /\ Forward(pg)
  /\ \A m \in K : IsNewPage(log[m]) /\ log[m].prev # NULL_PAGE_ID =>
       pg[log[m].prev].next = IF log[m].xid \in RolledBack(log) THEN disk[log[m].prev].next ELSE log[m].page

\* A page that was not made anew has the marks of the table file, and those of
\* repeated deletions.
OldMarks(A, pg, K) ==
  \A p \in PageId : ~Remade(A, p, K) =>
    \A i \in DOMAIN disk[p].slots :
      \/ pg[p].slots[i].xmax = disk[p].slots[i].xmax
      \/ \E j \in K : IsDelete(log[j]) /\ log[j].page = p /\ InRange(A, j) /\ j > disk[p].lsn

RedoneMarkOf(L, p, i, s, K) ==
  IF s.xmin \in Committed(log) \cup {NULL_XID}
  THEN /\ \/ s.xmax = NULL_XID
          \/ s.xmax \in Committed(log) \cup L /\ DeletesIn(log, 1 .. flushed_lsn_, s.xmax, p, i)
       /\ \A x \in Committed(log) : DeletesIn(log, K, x, p, i) => s.xmax = x
  ELSE s.xmin \notin L => s.xmax = s.xmin

RedoneMarks(L, pg, K) ==
  \A p \in PageId : \A i \in DOMAIN pg[p].slots : RedoneMarkOf(L, p, i, pg[p].slots[i], K)

RedoneInv(A, L, pg, K) ==
  RedonePages(A, pg, K) /\ RedoneRows(pg, K) /\ RedoneLinks(pg, K) /\ OldMarks(A, pg, K) /\ RedoneMarks(L, pg, K)

\* n is the record after K.
NextRecord(n, K) ==
  /\ n \in 1 .. flushed_lsn_ /\ n \in DOMAIN log /\ n \in Nat
  /\ \A m \in K : m \in 1 .. flushed_lsn_ /\ m \in DOMAIN log /\ m \in Nat /\ m < n
  /\ \A m \in DOMAIN log : m < n => m \in K

LEMMA NextFacts ==
  ASSUME Typed, LogShape(log), NEW n, NEW K, NextRecord(n, K)
  PROVE  /\ log[n] \in RecordType /\ RecordShape(log[n])
         /\ \A m \in K : InOrder(log[m], log[n]) /\ RecordShape(log[m]) /\ log[m] \in RecordType
         /\ log[n].xid \in Xid /\ log[n].slot \in 0 .. Capacity
<1>1. n \in DOMAIN log /\ \A m \in K : m \in DOMAIN log /\ m < n
  BY DEF NextRecord
<1>2. \A m \in DOMAIN log : log[m] \in RecordType
  BY DEF Typed
<1> QED BY <1>1, <1>2 DEF LogShape, RecordType

\* A record of a row that is not repeated is in the table file, and the page
\* is still that of the file.
LEMMA NotAgain ==
  ASSUME Typed, Exact, NEW A, NEW L, Survey(A, L), NEW n, NEW K, NextRecord(n, K),
         NEW pg \in PagesType, RedonePages(A, pg, K), log[n].page \in PageId, ~Again(A, pg, n)
  PROVE  /\ OnDisk(n)
         /\ ~IsNewPage(log[n]) => /\ ~Remade(A, log[n].page, K)
                                  /\ \A j \in K : log[j].page = log[n].page => ~(InRange(A, j) /\ j > disk[log[n].page].lsn)
<1> DEFINE p == log[n].page
<1>1. /\ n \in 1 .. flushed_lsn_ /\ n \in DOMAIN log /\ n \in Nat
      /\ \A m \in K : m \in Nat /\ m < n
  BY DEF NextRecord
<1>2. A[p] \in Nat /\ (~OnDisk(n) => InRange(A, n) /\ n > disk[p].lsn)
  BY <1>1 DEF Survey, Exact, RecoverInv, Coverage
<1>3. ASSUME NEW j \in K, log[j].page = p, InRange(A, j) PROVE InRange(A, n)
  BY <1>1, <1>2, <1>3 DEF InRange
<1>4. Remade(A, p, K) => InRange(A, n)
  BY <1>3 DEF Remade
<1>5. pg[p].lsn = IF Remade(A, p, K) THEN NoLsn ELSE disk[p].lsn
  BY DEF RedonePages
<1>6. disk[p].lsn \in Nat
  BY PageFacts DEF Typed
<1>7. n > NoLsn
  BY <1>1 DEF NoLsn
<1>8. ~(InRange(A, n) /\ (IsNewPage(log[n]) \/ n > pg[p].lsn))
  BY DEF Again
<1> HIDE DEF p
<1>9. OnDisk(n)
  BY <1>2, <1>5, <1>7, <1>8
<1>10. ASSUME ~IsNewPage(log[n]) PROVE ~Remade(A, p, K)
  BY <1>4, <1>5, <1>7, <1>8, <1>10
<1>11. ASSUME ~IsNewPage(log[n]), NEW j \in K, log[j].page = p, InRange(A, j), j > disk[p].lsn PROVE FALSE
  <2>1. n > disk[p].lsn
    BY <1>1, <1>6, <1>11
  <2>2. InRange(A, n)
    BY <1>3, <1>11
  <2>3. pg[p].lsn = disk[p].lsn
    BY <1>5, <1>10, <1>11
  <2> QED BY <1>8, <2>1, <2>2, <2>3
<1> QED BY <1>9, <1>10, <1>11 DEF p

\* An inserted row gets the slot its record names.
LEMMA SlotInOrder ==
  ASSUME Typed, Exact, NEW A, NEW n, NEW K, NextRecord(n, K), NEW pg \in PagesType,
         RedonePages(A, pg, K), RedoneRows(pg, K), IsInsert(log[n]), Len(pg[log[n].page].slots) < log[n].slot
  PROVE  Len(pg[log[n].page].slots) + 1 = log[n].slot
<1> DEFINE p == log[n].page
           k == log[n].slot
           l == Len(pg[p].slots)
<1>0. l < k
  OBVIOUS
<1>1. p \in PageId /\ k \in 1 .. Capacity /\ n \in DOMAIN log /\ Capacity \in Nat
  <2>1. RecordShape(log[n]) /\ k \in 0 .. Capacity /\ n \in DOMAIN log /\ Capacity \in Nat
    BY NextFacts, HeapBounds DEF Exact, NextRecord
  <2> QED BY <2>1 DEF RecordShape
<1>2. l \in Nat /\ DOMAIN pg[p].slots = 1 .. l
  BY <1>1, PageFacts
<1>3. k \in DOMAIN pages[p].slots
  BY <1>1 DEF Exact, RowsInv, InsertsPresent
<1>4. DOMAIN pages[p].slots = 1 .. Len(pages[p].slots) /\ Len(pages[p].slots) \in Nat
  BY <1>1, PageFacts DEF Typed
<1> HIDE DEF l, k
<1>5. ASSUME l + 1 < k PROVE FALSE
  <2> DEFINE i == l + 1
  <2>1. i \in Nat /\ i \in DOMAIN pages[p].slots /\ i \notin DOMAIN pg[p].slots /\ i < k
    BY <1>1, <1>2, <1>3, <1>4, <1>5
  <2> HIDE DEF i
  <2> DEFINE s == pages[p].slots[i]
  <2>2. RowOf(p, i, s)
    BY <1>1, <2>1 DEF Exact, RowsInv, RowsExact
  <2>3. CASE s.row \in DOMAIN log /\ IsInsert(log[s.row]) /\ log[s.row].page = p /\ log[s.row].slot = i
    <3> DEFINE m == s.row
    <3>1. m \in Nat /\ n \in Nat /\ m # n
      <4>1. DOMAIN log \subseteq Nat
        BY DEF Typed
      <4>2. i # log[n].slot
        BY <1>1, <2>1 DEF k
      <4> QED BY <1>1, <2>3, <4>1, <4>2
    <3>2. ~(n < m)
      <4> SUFFICES ASSUME n < m PROVE FALSE
        OBVIOUS
      <4>1. InOrder(log[n], log[m])
        BY <1>1, <2>3 DEF Exact, LogShape
      <4>2. log[n].slot < i
        BY <2>3, <4>1 DEF InOrder
      <4> QED BY <1>1, <2>1, <4>2 DEF k
    <3>3. m < n
      BY <3>1, <3>2
    <3>4. m \in K
      BY <2>3, <3>3 DEF NextRecord
    <3> QED BY <2>1, <2>3, <3>4 DEF RedoneRows
  <2>4. CASE p = 0 /\ i <= initial
    <3>1. initial > 0 /\ i \in 1 .. initial
      <4>1. initial \in Nat /\ i \in 1 .. Len(pages[p].slots)
        BY <1>4, <2>1 DEF Typed
      <4> QED BY <2>4, <4>1
    <3>2. ~Opened(0) /\ i \in DOMAIN disk[0].slots
      BY <3>1 DEF Exact, PagesExact, RecoverInv, DiskRows
    <3>3. ~Remade(A, 0, K)
      BY <3>2 DEF Remade, Opened, NextRecord
    <3> QED BY <1>1, <2>1, <2>4, <3>2, <3>3 DEF RedonePages
  <2> QED BY <2>2, <2>3, <2>4 DEF RowOf
<1>6. l + 1 = k
  BY <1>0, <1>1, <1>2, <1>5
<1> QED BY <1>6 DEF l, k

\* What redo of record n may do to the pages.
RedoKinds(A, pg, q, n) ==
  LET r == log[n] IN
  \/ /\ r.page \notin PageId /\ q = pg /\ ~IsNewPage(r) /\ ~IsInsert(r) /\ ~IsDelete(r)
  \/ /\ r.page \in PageId /\ q = pg /\ ~Again(A, pg, n)
     /\ IsNewPage(r) /\ r.prev # NULL_PAGE_ID =>
          pg[r.prev].next = IF r.xid \in RolledBack(log) THEN disk[r.prev].next ELSE r.page
  \/ /\ r.page \in PageId /\ Again(A, pg, n) /\ r.xid \notin RolledBack(log)
     /\ pg[Needed(r)].exists /\ ~Linked(pg, r)
     /\ \/ IsNewPage(r) /\ ~IsInsert(r) /\ ~IsDelete(r) /\ Made(pg, q, r)
        \/ IsInsert(r) /\ ~IsNewPage(r) /\ ~IsDelete(r) /\ Len(pg[r.page].slots) < r.slot /\ Added(pg, q, r, n)
        \/ IsDelete(r) /\ ~IsNewPage(r) /\ ~IsInsert(r) /\ Marked(pg, q, r)

LEMMA RedoneKinds ==
  ASSUME Typed, LogShape(log), NEW A, NEW n, NEW K, NextRecord(n, K), NEW pg, NEW q,
         RedoneWell(A, RolledBack(log), pg, q, n)
  PROVE  RedoKinds(A, pg, q, n)
<1> DEFINE r == log[n]
<1>1. RecordShape(r)
  BY NextFacts
<1>2. NULL_PAGE_ID \notin PageId
  BY HeapBounds DEF PageId, NULL_PAGE_ID
<1>3. /\ IsNewPage(r) \/ IsInsert(r) \/ IsDelete(r) => r.page \in PageId
      /\ r.page \in PageId => IsNewPage(r) \/ IsInsert(r) \/ IsDelete(r)
  BY <1>1, HeapBounds DEF RecordShape, PageId
<1>4. /\ ~(IsNewPage(r) /\ IsInsert(r)) /\ ~(IsNewPage(r) /\ IsDelete(r)) /\ ~(IsInsert(r) /\ IsDelete(r))
  BY DEF IsNewPage, IsInsert, IsDelete
<1>5. CASE Skipped(A, RolledBack(log), pg, q, n)
  BY <1>3, <1>5 DEF Skipped, RedoKinds
<1>6. CASE Repeated(A, RolledBack(log), pg, q, n)
  BY <1>3, <1>4, <1>6 DEF Repeated, RedoKinds
<1> QED BY <1>5, <1>6 DEF RedoneWell

LEMMA RemadeNext ==
  ASSUME NEW A, NEW p, NEW n, NEW K
  PROVE  Remade(A, p, K \cup {n}) <=> Remade(A, p, K) \/ (IsNewPage(log[n]) /\ log[n].page = p /\ InRange(A, n))
  BY DEF Remade

LEMMA PagesRedone ==
  ASSUME Typed, Exact, NEW A, NEW L, Survey(A, L), NEW n, NEW K, NextRecord(n, K), NEW pg \in PagesType, NEW q,
         RedoKinds(A, pg, q, n), RedonePages(A, pg, K), RedoneRows(pg, K)
  PROVE  RedonePages(A, q, K \cup {n})
<1> DEFINE r == log[n]
           J == K \cup {n}
           Opens(p) == IsNewPage(r) /\ r.page = p
<1>0. RecordShape(r) /\ NULL_PAGE_ID \notin PageId /\ r \in RecordType
  BY NextFacts, HeapBounds DEF PageId, NULL_PAGE_ID, Exact
<1>1. ASSUME NEW p \in PageId
      PROVE  /\ Remade(A, p, J) <=> Remade(A, p, K) \/ (Opens(p) /\ InRange(A, n))
             /\ (\E m \in J : IsNewPage(log[m]) /\ log[m].page = p) <=>
                  (\E m \in K : IsNewPage(log[m]) /\ log[m].page = p) \/ Opens(p)
  BY RemadeNext
<1>2. ASSUME NEW p \in PageId
      PROVE  /\ pg[p].lsn = IF Remade(A, p, K) THEN NoLsn ELSE disk[p].lsn
             /\ ~Remade(A, p, K) => \A i \in DOMAIN disk[p].slots : i \in DOMAIN pg[p].slots
             /\ pg[p].exists <=> disk[p].exists \/ \E m \in K : IsNewPage(log[m]) /\ log[m].page = p
             /\ ~pg[p].exists => pg[p] = NoPage
  BY DEF RedonePages
<1> DEFINE Ok(p) ==
             /\ q[p].lsn = IF Remade(A, p, J) THEN NoLsn ELSE disk[p].lsn
             /\ ~Remade(A, p, J) => \A i \in DOMAIN disk[p].slots : i \in DOMAIN q[p].slots
             /\ q[p].exists <=> disk[p].exists \/ \E m \in J : IsNewPage(log[m]) /\ log[m].page = p
             /\ ~q[p].exists => q[p] = NoPage
<1>3. ASSUME NEW p \in PageId, ~Opens(p), q[p].lsn = pg[p].lsn, q[p].exists = pg[p].exists,
             \A i \in DOMAIN pg[p].slots : i \in DOMAIN q[p].slots, q[p] = pg[p] \/ pg[p].exists
      PROVE  Ok(p)
  BY <1>1, <1>2, <1>3
<1>4. SUFFICES ASSUME NEW p \in PageId PROVE Ok(p)
  BY DEF RedonePages
<1>5. CASE q = pg /\ ~Opens(p)
  BY <1>3, <1>5
<1>6. CASE q = pg /\ Opens(p) /\ r.page \in PageId /\ ~Again(A, pg, n)
  <2>1. r.page \in PageId /\ ~Again(A, pg, n)
    BY <1>6
  <2>2. ~InRange(A, n)
    BY <1>6, <2>1 DEF Again
  <2>3. OnDisk(n)
    BY <2>1, NotAgain
  <2>4. disk[p].exists
    BY <1>6, <2>3 DEF OnDisk
  <2> QED BY <1>1, <1>2, <1>6, <2>2, <2>4
<1>7. CASE Made(pg, q, r) /\ IsNewPage(r) /\ Again(A, pg, n) /\ r.page \in PageId /\ pg[Needed(r)].exists
  <2>1. CASE Opens(p)
    <3>1. Remade(A, p, J)
      BY <1>1, <1>7, <2>1 DEF Again
    <3>2. q[p].lsn = NoLsn /\ q[p].exists
      BY <1>7, <2>1 DEF Made
    <3> QED BY <1>1, <2>1, <3>1, <3>2
  <2>2. CASE ~Opens(p)
    <3>1. p \in PageId \ {r.page}
      BY <1>7, <2>2
    <3>2. /\ q[p].lsn = pg[p].lsn /\ q[p].exists = pg[p].exists /\ q[p].slots = pg[p].slots
          /\ p # r.prev => q[p] = pg[p]
      BY <1>7, <3>1 DEF Made
    <3>3. p = r.prev => pg[p].exists
      BY <1>0, <1>7 DEF Needed, IsNewPage
    <3> QED BY <1>3, <2>2, <3>2, <3>3
  <2> QED BY <2>1, <2>2
<1>8. CASE Added(pg, q, r, n) /\ ~IsNewPage(r) /\ r.page \in PageId /\ pg[Needed(r)].exists
  <2>1. CASE p = r.page
    <3>1. pg[p].exists
      BY <1>8, <2>1 DEF Needed, IsNewPage
    <3>2. Len(pg[p].slots) \in Nat /\ DOMAIN pg[p].slots = 1 .. Len(pg[p].slots)
      BY PageFacts
    <3>3. q[p].lsn = pg[p].lsn /\ q[p].exists = pg[p].exists /\ DOMAIN q[p].slots = 1 .. Len(pg[p].slots) + 1
      BY <1>8, <2>1 DEF Added
    <3>4. \A i \in DOMAIN pg[p].slots : i \in DOMAIN q[p].slots
      BY <3>2, <3>3
    <3> QED BY <1>3, <1>8, <3>1, <3>3, <3>4
  <2>2. CASE p # r.page
    <3>1. q[p] = pg[p]
      BY <1>8, <2>2 DEF Added
    <3> QED BY <1>3, <1>8, <3>1
  <2> QED BY <2>1, <2>2
<1>9. CASE Marked(pg, q, r) /\ IsDelete(r) /\ ~IsNewPage(r) /\ r.page \in PageId /\ pg[Needed(r)].exists
  <2>1. q[p].lsn = pg[p].lsn /\ q[p].exists = pg[p].exists /\ DOMAIN q[p].slots = DOMAIN pg[p].slots
    BY <1>9 DEF Marked, SameRows
  <2>2. CASE pg[p].exists
    BY <1>3, <1>9, <2>1, <2>2
  <2>3. CASE ~pg[p].exists
    <3>1. pg[p] = NoPage /\ q \in PagesType /\ q[p] \in PageType /\ pg[p] \in PageType
      BY <1>2, <1>9, <2>3, PageFacts DEF Marked
    <3>2. DOMAIN pg[p].slots = {}
      BY <3>1 DEF NoPage
    <3>3. q[p].next = pg[p].next
      BY <1>9 DEF Marked
    <3>4. q[p].slots = pg[p].slots
      <4>1. q[p].slots \in Seq(SlotType) /\ pg[p].slots \in Seq(SlotType) /\ DOMAIN q[p].slots = {}
        BY <2>1, <3>1, <3>2 DEF PageType
      <4> QED BY <3>2, <4>1
    <3>5. q[p] = pg[p]
      BY <2>1, <3>1, <3>3, <3>4 DEF PageType
    <3> QED BY <1>3, <1>9, <2>1, <3>5
  <2> QED BY <2>2, <2>3
<1> QED BY <1>5, <1>6, <1>7, <1>8, <1>9 DEF RedoKinds

LEMMA RowsRedone ==
  ASSUME Typed, Exact, NEW A, NEW L, Survey(A, L), NEW n, NEW K, NextRecord(n, K), NEW pg \in PagesType, NEW q,
         RedoKinds(A, pg, q, n), RedonePages(A, pg, K), RedoneRows(pg, K)
  PROVE  RedoneRows(q, K \cup {n})
<1> DEFINE r == log[n]
<1>0. /\ RecordShape(r) /\ n \in DOMAIN log /\ n \in 1 .. flushed_lsn_ /\ n <= flushed_lsn_
      /\ \A m \in K : m \in DOMAIN log /\ InOrder(log[m], r) /\ RecordShape(log[m])
  <2>1. RecordShape(r) /\ \A m \in K : InOrder(log[m], r) /\ RecordShape(log[m])
    BY NextFacts DEF Exact
  <2>2. n \in DOMAIN log /\ n \in 1 .. flushed_lsn_ /\ \A m \in K : m \in DOMAIN log
    BY DEF NextRecord
  <2>3. n <= flushed_lsn_
    BY <2>2 DEF Typed
  <2> QED BY <2>1, <2>2, <2>3
<1>1. \A p \in PageId : \A i \in DOMAIN pg[p].slots : RowKept(p, i, pg[p].slots[i])
  BY DEF RedoneRows
<1>2. \A m \in K : IsInsert(log[m]) => log[m].slot \in DOMAIN pg[log[m].page].slots /\ log[m].page \in PageId
  BY <1>0 DEF RedoneRows, RecordShape
<1>3. CASE q = pg
  <2>1. ASSUME IsInsert(r) PROVE r.slot \in DOMAIN pg[r.page].slots
    <3>1. r.page \in PageId /\ ~IsNewPage(r)
      BY <1>0, <2>1 DEF RecordShape, IsInsert, IsNewPage
    <3>2. ~Again(A, pg, n)
      <4>1. ASSUME Added(pg, q, r, n) PROVE FALSE
        <5> DEFINE k == Len(pg[r.page].slots)
        <5>1. k \in Nat /\ DOMAIN pg[r.page].slots = 1 .. k /\ DOMAIN q[r.page].slots = 1 .. k + 1
          BY <3>1, <4>1, PageFacts DEF Added
        <5> HIDE DEF k
        <5>2. k + 1 \in 1 .. k + 1 /\ k + 1 \notin 1 .. k
          BY <5>1
        <5> QED BY <1>3, <5>1, <5>2
      <4> QED BY <2>1, <3>1, <4>1 DEF RedoKinds
    <3>3. OnDisk(n) /\ ~Remade(A, r.page, K)
      BY <3>1, <3>2, NotAgain
    <3>4. r.slot \in DOMAIN disk[r.page].slots
      BY <2>1, <3>3 DEF OnDisk
    <3> QED BY <3>1, <3>3, <3>4 DEF RedonePages
  <2> QED BY <1>1, <1>2, <1>3, <2>1 DEF RedoneRows
<1>4. CASE Made(pg, q, r) /\ IsNewPage(r) /\ ~IsInsert(r) /\ r.page \in PageId
  <2>1. ASSUME NEW p \in PageId, NEW i \in DOMAIN q[p].slots PROVE RowKept(p, i, q[p].slots[i])
    <3>1. p # r.page
      BY <1>4, <2>1 DEF Made
    <3>2. q[p].slots = pg[p].slots
      BY <1>4, <3>1 DEF Made
    <3> QED BY <1>1, <2>1, <3>2
  <2>2. ASSUME NEW m \in K, IsInsert(log[m]) PROVE log[m].slot \in DOMAIN q[log[m].page].slots
    <3>1. log[m].page # r.page /\ log[m].page \in PageId
      BY <1>0, <1>2, <1>4, <2>2 DEF InOrder
    <3>2. q[log[m].page].slots = pg[log[m].page].slots
      BY <1>4, <3>1 DEF Made
    <3> QED BY <1>2, <2>2, <3>2
  <2> QED BY <1>4, <2>1, <2>2 DEF RedoneRows
<1>5. CASE Added(pg, q, r, n) /\ IsInsert(r) /\ ~IsNewPage(r) /\ r.page \in PageId /\ Len(pg[r.page].slots) < r.slot
  <2> DEFINE o == r.page
             k == Len(pg[o].slots)
  <2>1. /\ k \in Nat /\ DOMAIN pg[o].slots = 1 .. k /\ DOMAIN q[o].slots = 1 .. k + 1
        /\ \A i \in 1 .. k : q[o].slots[i] = pg[o].slots[i]
        /\ q[o].slots[k + 1] = Slot(n, r.xid)
        /\ \A p \in PageId \ {o} : q[p] = pg[p]
    BY <1>5, PageFacts DEF Added
  <2>2. k + 1 = r.slot
    BY <1>5, SlotInOrder
  <2> HIDE DEF k
  <2>3. RowKept(o, k + 1, Slot(n, r.xid))
    <3>1. r.slot \in DOMAIN pages[o].slots /\ pages[o].slots[r.slot].row = n
      BY <1>0, <1>5 DEF Exact, RowsInv, InsertsPresent
    <3>2. RowOf(o, r.slot, pages[o].slots[r.slot])
      BY <1>5, <3>1 DEF Exact, RowsInv, RowsExact
    <3>3. r.slot \in Nat /\ n \in Nat /\ n > 0
      BY <1>0, <2>1, <2>2 DEF Typed
    <3>4. pages[o].slots[r.slot].xmin = r.xid
      BY <1>0, <3>1, <3>2, <3>3 DEF RowOf
    <3>5. Slot(n, r.xid).row = n /\ Slot(n, r.xid).xmin = r.xid
      BY DEF Slot
    <3> QED BY <1>0, <2>2, <3>1, <3>4, <3>5 DEF RowKept
  <2>4. \A i \in 1 .. k + 1 : i \in 1 .. k \/ i = k + 1
    BY <2>1
  <2>5. ASSUME NEW p \in PageId, NEW i \in DOMAIN q[p].slots PROVE RowKept(p, i, q[p].slots[i])
    <3>1. CASE p = o
      <4>1. i \in 1 .. k \/ i = k + 1
        BY <2>1, <2>4, <2>5, <3>1
      <4> QED BY <1>1, <2>1, <2>3, <3>1, <4>1
    <3>2. CASE p # o
      BY <1>1, <2>1, <2>5, <3>2
    <3> QED BY <3>1, <3>2
  <2>6. ASSUME NEW m \in K \cup {n}, IsInsert(log[m]) PROVE log[m].slot \in DOMAIN q[log[m].page].slots
    <3>1. CASE m = n
      <4>1. k + 1 \in 1 .. k + 1
        BY <2>1
      <4> QED BY <2>1, <2>2, <3>1, <4>1
    <3>2. CASE m \in K
      <4>1. log[m].slot \in DOMAIN pg[log[m].page].slots /\ log[m].page \in PageId
        BY <1>2, <2>6, <3>2
      <4>2. CASE log[m].page = o
        <5>1. \A i \in 1 .. k : i \in 1 .. k + 1
          BY <2>1
        <5> QED BY <2>1, <4>1, <4>2, <5>1
      <4>3. CASE log[m].page # o
        BY <2>1, <4>1, <4>3
      <4> QED BY <4>2, <4>3
    <3> QED BY <3>1, <3>2
  <2> QED BY <2>5, <2>6 DEF RedoneRows
<1>6. CASE Marked(pg, q, r) /\ ~IsInsert(r)
  <2>1. \A p \in PageId : DOMAIN q[p].slots = DOMAIN pg[p].slots /\ \A i \in DOMAIN pg[p].slots :
          q[p].slots[i].row = pg[p].slots[i].row /\ q[p].slots[i].xmin = pg[p].slots[i].xmin
    BY <1>6 DEF Marked, SameRows
  <2>2. ASSUME NEW p \in PageId, NEW i \in DOMAIN q[p].slots PROVE RowKept(p, i, q[p].slots[i])
    <3>1. i \in DOMAIN pg[p].slots
      BY <2>1
    <3>2. RowKept(p, i, pg[p].slots[i])
      BY <1>1, <3>1
    <3> QED BY <2>1, <3>1, <3>2 DEF RowKept
  <2> QED BY <1>2, <1>6, <2>1, <2>2 DEF RedoneRows
<1> QED BY <1>3, <1>4, <1>5, <1>6 DEF RedoKinds

LEMMA LinksRedone ==
  ASSUME Typed, Exact, NEW A, NEW n, NEW K, NextRecord(n, K), NEW pg \in PagesType, NEW q,
         RedoKinds(A, pg, q, n), RedoneLinks(pg, K)
  PROVE  RedoneLinks(q, K \cup {n})
<1> DEFINE r == log[n]
           R == RolledBack(log)
           Link(m) == IF log[m].xid \in R THEN disk[log[m].prev].next ELSE log[m].page
<1>0. /\ RecordShape(r) /\ \A m \in K : InOrder(log[m], r) /\ RecordShape(log[m])
  BY NextFacts DEF Exact
<1>1. Forward(pg) /\ \A m \in K : IsNewPage(log[m]) /\ log[m].prev # NULL_PAGE_ID => pg[log[m].prev].next = Link(m)
  BY DEF RedoneLinks
<1>2. MaxPage \in Nat /\ PageId = 0 .. MaxPage /\ NULL_PAGE_ID = MaxPage + 1
  BY HeapBounds DEF PageId, NULL_PAGE_ID
<1>3. ASSUME NEW m \in K \cup {n}, IsNewPage(log[m]), log[m].prev # NULL_PAGE_ID
      PROVE  log[m].page \in 1 .. MaxPage /\ log[m].prev = log[m].page - 1 /\ log[m].prev \in PageId
  BY <1>0, <1>2, <1>3 DEF RecordShape
<1>4. SUFFICES Forward(q) /\ \A m \in K \cup {n} : IsNewPage(log[m]) /\ log[m].prev # NULL_PAGE_ID =>
                               q[log[m].prev].next = Link(m)
  BY DEF RedoneLinks
<1> HIDE DEF Link
<1>5. CASE (\A p \in PageId : q[p].next = pg[p].next) /\ ~IsNewPage(r)
  <2>1. Forward(q)
    BY <1>1, <1>5 DEF Forward
  <2> QED BY <1>1, <1>3, <1>5, <2>1
<1>6. CASE q = pg /\ IsNewPage(r) /\ (r.prev # NULL_PAGE_ID => pg[r.prev].next = Link(n))
  BY <1>1, <1>6
<1>7. CASE Made(pg, q, r) /\ IsNewPage(r) /\ r.page \in PageId /\ r.xid \notin R /\ ~Linked(pg, r)
  <2>1. \A o \in PageId \ {r.page} : q[o].next = IF o = r.prev THEN r.page ELSE pg[o].next
    BY <1>7 DEF Made
  <2>2. q[r.page].next = IF r.prev = NULL_PAGE_ID THEN NULL_PAGE_ID ELSE pg[r.prev].next
    BY <1>7 DEF Made
  <2>3. r.prev # NULL_PAGE_ID => pg[r.prev].next # r.page
    BY <1>7 DEF Linked, IsNewPage
  <2>4. r.prev # NULL_PAGE_ID => q[r.prev].next = r.page /\ Link(n) = r.page
    <3> SUFFICES ASSUME r.prev # NULL_PAGE_ID PROVE q[r.prev].next = r.page /\ Link(n) = r.page
      OBVIOUS
    <3>1. r.page \in 1 .. MaxPage /\ r.prev = r.page - 1 /\ r.prev \in PageId
      BY <1>3, <1>7
    <3>2. r.prev \in PageId \ {r.page}
      BY <3>1
    <3> QED BY <1>7, <2>1, <3>2 DEF Link
  <2>5. ASSUME NEW o \in PageId PROVE q[o].next \in o + 1 .. NULL_PAGE_ID
    <3>1. pg[o].next \in o + 1 .. NULL_PAGE_ID
      BY <1>1 DEF Forward
    <3>2. CASE o = r.page /\ r.prev = NULL_PAGE_ID
      BY <1>2, <2>2, <3>2
    <3>3. CASE o = r.page /\ r.prev # NULL_PAGE_ID
      <4>1. r.page \in 1 .. MaxPage /\ r.prev = r.page - 1 /\ r.prev \in PageId
        BY <1>3, <1>7, <3>3
      <4>2. pg[r.prev].next \in r.prev + 1 .. NULL_PAGE_ID /\ pg[r.prev].next # r.page /\ q[o].next = pg[r.prev].next
        BY <1>1, <2>2, <2>3, <3>3, <4>1 DEF Forward
      <4>3. PICK a \in 1 .. MaxPage : a = r.page /\ r.prev = a - 1 /\ o = a
        BY <3>3, <4>1
      <4>4. PICK b : b = q[o].next /\ b \in (a - 1) + 1 .. NULL_PAGE_ID /\ b # a
        BY <4>2, <4>3
      <4>5. b \in a + 1 .. NULL_PAGE_ID
        <5>1. a \in Nat /\ (a - 1) + 1 = a
          BY <1>2
        <5>2. b \in a .. NULL_PAGE_ID /\ b # a /\ NULL_PAGE_ID \in Nat
          BY <1>2, <4>4, <5>1
        <5> QED BY <5>1, <5>2
      <4> QED BY <4>3, <4>4, <4>5
    <3>4. CASE o = r.prev /\ o # r.page
      <4>1. r.prev # NULL_PAGE_ID
        BY <1>2, <3>4
      <4>2. r.page \in 1 .. MaxPage /\ r.prev = r.page - 1
        BY <1>3, <1>7, <4>1
      <4> QED BY <1>2, <2>4, <3>4, <4>1, <4>2
    <3>5. CASE o # r.prev /\ o # r.page
      BY <2>1, <3>1, <3>5
    <3> QED BY <3>2, <3>3, <3>4, <3>5
  <2>6. ASSUME NEW m \in K, IsNewPage(log[m]), log[m].prev # NULL_PAGE_ID PROVE q[log[m].prev].next = Link(m)
    <3>1. log[m].page \in 1 .. MaxPage /\ log[m].prev = log[m].page - 1 /\ log[m].prev \in PageId
      BY <1>3, <2>6
    <3>2. log[m].page < r.page /\ r.page \in 0 .. MaxPage
      BY <1>0, <1>2, <1>7, <2>6 DEF InOrder
    <3>3. r.prev # NULL_PAGE_ID => r.prev = r.page - 1
      BY <1>3, <1>7
    <3>4. log[m].prev # r.page /\ log[m].prev # r.prev
      BY <1>2, <3>1, <3>2, <3>3
    <3>5. q[log[m].prev].next = pg[log[m].prev].next
      BY <2>1, <3>1, <3>4
    <3> QED BY <1>1, <2>6, <3>5
  <2> QED BY <2>4, <2>5, <2>6 DEF Forward
<1>8. CASE Added(pg, q, r, n) /\ ~IsNewPage(r)
  <2>1. \A p \in PageId : q[p].next = pg[p].next
    BY <1>8 DEF Added
  <2> QED BY <1>5, <1>8, <2>1
<1>9. CASE Marked(pg, q, r) /\ ~IsNewPage(r)
  <2>1. \A p \in PageId : q[p].next = pg[p].next
    BY <1>9 DEF Marked
  <2> QED BY <1>5, <1>9, <2>1
<1>10. CASE q = pg /\ ~IsNewPage(r)
  BY <1>5, <1>10
<1> QED BY <1>6, <1>7, <1>8, <1>9, <1>10 DEF RedoKinds, Link

LEMMA OldMarksRedone ==
  ASSUME Typed, Exact, NEW A, NEW n, NEW K, NextRecord(n, K), NEW pg \in PagesType, NEW q,
         RedoKinds(A, pg, q, n), RedonePages(A, pg, K), OldMarks(A, pg, K)
  PROVE  OldMarks(A, q, K \cup {n})
<1> DEFINE r == log[n]
           J == K \cup {n}
<1>1. SUFFICES ASSUME NEW p \in PageId, ~Remade(A, p, J), NEW i \in DOMAIN disk[p].slots
               PROVE  \/ q[p].slots[i].xmax = disk[p].slots[i].xmax
                      \/ \E j \in J : IsDelete(log[j]) /\ log[j].page = p /\ InRange(A, j) /\ j > disk[p].lsn
  BY DEF OldMarks
<1>2. ~Remade(A, p, K) /\ ~(IsNewPage(r) /\ r.page = p /\ InRange(A, n))
  BY <1>1, RemadeNext
<1>3. /\ i \in DOMAIN pg[p].slots /\ pg[p].lsn = disk[p].lsn
      /\ \/ pg[p].slots[i].xmax = disk[p].slots[i].xmax
         \/ \E j \in K : IsDelete(log[j]) /\ log[j].page = p /\ InRange(A, j) /\ j > disk[p].lsn
  BY <1>2 DEF OldMarks, RedonePages
<1>4. ASSUME q[p].slots[i] = pg[p].slots[i] \/ q[p].slots[i].xmax = pg[p].slots[i].xmax 
      PROVE  \/ q[p].slots[i].xmax = disk[p].slots[i].xmax
             \/ \E j \in J : IsDelete(log[j]) /\ log[j].page = p /\ InRange(A, j) /\ j > disk[p].lsn
  BY <1>3, <1>4
<1>5. CASE q = pg
  BY <1>4, <1>5
<1>6. CASE Made(pg, q, r) /\ IsNewPage(r) /\ Again(A, pg, n)
  <2>1. p # r.page
    BY <1>2, <1>6 DEF Again
  <2>2. q[p].slots = pg[p].slots
    BY <1>6, <2>1 DEF Made
  <2> QED BY <1>4, <2>2
<1>7. CASE Added(pg, q, r, n)
  <2>1. DOMAIN pg[p].slots = 1 .. Len(pg[p].slots)
    BY PageFacts
  <2>2. q[p].slots[i] = pg[p].slots[i]
    BY <1>3, <1>7, <2>1 DEF Added
  <2> QED BY <1>4, <2>2
<1>8. CASE Marked(pg, q, r) /\ IsDelete(r) /\ ~IsNewPage(r) /\ Again(A, pg, n)
  <2>1. q[p].slots[i].xmax = IF p = r.page /\ i = r.slot THEN r.xid ELSE pg[p].slots[i].xmax
    BY <1>3, <1>8 DEF Marked
  <2>2. CASE p = r.page
    <3>1. InRange(A, n) /\ n > disk[p].lsn
      BY <1>3, <1>8, <2>2 DEF Again
    <3> QED BY <1>8, <2>2, <3>1
  <2>3. CASE p # r.page
    BY <1>4, <2>1, <2>3
  <2> QED BY <2>2, <2>3
<1> QED BY <1>5, <1>6, <1>7, <1>8 DEF RedoKinds

\* A transaction whose record is repeated has committed or is a loser.
LEMMA RepeatedXid ==
  ASSUME Typed, NEW A, NEW L, Survey(A, L), NEW n, NEW K, NextRecord(n, K), NEW pg, Again(A, pg, n),
         log[n].page \in PageId, log[n].xid \notin RolledBack(log)
  PROVE  log[n].xid \in Committed(log) \cup L
<1>1. InRange(A, n) /\ n \in 1 .. flushed_lsn_
  BY DEF Again, NextRecord
<1> QED BY <1>1 DEF Survey, Settled, Ended

LEMMA MarksRedone ==
  ASSUME Typed, Exact, NEW A, NEW L, Survey(A, L), NEW n, NEW K, NextRecord(n, K), NEW pg \in PagesType, NEW q,
         RedoKinds(A, pg, q, n), RedonePages(A, pg, K), RedoneRows(pg, K), OldMarks(A, pg, K), RedoneMarks(L, pg, K)
  PROVE  RedoneMarks(L, q, K \cup {n})
<1> DEFINE r == log[n]
           J == K \cup {n}
           C == Committed(log)
           F == flushed_lsn_
<1>0. /\ RecordShape(r) /\ n \in DOMAIN log /\ n \in 1 .. F /\ r.xid \in Xid /\ C \subseteq Live
      /\ \A m \in K : m \in DOMAIN log /\ m < n /\ InOrder(log[m], r)
  <2>1. RecordShape(r) /\ r.xid \in Xid /\ \A m \in K : InOrder(log[m], r)
    BY NextFacts DEF Exact
  <2>2. n \in DOMAIN log /\ n \in 1 .. F /\ \A m \in K : m \in DOMAIN log /\ m < n
    BY DEF NextRecord
  <2> QED BY <2>1, <2>2 DEF Live
<1>1. \A x, p, i : DeletesIn(log, J, x, p, i) <=>
        DeletesIn(log, K, x, p, i) \/ (IsDelete(r) /\ r.xid = x /\ r.page = p /\ r.slot = i)
  BY DEF DeletesIn
<1>2. SUFFICES ASSUME NEW p \in PageId, NEW i \in DOMAIN q[p].slots PROVE RedoneMarkOf(L, p, i, q[p].slots[i], J)
  BY DEF RedoneMarks
<1> DEFINE t == q[p].slots[i]
           s == pg[p].slots[i]
           AtRid == r.page = p /\ r.slot = i
\* The slot is as before, and the record is no deletion of it.
<1>3. ASSUME i \in DOMAIN pg[p].slots, t.xmin = s.xmin, t.xmax = s.xmax, ~(IsDelete(r) /\ AtRid)
      PROVE  RedoneMarkOf(L, p, i, t, J)
  <2>1. RedoneMarkOf(L, p, i, s, K)
    BY <1>3 DEF RedoneMarks
  <2>2. \A x : DeletesIn(log, J, x, p, i) <=> DeletesIn(log, K, x, p, i)
    BY <1>1, <1>3
  <2> HIDE DEF t, s, J, C, F, AtRid
  <2> QED BY <1>3, <2>1, <2>2 DEF RedoneMarkOf
<1>4. CASE q = pg /\ ~(IsDelete(r) /\ AtRid)
  BY <1>3, <1>4
<1>5. CASE q = pg /\ IsDelete(r) /\ AtRid /\ r.page \in PageId /\ ~Again(A, pg, n)
  <2>1. ~IsNewPage(r)
    BY <1>5 DEF IsDelete, IsNewPage
  <2>2. /\ OnDisk(n) /\ ~Remade(A, p, K)
        /\ \A j \in K : log[j].page = p => ~(InRange(A, j) /\ j > disk[p].lsn)
    BY <1>5, <2>1, NotAgain
  <2>3. RedoneMarkOf(L, p, i, s, K)
    BY <1>5 DEF RedoneMarks
  <2>4. ASSUME NEW x \in C, r.xid = x PROVE s.xmax = x
    <3>1. i \in DOMAIN disk[p].slots /\ disk[p].slots[i].xmax = x
      BY <1>0, <1>5, <2>2, <2>4 DEF OnDisk
    <3> QED BY <2>2, <3>1 DEF OldMarks
  <2>5. s = t
    BY <1>5
  <2> HIDE DEF t, s, J, C, F
  <2>6. \A x \in C : DeletesIn(log, J, x, p, i) => DeletesIn(log, K, x, p, i) \/ s.xmax = x
    BY <1>1, <2>4
  <2>7. RedoneMarkOf(L, p, i, s, J)
    BY <2>3, <2>6 DEF RedoneMarkOf, C
  <2> QED BY <2>5, <2>7 DEF t, s, J
<1>6. CASE Made(pg, q, r) /\ IsNewPage(r) /\ ~IsDelete(r)
  <2>1. p # r.page
    BY <1>6 DEF Made
  <2>2. q[p].slots = pg[p].slots
    BY <1>6, <2>1 DEF Made
  <2> QED BY <1>3, <1>6, <2>2
<1>7. CASE Added(pg, q, r, n) /\ IsInsert(r) /\ ~IsDelete(r) /\ Again(A, pg, n) /\ r.page \in PageId
           /\ r.xid \notin RolledBack(log) /\ Len(pg[r.page].slots) < r.slot
  <2>1. CASE i \in DOMAIN pg[p].slots
    <3>1. DOMAIN pg[p].slots = 1 .. Len(pg[p].slots)
      BY PageFacts
    <3>2. t = s
      BY <1>7, <2>1, <3>1 DEF Added
    <3> QED BY <1>3, <1>7, <2>1, <3>2
  <2>2. CASE i \notin DOMAIN pg[p].slots
    <3> DEFINE k == Len(pg[p].slots)
    <3>1. p = r.page
      BY <1>7, <2>2 DEF Added
    <3>2. k \in Nat /\ DOMAIN pg[p].slots = 1 .. k /\ DOMAIN q[p].slots = 1 .. k + 1
      BY <1>7, <3>1, PageFacts DEF Added
    <3>3. k + 1 = r.slot
      BY <1>7, <3>1, SlotInOrder
    <3>4. q[p].slots[k + 1] = Slot(n, r.xid)
      BY <1>7, <3>1 DEF Added
    <3> HIDE DEF k
    <3>5. i = k + 1
      BY <2>2, <3>2
    <3>6. t.xmin = r.xid /\ t.xmax = NULL_XID
      BY <3>4, <3>5 DEF Slot
    <3>7. r.xid \in C \cup L
      BY <1>7, RepeatedXid
    <3>8. ASSUME NEW x PROVE ~DeletesIn(log, J, x, p, i)
      <4>1. ~DeletesIn(log, K, x, p, i)
        <5> SUFFICES ASSUME NEW m \in K, IsDelete(log[m]), log[m].page = p, log[m].slot = i PROVE FALSE
          BY DEF DeletesIn
        <5>1. InOrder(log[m], r)
          BY <1>0
        <5> QED BY <1>7, <3>1, <3>3, <3>5, <5>1 DEF InOrder, SameRid
      <4> QED BY <1>1, <1>7, <4>1
    <3> HIDE DEF t, C, J
    <3> QED BY <3>6, <3>7, <3>8 DEF RedoneMarkOf, t, C, J
  <2> QED BY <2>1, <2>2
<1>8. CASE Marked(pg, q, r) /\ IsDelete(r) /\ Again(A, pg, n) /\ r.page \in PageId /\ r.xid \notin RolledBack(log)
  <2>1. i \in DOMAIN pg[p].slots /\ t.xmin = s.xmin /\ t.xmax = IF p = r.page /\ i = r.slot THEN r.xid ELSE s.xmax
    BY <1>8 DEF Marked, SameRows
  <2>2. CASE ~AtRid
    BY <1>3, <2>1, <2>2
  <2>3. CASE AtRid
    <3>1. t.xmax = r.xid
      BY <2>1, <2>3
    <3>2. r.xid \in C \cup L
      BY <1>8, RepeatedXid
    <3>3. RowKept(p, i, s)
      BY <2>1 DEF RedoneRows
    <3>4. i \in DOMAIN pages[p].slots /\ s.xmin = pages[p].slots[i].xmin
      BY <3>3 DEF RowKept
    <3>5. s.xmin \in C \cup {NULL_XID, r.xid}
      BY <1>0, <1>8, <2>3, <3>4 DEF Exact, RowsInv, DeletesExact
    <3>6. ASSUME NEW x \in C, DeletesIn(log, K, x, p, i) PROVE FALSE
      <4>1. PICK m \in K : IsDelete(log[m]) /\ log[m].xid = x /\ log[m].page = p /\ log[m].slot = i
        BY <3>6 DEF DeletesIn
      <4>2. m \in DOMAIN log /\ m < n /\ SameRid(log[m], r)
        BY <1>0, <2>3, <4>1 DEF SameRid
      <4>3. log[m].xid \notin Live
        BY <1>0, <1>8, <4>1, <4>2 DEF Exact, RowsInv, DeletesExact
      <4> QED BY <1>0, <4>1, <4>3
    <3>7. \A x \in C : DeletesIn(log, J, x, p, i) => r.xid = x
      BY <1>1, <3>6
    <3>8. DeletesIn(log, 1 .. F, r.xid, p, i)
      BY <1>0, <1>8, <2>3 DEF DeletesIn
    <3> HIDE DEF t, s, C, J, F
    <3> QED BY <2>1, <3>1, <3>2, <3>5, <3>7, <3>8 DEF RedoneMarkOf, t, C, J, F
  <2> QED BY <2>2, <2>3
<1> QED BY <1>4, <1>5, <1>6, <1>7, <1>8 DEF RedoKinds

\* Redo starts with what the table file holds.
LEMMA RedoneFirst ==
  ASSUME Typed, Exact, undone = {}, NEW A, NEW L, Survey(A, L)
  PROVE  RedoneInv(A, L, disk, {})
<1> DEFINE C == Committed(log)
           F == flushed_lsn_
<1>1. \A p : ~Remade(A, p, {})
  BY DEF Remade
<1>2. RedonePages(A, disk, {})
  BY <1>1 DEF RedonePages, Exact, RecoverInv, DiskRows
<1>3. RedoneRows(disk, {})
  BY DEF RedoneRows, RowKept, Exact, RecoverInv, DiskRows
<1>4. RedoneLinks(disk, {})
  BY DEF RedoneLinks, Exact, RecoverInv, DiskRows
<1>5. OldMarks(A, disk, {})
  BY DEF OldMarks
<1>6. ASSUME NEW p \in PageId, NEW i \in DOMAIN disk[p].slots PROVE RedoneMarkOf(L, p, i, disk[p].slots[i], {})
  <2> DEFINE s == disk[p].slots[i]
  <2>1. /\ \/ s.xmax = NULL_XID
           \/ s.xmax = s.xmin /\ s.xmin \notin Live
           \/ DeletesIn(log, 1 .. F, s.xmax, p, i)
        /\ s.xmin \in RolledBack(log) => s.xmax = s.xmin
        /\ s.xmax \in RolledBack(log) => s.xmax = s.xmin
    <3>1. p \notin undone
      OBVIOUS
    <3> QED BY <3>1 DEF Exact, RecoverInv, DiskMarks
  <2>2. i \in DOMAIN pages[p].slots /\ s.row = pages[p].slots[i].row /\ s.xmin = pages[p].slots[i].xmin /\ s.row <= F
    BY DEF Exact, RecoverInv, DiskRows
  <2>3. RowOf(p, i, pages[p].slots[i])
    BY <2>2 DEF Exact, RowsInv, RowsExact
  <2>4. /\ C \cap RolledBack(log) = {} /\ NULL_XID \notin RolledBack(log) /\ NULL_XID \notin Live /\ C \subseteq Live
        /\ Ended = C \cup RolledBack(log)
    BY LiveNotRolledBack DEF Exact, RecoverInv, XactsExact, Live, Ended
  <2>5. F \in Nat /\ DOMAIN log = 1 .. Len(log) /\ F <= Len(log) /\ Len(log) \in Nat
    BY DEF Typed
  <2>6. \A n \in 1 .. F : log[n].page \in PageId /\ log[n].xid \notin L \cup Ended => UndoneOnDisk(n)
    BY DEF Survey, Settled
  <2>7. CASE s.xmin \in C \cup {NULL_XID}
    <3>1. ASSUME s.xmax # NULL_XID PROVE s.xmax \in C \cup L /\ DeletesIn(log, 1 .. F, s.xmax, p, i)
      <4>1. DeletesIn(log, 1 .. F, s.xmax, p, i)
        BY <2>1, <2>4, <2>7, <3>1
      <4>2. PICK n \in 1 .. F : IsDelete(log[n]) /\ log[n].xid = s.xmax /\ log[n].page = p /\ log[n].slot = i
        BY <4>1 DEF DeletesIn
      <4>3. s.xmax \notin RolledBack(log)
        BY <2>1, <2>4, <2>7
      <4>4. ASSUME s.xmax \notin C \cup L PROVE FALSE
        <5>1. UndoneOnDisk(n)
          BY <2>4, <2>6, <4>2, <4>3, <4>4
        <5>2. s.xmin # log[n].xid => s.xmax # log[n].xid
          BY <4>2, <5>1 DEF UndoneOnDisk
        <5>3. s.xmin = s.xmax
          BY <4>2, <5>2
        <5> QED BY <2>7, <3>1, <4>4, <5>3
      <4> QED BY <4>1, <4>4
    <3>2. \A x : ~DeletesIn(log, {}, x, p, i)
      BY DEF DeletesIn
    <3> HIDE DEF s
    <3> QED BY <2>7, <3>1, <3>2 DEF RedoneMarkOf, s
  <2>8. CASE s.xmin \notin C \cup {NULL_XID}
    <3>1. ASSUME s.xmin \notin L PROVE s.xmax = s.xmin
      <4>1. CASE s.xmin \in RolledBack(log)
        BY <2>1, <4>1
      <4>2. CASE s.xmin \notin RolledBack(log)
        <5> DEFINE n == s.row
        <5>1. /\ n \in DOMAIN log /\ IsInsert(log[n]) /\ log[n].page = p /\ log[n].slot = i /\ log[n].xid = s.xmin
          BY <2>2, <2>3, <2>8 DEF RowOf
        <5>2. n \in 1 .. F
          BY <2>2, <2>5, <5>1
        <5>3. UndoneOnDisk(n)
          BY <2>4, <2>6, <2>8, <3>1, <4>2, <5>1, <5>2
        <5> QED BY <5>1, <5>3 DEF UndoneOnDisk
      <4> QED BY <4>1, <4>2
    <3> HIDE DEF s
    <3> QED BY <2>8, <3>1 DEF RedoneMarkOf, s
  <2> QED BY <2>7, <2>8
<1>7. RedoneMarks(L, disk, {})
  BY <1>6 DEF RedoneMarks
<1> QED BY <1>2, <1>3, <1>4, <1>5, <1>7 DEF RedoneInv

LEMMA RedoneNext ==
  ASSUME Typed, Exact, NEW A, NEW L, Survey(A, L), NEW n, NEW K, NextRecord(n, K), NEW pg \in PagesType, NEW q,
         RedoneWell(A, RolledBack(log), pg, q, n), RedoneInv(A, L, pg, K)
  PROVE  RedoneInv(A, L, q, K \cup {n})
<1>1. RedoKinds(A, pg, q, n)
  BY RedoneKinds DEF Exact
<1>2. RedonePages(A, pg, K) /\ RedoneRows(pg, K) /\ RedoneLinks(pg, K) /\ OldMarks(A, pg, K) /\ RedoneMarks(L, pg, K)
  BY DEF RedoneInv
<1>3. RedonePages(A, q, K \cup {n})
  BY <1>1, <1>2, PagesRedone
<1>4. RedoneRows(q, K \cup {n})
  BY <1>1, <1>2, RowsRedone
<1>5. RedoneLinks(q, K \cup {n})
  BY <1>1, <1>2, LinksRedone
<1>6. OldMarks(A, q, K \cup {n})
  BY <1>1, <1>2, OldMarksRedone
<1>7. RedoneMarks(L, q, K \cup {n})
  BY <1>1, <1>2, MarksRedone
<1> QED BY <1>3, <1>4, <1>5, <1>6, <1>7 DEF RedoneInv

LEMMA RedoneLast ==
  ASSUME Typed, Exact, undone = {}, NEW A, NEW L, Survey(A, L), NEW u, RedoSteps(A, u)
  PROVE  RedoneInv(A, L, u[flushed_lsn_], 1 .. flushed_lsn_) /\ u[flushed_lsn_] \in PagesType
<1> DEFINE F == flushed_lsn_
           T == {n \in 0 .. F : RedoneInv(A, L, u[n], 1 .. n)}
<1>0. F \in Nat /\ F <= Len(log) /\ Len(log) \in Nat /\ DOMAIN log = 1 .. Len(log) /\ u \in [0 .. F -> PagesType] /\ u[0] = disk
  BY DEF Typed, RedoSteps
<1>1. 0 \in T
  <2>1. 1 .. 0 = {} /\ 0 \in 0 .. F
    BY <1>0
  <2>2. RedoneInv(A, L, u[0], 1 .. 0)
    BY <1>0, <2>1, RedoneFirst
  <2> QED BY <2>1, <2>2
<1>2. ASSUME NEW n \in 0 .. F - 1, n \in T PROVE n + 1 \in T
  <2>1. PICK m \in 1 .. F : m = n + 1 /\ m - 1 = n /\ 1 .. m = (1 .. n) \cup {m} /\ n \in 0 .. F /\ m \in 0 .. F
    <3>1. n + 1 \in 1 .. F /\ (n + 1) - 1 = n /\ 1 .. (n + 1) = (1 .. n) \cup {n + 1} /\ n \in 0 .. F /\ n + 1 \in 0 .. F
      BY <1>0
    <3> QED BY <3>1
  <2>2. NextRecord(m, 1 .. n)
    BY <1>0, <2>1 DEF NextRecord
  <2>3. RedoneWell(A, RolledBack(log), u[n], u[m], m)
    BY <2>1 DEF RedoSteps
  <2>4. RedoneInv(A, L, u[m], (1 .. n) \cup {m})
    BY <1>0, <1>2, <2>1, <2>2, <2>3, RedoneNext
  <2> QED BY <2>1, <2>4
<1>3. \A n \in 0 .. F : n \in T
  <2> HIDE DEF T, F
  <2> QED BY <1>0, <1>1, <1>2, UpTo
<1>4. F \in 0 .. F
  BY <1>0
<1> QED BY <1>0, <1>3, <1>4

----------------------------------------------------------------------------
(* Recovering: the pages after the losers D were undone.                   *)

\* w is what redo left, pg what undo has made of it.
LoserLinks(w, lg, D, pg) ==
  /\ Forward(pg)
  /\ \A p \in PageId : (\A x \in D : ~OpensIn(lg, DOMAIN lg, x, p + 1)) => pg[p].next = w[p].next
  /\ \A p \in Chain(w) : pg[p].next \in Chain(w) \cup {NULL_PAGE_ID}
  /\ \A p \in Chain(w) : \A i \in DOMAIN w[p].slots :
       w[p].slots[i].xmin \in Committed(log) \cup {NULL_XID} => p \in Chain(pg)

LosersUndone(w, lg, L, D, pg) ==
  /\ pg \in PagesType /\ SameRows(w, pg)
  /\ RedoneMarks(L \ D, pg, 1 .. flushed_lsn_)
  /\ LoserLinks(w, lg, D, pg)

LEMMA LoserMarks ==
  ASSUME Typed, Exact, NEW A, NEW L, Survey(A, L), NEW lg, DurableLog(lg), NEW w, RedoneInv(A, L, w, 1 .. flushed_lsn_),
         NEW D, NEW x \in L \ D, NEW pg, NEW q, LosersUndone(w, lg, L, D, pg),
         UndoneEffect(pg, lg, DOMAIN lg, x, q), CleanUndo(pg, lg, x)
  PROVE  RedoneMarks(L \ (D \cup {x}), q, 1 .. flushed_lsn_)
<1> DEFINE F == flushed_lsn_
           C == Committed(log)
           M == L \ D
           N == L \ (D \cup {x})
<1>0. /\ x \in Xid /\ x \notin C /\ x \notin RolledBack(log) /\ x # NULL_XID /\ NULL_XID \notin C
      /\ DOMAIN lg = 1 .. F /\ \A n \in 1 .. F : lg[n] = log[n] /\ n \in DOMAIN log
  <2>1. x \in Xid /\ x \notin C /\ x \notin RolledBack(log)
    BY DEF Survey, Ended
  <2>2. NULL_XID \notin Xid
    BY DEF NULL_XID, Xid
  <2> QED BY <2>1, <2>2 DEF DurableLog, Committed
<1>1. SUFFICES ASSUME NEW p \in PageId, NEW i \in DOMAIN q[p].slots PROVE RedoneMarkOf(N, p, i, q[p].slots[i], 1 .. F)
  BY DEF RedoneMarks
<1> DEFINE s == pg[p].slots[i]
           t == q[p].slots[i]
           Ins == InsertsIn(lg, DOMAIN lg, x, p, i)
           Del == DeletesIn(lg, DOMAIN lg, x, p, i)
<1>2. /\ i \in DOMAIN pg[p].slots /\ t.xmin = s.xmin
      /\ t.xmax = IF Ins THEN x ELSE IF Del THEN NULL_XID ELSE s.xmax
  BY DEF UndoneEffect, SameRows
<1>3. /\ i \in DOMAIN pages[p].slots /\ s.xmin = pages[p].slots[i].xmin
      /\ pages[p].slots[i].row <= F
  <2>1. i \in DOMAIN w[p].slots /\ s.xmin = w[p].slots[i].xmin
    BY <1>2 DEF LosersUndone, SameRows
  <2>2. RowKept(p, i, w[p].slots[i])
    BY <2>1 DEF RedoneInv, RedoneRows
  <2> QED BY <2>1, <2>2 DEF RowKept
<1>4. RowOf(p, i, pages[p].slots[i])
  BY <1>3 DEF Exact, RowsInv, RowsExact
<1>5. Ins => s.xmin = x
  <2>1. Ins => InsertsIn(log, DOMAIN log, x, p, i)
    BY <1>0 DEF InsertsIn
  <2> QED BY <1>3, <2>1, OneInserter DEF Exact, RowsInv
<1>6. s.xmin = x => Ins
  <2> SUFFICES ASSUME s.xmin = x PROVE Ins
    OBVIOUS
  <2> DEFINE n == pages[p].slots[i].row
  <2>1. n \in DOMAIN log /\ IsInsert(log[n]) /\ log[n].page = p /\ log[n].slot = i /\ log[n].xid = x
    BY <1>0, <1>3, <1>4 DEF RowOf
  <2>2. n \in 1 .. F
    <3>1. DOMAIN log = 1 .. Len(log) /\ Len(log) \in Nat /\ F \in Nat
      BY DEF Typed
    <3> QED BY <1>3, <2>1, <3>1
  <2> QED BY <1>0, <2>1, <2>2 DEF InsertsIn
<1>7. Del => s.xmin \in C \cup {NULL_XID, x} /\ s.xmax \in {x, NULL_XID}
  <2> SUFFICES ASSUME Del PROVE s.xmin \in C \cup {NULL_XID, x} /\ s.xmax \in {x, NULL_XID}
    OBVIOUS
  <2>1. PICK n \in 1 .. F : IsDelete(lg[n]) /\ lg[n].xid = x /\ lg[n].page = p /\ lg[n].slot = i
    BY <1>0 DEF DeletesIn
  <2>2. s.xmax \in {x, NULL_XID}
    BY <1>0, <2>1 DEF CleanUndo
  <2>3. n \in DOMAIN log /\ IsDelete(log[n]) /\ log[n].xid = x /\ log[n].page = p /\ log[n].slot = i
    BY <1>0, <2>1
  <2>4. pages[p].slots[i].xmin \in C \cup {NULL_XID, x}
    BY <2>3 DEF Exact, RowsInv, DeletesExact
  <2> QED BY <1>3, <2>2, <2>4
<1>8. DeletesIn(log, 1 .. F, x, p, i) <=> Del
  BY <1>0 DEF DeletesIn
<1>9. RedoneMarkOf(M, p, i, s, 1 .. F)
  BY <1>2 DEF LosersUndone, RedoneMarks
<1> HIDE DEF s, t, Ins, Del
<1>10. CASE t.xmin \in C \cup {NULL_XID}
  <2>0. ~Ins
    BY <1>0, <1>2, <1>5, <1>10
  <2>1. /\ \/ s.xmax = NULL_XID
           \/ s.xmax \in C \cup M /\ DeletesIn(log, 1 .. F, s.xmax, p, i)
        /\ \A y \in C : DeletesIn(log, 1 .. F, y, p, i) => s.xmax = y
    BY <1>2, <1>9, <1>10 DEF RedoneMarkOf
  <2>2. CASE Del
    <3>1. t.xmax = NULL_XID
      BY <1>2, <2>0, <2>2
    <3>2. ASSUME NEW y \in C, DeletesIn(log, 1 .. F, y, p, i) PROVE FALSE
      BY <1>0, <1>7, <2>1, <2>2, <3>2
    <3> QED BY <1>10, <3>1, <3>2 DEF RedoneMarkOf, t
  <2>3. CASE ~Del
    <3>1. t.xmax = s.xmax
      BY <1>2, <2>0, <2>3
    <3>2. s.xmax # x \/ s.xmax = NULL_XID
      BY <1>0, <1>8, <2>1, <2>3
    <3>3. s.xmax = NULL_XID \/ (s.xmax \in C \cup N /\ DeletesIn(log, 1 .. F, s.xmax, p, i))
      BY <2>1, <3>2
    <3> HIDE DEF N, M
    <3> QED BY <1>10, <2>1, <3>1, <3>3 DEF RedoneMarkOf, t
  <2> QED BY <2>2, <2>3
<1>11. CASE t.xmin \notin C \cup {NULL_XID}
  <2>1. ASSUME t.xmin \notin N PROVE t.xmax = t.xmin
    <3>1. CASE t.xmin = x
      BY <1>2, <1>6, <3>1
    <3>2. CASE t.xmin # x
      <4>1. ~Ins /\ ~Del
        BY <1>2, <1>5, <1>7, <1>11, <3>2
      <4>2. s.xmin \notin M
        BY <1>2, <2>1, <3>2
      <4>3. s.xmax = s.xmin
        BY <1>2, <1>9, <1>11, <4>2 DEF RedoneMarkOf
      <4> QED BY <1>2, <4>1, <4>3
    <3> QED BY <3>1, <3>2
  <2> QED BY <1>11, <2>1 DEF RedoneMarkOf, t
<1> QED BY <1>10, <1>11

LEMMA LoserLinksNext ==
  ASSUME Typed, Exact, NEW A, NEW L, Survey(A, L), NEW lg, DurableLog(lg), NEW w \in PagesType,
         RedoneInv(A, L, w, 1 .. flushed_lsn_),
         NEW D, NEW x \in L \ D, NEW pg, NEW q, LosersUndone(w, lg, L, D, pg),
         UndoneEffect(pg, lg, DOMAIN lg, x, q), CleanUndo(pg, lg, x)
  PROVE  LoserLinks(w, lg, D \cup {x}, q)
<1> DEFINE F == flushed_lsn_
           C == Committed(log)
           X == {p \in PageId : OpensIn(lg, DOMAIN lg, x, p)}
<1>0. /\ x \notin C /\ x \notin RolledBack(log) /\ x # NULL_XID
      /\ lg \in Seq(RecordType) /\ LogShape(lg)
      /\ DOMAIN lg = 1 .. F /\ \A n \in 1 .. F : lg[n] = log[n] /\ n \in DOMAIN log
  <2>1. x \in Xid /\ x \notin C /\ x \notin RolledBack(log)
    BY DEF Survey, Ended
  <2>2. NULL_XID \notin Xid
    BY DEF NULL_XID, Xid
  <2> QED BY <2>1, <2>2 DEF DurableLog
<1>1. pg \in PagesType /\ q \in PagesType /\ SameRows(w, pg) /\ SameRows(pg, q) /\ LoserLinks(w, lg, D, pg)
  BY DEF LosersUndone, UndoneEffect
<1>2. MaxPage \in Nat /\ PageId = 0 .. MaxPage /\ NULL_PAGE_ID = MaxPage + 1
  BY HeapBounds DEF PageId, NULL_PAGE_ID
\* The page before one the loser opened still has the link redo gave it.
<1>3. ASSUME NEW p \in PageId, OpensIn(lg, DOMAIN lg, x, p + 1)
      PROVE  p + 1 \in X /\ w[p].next = p + 1 /\ pg[p].next = p + 1
  <2>1. PICK n \in 1 .. F : IsNewPage(lg[n]) /\ lg[n].xid = x /\ lg[n].page = p + 1
    BY <1>0, <1>3 DEF OpensIn
  <2>2. RecordShape(log[n]) /\ IsNewPage(log[n]) /\ log[n].xid = x /\ log[n].page = p + 1
    BY <1>0, <2>1 DEF Exact, LogShape
  <2>3. log[n].prev = p /\ p + 1 \in 1 .. MaxPage /\ log[n].prev # NULL_PAGE_ID
    BY <1>2, <2>2 DEF RecordShape
  <2>4. w[p].next = p + 1
    BY <1>0, <2>2, <2>3 DEF RedoneInv, RedoneLinks
  <2>5. \A y \in D : ~OpensIn(lg, DOMAIN lg, y, p + 1)
    BY <1>0, <1>3, OneOpener
  <2>6. pg[p].next = w[p].next
    BY <1>1, <2>5 DEF LoserLinks
  <2>7. p + 1 \in PageId
    BY <1>2, <2>3
  <2> QED BY <1>3, <2>4, <2>6, <2>7
<1>4. ASSUME NEW p \in PageId PROVE OpensIn(lg, DOMAIN lg, x, p + 1) <=> p + 1 \in X
  BY <1>3
<1>5. ASSUME NEW p \in PageId PROVE q[p].next = IF p + 1 \in X THEN q[p + 1].next ELSE pg[p].next
  <2>1. q[p].next = IF OpensIn(lg, DOMAIN lg, x, p + 1) THEN q[p + 1].next ELSE pg[p].next
    BY DEF UndoneEffect
  <2> HIDE DEF X
  <2> QED BY <1>4, <2>1
<1>6. X \in SUBSET PageId /\ \A p \in PageId : p + 1 \in X => w[p].next = p + 1 /\ pg[p].next = p + 1
  BY <1>3
<1>7. ASSUME NEW p \in X, NEW i \in DOMAIN w[p].slots PROVE w[p].slots[i].xmin = x
  <2>1. PICK n \in 1 .. F : IsNewPage(lg[n]) /\ lg[n].xid = x /\ lg[n].page = p
    BY <1>0, <1>7 DEF OpensIn
  <2>2. \A s \in Range(pg[p].slots) : s.xmin = x
    BY <1>0, <2>1 DEF CleanUndo
  <2>3. i \in DOMAIN pg[p].slots /\ pg[p].slots[i].xmin = w[p].slots[i].xmin
    BY <1>1, <1>7 DEF SameRows
  <2>4. pg[p].slots[i] \in Range(pg[p].slots)
    BY <2>3 DEF Range
  <2> QED BY <2>2, <2>3, <2>4
<1> HIDE DEF X
<1>8. Bypassed(pg, q, X)
  BY <1>5 DEF Bypassed
<1>9. Forward(q)
  BY <1>1, <1>6, <1>8, UnlinkForward DEF LoserLinks
<1>10. ASSUME NEW p \in PageId, \A y \in D \cup {x} : ~OpensIn(lg, DOMAIN lg, y, p + 1) PROVE q[p].next = w[p].next
  BY <1>1, <1>4, <1>5, <1>10 DEF LoserLinks
<1>11. \A p \in Chain(w) : q[p].next \in Chain(w) \cup {NULL_PAGE_ID}
  <2>1. Chain(w) \in SUBSET PageId /\ \A p \in Chain(w) : w[p].next \in Chain(w) \cup {NULL_PAGE_ID}
    BY ChainFacts
  <2>2. \A p \in Chain(w) : p + 1 \in X => p + 1 \in Chain(w)
    <3> SUFFICES ASSUME NEW p \in Chain(w), p + 1 \in X PROVE p + 1 \in Chain(w)
      OBVIOUS
    <3>1. w[p].next = p + 1 /\ p + 1 \in PageId
      BY <1>6, <2>1
    <3>2. p + 1 # NULL_PAGE_ID
      BY <1>2, <3>1
    <3> QED BY <2>1, <3>1, <3>2
  <2>3. \A p \in Chain(w) : pg[p].next \in Chain(w) \cup {NULL_PAGE_ID}
    BY <1>1 DEF LoserLinks
  <2> QED BY <1>8, <2>1, <2>2, <2>3, UnlinkStays
<1>12. Chain(pg) \ X \subseteq Chain(q)
  <2>1. q[0].exists = pg[0].exists
    BY <1>1, <1>2 DEF SameRows
  <2>2. \A p \in PageId : p + 1 \in X => pg[p].next = p + 1 /\ q[p].next = q[p + 1].next
    BY <1>5, <1>6
  <2>3. \A p \in PageId : p + 1 \notin X => q[p].next = pg[p].next
    BY <1>5
  <2> QED BY <1>1, <1>6, <2>1, <2>2, <2>3, UnlinkKeepsOthers
<1>13. ASSUME NEW p \in Chain(w), NEW i \in DOMAIN w[p].slots, w[p].slots[i].xmin \in C \cup {NULL_XID}
       PROVE  p \in Chain(q)
  <2>1. p \in Chain(pg)
    BY <1>1, <1>13 DEF LoserLinks
  <2>2. p \notin X
    BY <1>0, <1>7, <1>13
  <2> QED BY <1>12, <2>1, <2>2
<1> QED BY <1>9, <1>10, <1>11, <1>13 DEF LoserLinks

LEMMA LosersFirst ==
  ASSUME Typed, NEW A, NEW L, NEW lg, NEW w \in PagesType, RedoneInv(A, L, w, 1 .. flushed_lsn_)
  PROVE  LosersUndone(w, lg, L, {}, w)
<1>1. SameRows(w, w)
  BY DEF SameRows
<1>2. L \ {} = L
  OBVIOUS
<1>3. RedoneMarks(L \ {}, w, 1 .. flushed_lsn_)
  BY <1>2 DEF RedoneInv
<1>4. LoserLinks(w, lg, {}, w)
  BY ChainFacts DEF LoserLinks, RedoneInv, RedoneLinks
<1> QED BY <1>1, <1>3, <1>4 DEF LosersUndone

LEMMA LosersNext ==
  ASSUME Typed, Exact, NEW A, NEW L, Survey(A, L), NEW lg, DurableLog(lg), NEW w \in PagesType,
         RedoneInv(A, L, w, 1 .. flushed_lsn_),
         NEW D, NEW x \in L \ D, NEW pg, NEW q, LosersUndone(w, lg, L, D, pg),
         UndoneEffect(pg, lg, DOMAIN lg, x, q), CleanUndo(pg, lg, x)
  PROVE  LosersUndone(w, lg, L, D \cup {x}, q)
<1>1. q \in PagesType /\ SameRows(w, pg) /\ SameRows(pg, q)
  BY DEF LosersUndone, UndoneEffect
<1>2. SameRows(w, q)
  BY <1>1, SameRowsTrans
<1>3. RedoneMarks(L \ (D \cup {x}), q, 1 .. flushed_lsn_)
  BY LoserMarks
<1>4. LoserLinks(w, lg, D \cup {x}, q)
  BY LoserLinksNext
<1> QED BY <1>1, <1>2, <1>3, <1>4 DEF LosersUndone

\* After all of them.
LEMMA LosersLast ==
  ASSUME Typed, Exact, NEW A, NEW L, Survey(A, L), NEW lg, DurableLog(lg), NEW w \in PagesType,
         RedoneInv(A, L, w, 1 .. flushed_lsn_),
         NEW losers, LoserOrder(losers, L), NEW v \in [0 .. Len(losers) -> PagesType], v[0] = w, UndoSteps(v, lg, losers)
  PROVE  LosersUndone(w, lg, L, L, v[Len(losers)])
<1> DEFINE N == Len(losers)
           D(i) == {losers[j] : j \in 1 .. i}
           T == {i \in 0 .. N : LosersUndone(w, lg, L, D(i), v[i])}
<1>0. N \in Nat /\ N \in 0 .. N
  BY DEF LoserOrder
<1>1. 0 \in T
  <2>1. 1 .. 0 = {} /\ 0 \in 0 .. N
    BY <1>0
  <2>2. D(0) = {}
    BY <2>1
  <2> HIDE DEF D
  <2>3. LosersUndone(w, lg, L, D(0), v[0])
    BY <2>2, LosersFirst
  <2> QED BY <2>1, <2>3
<1>2. ASSUME NEW i \in 0 .. N - 1, i \in T PROVE i + 1 \in T
  <2>1. PICK k \in 1 .. N : k = i + 1 /\ k - 1 = i /\ 1 .. k = (1 .. i) \cup {k} /\ i \in 0 .. N /\ k \in 0 .. N
                            /\ k \notin 1 .. i /\ (1 .. i) \subseteq 1 .. N
    <3>1. /\ i + 1 \in 1 .. N /\ (i + 1) - 1 = i /\ 1 .. (i + 1) = (1 .. i) \cup {i + 1} /\ i \in 0 .. N /\ i + 1 \in 0 .. N
          /\ i + 1 \notin 1 .. i /\ (1 .. i) \subseteq 1 .. N
      BY <1>0
    <3> QED BY <3>1
  <2>2. D(k) = D(i) \cup {losers[k]}
    BY <2>1
  <2>3. losers[k] \in L /\ losers[k] \notin D(i)
    BY <2>1 DEF LoserOrder
  <2>4. UndoneEffect(v[i], lg, DOMAIN lg, losers[k], v[k]) /\ CleanUndo(v[i], lg, losers[k])
    BY <2>1 DEF UndoSteps
  <2>5. LosersUndone(w, lg, L, D(i), v[i])
    BY <1>2
  <2> HIDE DEF D
  <2>6. LosersUndone(w, lg, L, D(i) \cup {losers[k]}, v[k])
    BY <2>3, <2>4, <2>5, LosersNext
  <2> QED BY <2>1, <2>2, <2>6
<1>3. \A i \in 0 .. N : i \in T
  <2> HIDE DEF T, N
  <2> QED BY <1>0, <1>1, <1>2, UpTo
<1>4. D(N) = L
  BY DEF LoserOrder
<1>5. LosersUndone(w, lg, L, D(N), v[N])
  BY <1>0, <1>3
<1> HIDE DEF D
<1> QED BY <1>4, <1>5

----------------------------------------------------------------------------
(* Recovering: the invariant holds again.                                  *)

\* A recovery in which nothing went wrong; redo has left the pages w.
Recovered(A, L, w) ==
  /\ undone = {} /\ Survey(A, L)
  /\ w \in PagesType /\ RedoneInv(A, L, w, 1 .. flushed_lsn_)
  /\ LosersUndone(w, log', L, L, pages') /\ GoodLinks(pages')
  /\ DurableLog(log') /\ att_' = L /\ dpt_' = A /\ active' = {} /\ undone' = {}
  /\ UNCHANGED <<disk, flushed_lsn_, checkpoint, initial>>

LEMMA CrashRecovers ==
  ASSUME Typed, Exact, Crash, initial' = initial, gaps' = {}
  PROVE  \E w : Recovered(AnalyzedDpt, AnalyzedAtt, w)
<1> DEFINE A == AnalyzedDpt
           L == AnalyzedAtt
           F == flushed_lsn_
<1>1. PICK u, v, losers :
              /\ LoserOrder(losers, L)
              /\ RedoSteps(A, u)
              /\ v \in [0 .. Len(losers) -> PagesType]
              /\ v[0] = u[F] /\ UndoSteps(v, Durable, losers) /\ pages' = v[Len(losers)]
  BY CrashRuns
<1>2. undone = {} /\ GoodLinks(pages')
  BY CrashRuns
<1>3. Survey(A, L)
  BY AnalyzedWell
<1>4. RedoneInv(A, L, u[F], 1 .. F) /\ u[F] \in PagesType
  BY <1>1, <1>2, <1>3, RedoneLast
<1>5. DurableLog(Durable)
  BY DurableFacts
<1>6. LosersUndone(u[F], Durable, L, L, pages')
  BY <1>1, <1>3, <1>4, <1>5, LosersLast
<1>7. log' = Durable /\ att_' = L /\ dpt_' = A /\ active' = {} /\ undone' = {}
      /\ UNCHANGED <<disk, flushed_lsn_, checkpoint>>
  BY CrashParts
<1>8. Recovered(A, L, u[F])
  BY <1>2, <1>3, <1>4, <1>5, <1>6, <1>7 DEF Recovered
<1> QED BY <1>8

\* The rows that were logged in time are there, and no others.
RowsKept ==
  /\ \A p \in PageId : \A i \in DOMAIN pages'[p].slots :
       /\ i \in DOMAIN pages[p].slots
       /\ pages'[p].slots[i].row = pages[p].slots[i].row /\ pages'[p].slots[i].xmin = pages[p].slots[i].xmin
       /\ pages[p].slots[i].row <= flushed_lsn_
  /\ \A p \in PageId : \A i \in DOMAIN pages[p].slots :
       pages[p].slots[i].row <= flushed_lsn_ => i \in DOMAIN pages'[p].slots

LEMMA RecoveredRowsKept ==
  ASSUME Typed, Exact, NEW A, NEW L, NEW w, Recovered(A, L, w)
  PROVE  RowsKept
<1> DEFINE F == flushed_lsn_
<1>1. /\ RedonePages(A, w, 1 .. F) /\ RedoneRows(w, 1 .. F) /\ SameRows(w, pages')
  BY DEF Recovered, RedoneInv, LosersUndone
<1>2. ASSUME NEW p \in PageId, NEW i \in DOMAIN pages'[p].slots
      PROVE  /\ i \in DOMAIN pages[p].slots
             /\ pages'[p].slots[i].row = pages[p].slots[i].row /\ pages'[p].slots[i].xmin = pages[p].slots[i].xmin
             /\ pages[p].slots[i].row <= F
  <2>1. i \in DOMAIN w[p].slots /\ pages'[p].slots[i].row = w[p].slots[i].row /\ pages'[p].slots[i].xmin = w[p].slots[i].xmin
    BY <1>1, <1>2 DEF SameRows
  <2>2. RowKept(p, i, w[p].slots[i])
    BY <1>1, <2>1 DEF RedoneRows
  <2> QED BY <2>1, <2>2 DEF RowKept
<1>3. ASSUME NEW p \in PageId, NEW i \in DOMAIN pages[p].slots, pages[p].slots[i].row <= F
      PROVE  i \in DOMAIN pages'[p].slots
  <2> DEFINE s == pages[p].slots[i]
  <2>1. RowOf(p, i, s)
    BY DEF Exact, RowsInv, RowsExact
  <2>2. i \in DOMAIN w[p].slots
    <3>1. CASE s.row \in DOMAIN log /\ IsInsert(log[s.row]) /\ log[s.row].page = p /\ log[s.row].slot = i
      <4>1. s.row \in 1 .. F
        <5>1. DOMAIN log = 1 .. Len(log) /\ Len(log) \in Nat /\ F \in Nat
          BY DEF Typed
        <5> QED BY <1>3, <3>1, <5>1
      <4> QED BY <1>1, <3>1, <4>1 DEF RedoneRows
    <3>2. CASE p = 0 /\ i <= initial
      <4>1. i \in 1 .. initial /\ initial > 0
        <5>1. i \in 1 .. Capacity /\ initial \in Nat /\ Capacity \in Nat
          BY SlotFacts, HeapBounds DEF Typed
        <5> QED BY <3>2, <5>1
      <4>2. ~Opened(0) /\ i \in DOMAIN disk[0].slots
        BY <4>1 DEF Exact, PagesExact, RecoverInv, DiskRows
      <4>3. \A n \in 1 .. F : n \in DOMAIN log
        BY DEF Typed
      <4>4. ~Remade(A, 0, 1 .. F)
        BY <4>2, <4>3 DEF Remade, Opened
      <4> QED BY <1>1, <3>2, <4>2, <4>4 DEF RedonePages
    <3> QED BY <2>1, <3>1, <3>2 DEF RowOf
  <2> QED BY <1>1, <2>2 DEF SameRows
<1> QED BY <1>2, <1>3 DEF RowsKept

\* The log and the transactions afterwards.
XactsKept ==
  /\ DOMAIN log' = 1 .. flushed_lsn_ /\ Len(log') = flushed_lsn_ /\ flushed_lsn_ \in Nat
  /\ log' \in Seq(RecordType) /\ LogShape(log')
  /\ \A n \in 1 .. flushed_lsn_ : log'[n] = log[n] /\ n \in DOMAIN log /\ n \in Nat
  /\ Committed(log') = Committed(log) /\ RolledBack(log') = RolledBack(log)
  /\ Live' = Committed(log) /\ Committed(log) \subseteq Live /\ Ended' = Ended
  /\ \A x, p, i : Deletes(x, p, i)' <=> DeletesIn(log, 1 .. flushed_lsn_, x, p, i)
  /\ \A x, p : OpenedBy(x, p)' <=> OpensIn(log, 1 .. flushed_lsn_, x, p)
  /\ \A x, p, i : DeletesIn(log, 1 .. flushed_lsn_, x, p, i) => Deletes(x, p, i)
  /\ \A x, p : OpensIn(log, 1 .. flushed_lsn_, x, p) => OpenedBy(x, p)
  /\ \A x, p : OpensIn(log', DOMAIN log', x, p) <=> OpensIn(log, 1 .. flushed_lsn_, x, p)

LEMMA RecoveredXacts ==
  ASSUME Typed, Exact, NEW A, NEW L, NEW w, Recovered(A, L, w)
  PROVE  XactsKept
<1> DEFINE F == flushed_lsn_
<1>1. /\ DOMAIN log' = 1 .. F /\ Len(log') = F
      /\ log' \in Seq(RecordType) /\ LogShape(log')
      /\ \A n \in 1 .. F : log'[n] = log[n] /\ n \in DOMAIN log
      /\ Committed(log') = Committed(log) /\ RolledBack(log') = RolledBack(log) /\ active' = {}
  BY DEF Recovered, DurableLog
<1>2. F \in Nat /\ \A n \in 1 .. F : n \in Nat
  BY DEF Typed
<1>3. Live' = Committed(log) /\ Committed(log) \subseteq Live /\ Ended' = Ended
  BY <1>1 DEF Live, Ended
<1>4. \A x, p, i : Deletes(x, p, i)' <=> DeletesIn(log, 1 .. F, x, p, i)
  BY <1>1 DEF Deletes, DeletesIn
<1>5. \A x, p : OpenedBy(x, p)' <=> OpensIn(log, 1 .. F, x, p)
  BY <1>1 DEF OpenedBy, OpensIn
<1>6. \A x, p, i : DeletesIn(log, 1 .. F, x, p, i) => Deletes(x, p, i)
  BY <1>1 DEF Deletes, DeletesIn
<1>7. \A x, p : OpensIn(log, 1 .. F, x, p) => OpenedBy(x, p)
  BY <1>1 DEF OpenedBy, OpensIn
<1>8. \A x, p : OpensIn(log', DOMAIN log', x, p) <=> OpensIn(log, 1 .. F, x, p)
  BY <1>1 DEF OpensIn
<1> QED BY <1>1, <1>2, <1>3, <1>4, <1>5, <1>6, <1>7, <1>8 DEF XactsKept

LEMMA RecoveredRows ==
  ASSUME Typed, Exact, NEW A, NEW L, NEW w, Recovered(A, L, w)
  PROVE  RowsInv'
<1> DEFINE F == flushed_lsn_
           C == Committed(log)
<1>1. RowsKept /\ XactsKept
  BY RecoveredRowsKept, RecoveredXacts
<1>2. /\ DOMAIN log' = 1 .. F /\ F \in Nat
      /\ \A n \in 1 .. F : log'[n] = log[n] /\ n \in DOMAIN log /\ n \in Nat
      /\ Committed(log') = C /\ Live' = C /\ C \subseteq Live
  BY <1>1 DEF XactsKept
<1>3. initial' = initial
  BY DEF Recovered
<1>4. RowsExact'
  <2> SUFFICES ASSUME NEW p \in PageId, NEW i \in DOMAIN pages'[p].slots
               PROVE  RowOf(p, i, pages[p].slots[i])'
    BY DEF RowsExact
  <2>1. PICK t : t = pages'[p].slots[i]
    OBVIOUS
  <2>2. /\ i \in DOMAIN pages[p].slots /\ t.row = pages[p].slots[i].row /\ t.xmin = pages[p].slots[i].xmin
        /\ pages[p].slots[i].row <= F
    BY <1>1, <2>1 DEF RowsKept
  <2>3. RowOf(p, i, pages[p].slots[i])
    BY <2>2 DEF Exact, RowsInv, RowsExact
  <2>4. t.row \in DOMAIN log => t.row \in 1 .. F
    <3>1. DOMAIN log = 1 .. Len(log) /\ Len(log) \in Nat
      BY DEF Typed
    <3> QED BY <1>2, <2>2, <3>1
  <2>5. \/ /\ t.row \in DOMAIN log' /\ IsInsert(log'[t.row])
           /\ log'[t.row].page = p /\ log'[t.row].slot = i /\ log'[t.row].xid = t.xmin
        \/ p = 0 /\ i <= initial' /\ t.row = -i /\ t.xmin = NULL_XID
    BY <1>2, <1>3, <2>2, <2>3, <2>4 DEF RowOf
  <2> QED BY <2>1, <2>5 DEF RowOf
<1>5. ASSUME NEW n \in DOMAIN log', IsInsert(log'[n])
      PROVE  /\ log'[n].slot \in DOMAIN pages'[log'[n].page].slots
             /\ pages'[log'[n].page].slots[log'[n].slot].row = n
  <2> DEFINE p == log[n].page
             i == log[n].slot
  <2>1. n \in 1 .. F /\ n \in DOMAIN log /\ log'[n] = log[n] /\ IsInsert(log[n])
    BY <1>2, <1>5
  <2>2. p \in PageId
    BY <2>1 DEF Exact, LogShape, RecordShape
  <2>3. i \in DOMAIN pages[p].slots /\ pages[p].slots[i].row = n
    BY <2>1 DEF Exact, RowsInv, InsertsPresent
  <2>4. n <= F
    BY <1>2, <2>1
  <2>5. i \in DOMAIN pages'[p].slots
    BY <1>1, <2>2, <2>3, <2>4 DEF RowsKept
  <2>6. pages'[p].slots[i].row = n
    BY <1>1, <2>2, <2>3, <2>5 DEF RowsKept
  <2> QED BY <2>1, <2>5, <2>6
<1>6. InsertsPresent'
  BY <1>5 DEF InsertsPresent
<1>7. ASSUME NEW i \in 1 .. initial PROVE i \in DOMAIN pages'[0].slots /\ pages'[0].slots[i].row = -i
  <2>1. i \in DOMAIN pages[0].slots /\ pages[0].slots[i].row = -i /\ 0 \in PageId
    BY HeapBounds DEF Exact, RowsInv, InitialPresent, PageId
  <2>2. -i <= F
    BY <1>2 DEF Typed
  <2>3. i \in DOMAIN pages'[0].slots
    BY <1>1, <2>1, <2>2 DEF RowsKept
  <2> QED BY <1>1, <2>1, <2>3 DEF RowsKept
<1>8. InitialPresent'
  BY <1>3, <1>7 DEF InitialPresent
<1>9. MarksExact'
  <2> SUFFICES ASSUME NEW p \in PageId, NEW i \in DOMAIN pages'[p].slots
               PROVE  MarkOf(p, i, pages[p].slots[i])'
    BY DEF MarksExact
  <2>1. PICK t : t = pages'[p].slots[i]
    OBVIOUS
  <2>2. RedoneMarkOf(L \ L, p, i, t, 1 .. F)
    BY <2>1 DEF Recovered, LosersUndone, RedoneMarks
  <2>3. L \ L = {}
    OBVIOUS
  <2>4. \A x, o, j : Deletes(x, o, j)' <=> DeletesIn(log, 1 .. F, x, o, j)
    BY <1>1 DEF XactsKept
  <2>5. IF t.xmin \in C \cup {NULL_XID}
        THEN /\ t.xmax = NULL_XID \/ (t.xmax \in C /\ DeletesIn(log, 1 .. F, t.xmax, p, i))
             /\ \A x \in C : DeletesIn(log, 1 .. F, x, p, i) => t.xmax = x
        ELSE t.xmax = t.xmin
    BY <2>2, <2>3 DEF RedoneMarkOf
  <2>6. IF t.xmin \in Live' \cup {NULL_XID}
        THEN /\ t.xmax = NULL_XID \/ (t.xmax \in Live' /\ Deletes(t.xmax, p, i)')
             /\ \A x \in Live' : Deletes(x, p, i)' => t.xmax = x
        ELSE t.xmax = t.xmin
    BY <1>2, <2>4, <2>5
  <2> QED BY <2>1, <2>6 DEF MarkOf, Deletes, DeletesIn
<1>10. ASSUME NEW n \in DOMAIN log', IsDelete(log'[n]), NEW s, s = pages'[log'[n].page].slots[log'[n].slot]
       PROVE  /\ log'[n].slot \in DOMAIN pages'[log'[n].page].slots
              /\ log'[n].row = s.row /\ s.row < n /\ s.xmin \in Committed(log') \cup {NULL_XID, log'[n].xid}
  <2> DEFINE p == log[n].page
             i == log[n].slot
             o == pages[p].slots[i]
  <2>1. n \in 1 .. F /\ n \in DOMAIN log /\ log'[n] = log[n] /\ IsDelete(log[n])
    BY <1>2, <1>10
  <2>2. p \in PageId
    BY <2>1 DEF Exact, LogShape, RecordShape
  <2>3. i \in DOMAIN pages[p].slots /\ log[n].row = o.row /\ o.row < n /\ o.xmin \in C \cup {NULL_XID, log[n].xid}
    BY <2>1 DEF Exact, RowsInv, DeletesExact
  <2>4. o.row <= F
    <3>1. o.row \in Int
      BY <2>2, <2>3, SlotFacts DEF Typed
    <3> HIDE DEF o
    <3> QED BY <1>2, <2>1, <2>3, <3>1
  <2>5. i \in DOMAIN pages'[p].slots
    BY <1>1, <2>2, <2>3, <2>4 DEF RowsKept
  <2>6. s.row = o.row /\ s.xmin = o.xmin
    BY <1>1, <1>10, <2>1, <2>2, <2>5 DEF RowsKept
  <2> QED BY <1>2, <2>1, <2>3, <2>5, <2>6
<1>11. ASSUME NEW m \in DOMAIN log', NEW n \in DOMAIN log', IsDelete(log'[m]), IsDelete(log'[n]),
              SameRid(log'[m], log'[n]), m < n
       PROVE  log'[m].xid \notin Live'
  <2>1. m \in DOMAIN log /\ n \in DOMAIN log /\ log'[m] = log[m] /\ log'[n] = log[n]
    BY <1>2
  <2>2. log[m].xid \notin Live
    BY <1>11, <2>1 DEF Exact, RowsInv, DeletesExact
  <2> QED BY <1>2, <2>1, <2>2
<1>12. DeletesExact'
  BY <1>10, <1>11 DEF DeletesExact
<1> QED BY <1>4, <1>6, <1>8, <1>9, <1>12 DEF RowsInv

\* The pages the durable log opens.
DurablyOpened(p) == \E n \in 1 .. flushed_lsn_ : IsNewPage(log[n]) /\ log[n].page = p

\* They exist, and nothing of the others is there.
PagesKept(w) ==
  \A p \in PageId :
    /\ pages'[p].exists = w[p].exists /\ pages'[p].lsn = w[p].lsn
    /\ w[p].exists <=> DurablyOpened(p) \/ (p = 0 /\ initial > 0)
    /\ ~w[p].exists => w[p] = NoPage
    /\ w[p].lsn <= flushed_lsn_

LEMMA RecoveredPagesKept ==
  ASSUME Typed, Exact, NEW A, NEW L, NEW w, Recovered(A, L, w)
  PROVE  PagesKept(w)
<1> DEFINE F == flushed_lsn_
<1>1. RedonePages(A, w, 1 .. F) /\ SameRows(w, pages')
  BY DEF Recovered, RedoneInv, LosersUndone
<1>2. SUFFICES ASSUME NEW p \in PageId
               PROVE  /\ pages'[p].exists = w[p].exists /\ pages'[p].lsn = w[p].lsn
                      /\ w[p].exists <=> DurablyOpened(p) \/ (p = 0 /\ initial > 0)
                      /\ ~w[p].exists => w[p] = NoPage
                      /\ w[p].lsn <= F
  BY DEF PagesKept
<1>3. pages'[p].exists = w[p].exists /\ pages'[p].lsn = w[p].lsn
  BY <1>1 DEF SameRows
<1>4. /\ w[p].exists <=> disk[p].exists \/ DurablyOpened(p)
      /\ ~w[p].exists => w[p] = NoPage
      /\ w[p].lsn \in {NoLsn, disk[p].lsn}
  BY <1>1 DEF RedonePages, DurablyOpened
<1>5. /\ disk[p].exists => (p = 0 /\ initial > 0) \/ DurablyOpened(p)
      /\ initial > 0 => disk[0].exists
      /\ disk[p].lsn <= F
  BY DEF Exact, RecoverInv, DiskRows, DurablyOpened
<1>6. NoLsn <= F
  BY DEF NoLsn, Typed
<1> QED BY <1>3, <1>4, <1>5, <1>6

\* A page is opened after the one before it.
LEMMA DurablyOpenedBefore ==
  ASSUME Typed, Exact, NEW p \in PageId, DurablyOpened(p + 1)
  PROVE  DurablyOpened(p) \/ (p = 0 /\ initial > 0)
<1>1. PICK n \in 1 .. flushed_lsn_ : IsNewPage(log[n]) /\ log[n].page = p + 1
  BY DEF DurablyOpened
<1>2. n \in DOMAIN log /\ DOMAIN log = 1 .. Len(log) /\ Len(log) \in Nat /\ flushed_lsn_ \in 0 .. Len(log)
  BY DEF Typed
<1>3. MaxPage \in Nat /\ PageId = 0 .. MaxPage /\ p \in Nat
  BY HeapBounds DEF PageId
<1>4. p + 1 \in 1 .. MaxPage
  <2>1. RecordShape(log[n])
    BY <1>2 DEF Exact, LogShape
  <2> QED BY <1>1, <1>3, <2>1 DEF RecordShape
<1>5. pages[p + 1].exists
  <2>1. p + 1 \in PageId
    BY <1>3, <1>4
  <2> QED BY <1>1, <1>2, <2>1 DEF Exact, PagesExact, Opened
<1>6. pages[p].exists
  <2>1. PICK k \in 1 .. MaxPage : k = p + 1 /\ k - 1 = p
    BY <1>3, <1>4
  <2>2. pages[k - 1].exists
    BY <1>5, <2>1 DEF Exact, PagesExact
  <2> QED BY <2>1, <2>2
<1>7. Opened(p) \/ (p = 0 /\ initial > 0)
  BY <1>6 DEF Exact, PagesExact
<1>8. ASSUME Opened(p) PROVE DurablyOpened(p)
  <2>1. PICK m \in DOMAIN log : IsNewPage(log[m]) /\ log[m].page = p
    BY <1>8 DEF Opened
  <2>2. ~(n < m)
    <3> SUFFICES ASSUME n < m PROVE FALSE
      OBVIOUS
    <3>1. InOrder(log[n], log[m])
      BY <1>2 DEF Exact, LogShape
    <3>2. p + 1 < p
      BY <1>1, <2>1, <3>1 DEF InOrder
    <3> QED BY <1>3, <3>2
  <2>3. m \in 1 .. flushed_lsn_
    BY <1>2, <2>2
  <2> QED BY <2>1, <2>3 DEF DurablyOpened
<1> QED BY <1>7, <1>8

\* The links, as redo left them and afterwards.
LinksKept(L, w) ==
  \A p \in PageId :
    /\ \A x \in Xid : OpensIn(log, 1 .. flushed_lsn_, x, p + 1) =>
         w[p].next = IF x \in RolledBack(log) THEN disk[p].next ELSE p + 1
    /\ (\A x \in L : ~OpensIn(log, 1 .. flushed_lsn_, x, p + 1)) => pages'[p].next = w[p].next
    /\ \A x \in RolledBack(log) : OpensIn(log, 1 .. flushed_lsn_, x, p + 1) =>
         pages'[p].next = disk[p].next /\ disk[p].next = pages[p].next

LEMMA RecoveredLinksKept ==
  ASSUME Typed, Exact, NEW A, NEW L, NEW w, Recovered(A, L, w)
  PROVE  LinksKept(L, w) /\ L \cap Ended = {}
<1> DEFINE F == flushed_lsn_
<1>1. RedoneLinks(w, 1 .. F) /\ LoserLinks(w, log', L, pages') /\ L \cap Ended = {} /\ undone = {}
  BY DEF Recovered, RedoneInv, LosersUndone, Survey
<1>2. /\ log' \in Seq(RecordType) /\ LogShape(log')
      /\ \A x, p : OpensIn(log', DOMAIN log', x, p) <=> OpensIn(log, 1 .. F, x, p)
      /\ \A x, p : OpensIn(log, 1 .. F, x, p) => OpenedBy(x, p)
      /\ \A n \in 1 .. F : n \in DOMAIN log
  BY RecoveredXacts DEF XactsKept
<1>3. MaxPage \in Nat /\ PageId = 0 .. MaxPage /\ NULL_PAGE_ID = MaxPage + 1
  BY HeapBounds DEF PageId, NULL_PAGE_ID
<1>4. ASSUME NEW p \in PageId, NEW x, OpensIn(log, 1 .. F, x, p + 1)
      PROVE  /\ w[p].next = IF x \in RolledBack(log) THEN disk[p].next ELSE p + 1
             /\ p + 1 \in 1 .. MaxPage
  <2>1. PICK n \in 1 .. F : IsNewPage(log[n]) /\ log[n].xid = x /\ log[n].page = p + 1
    BY <1>4 DEF OpensIn
  <2>2. RecordShape(log[n])
    BY <1>2 DEF Exact, LogShape
  <2>3. log[n].prev = p /\ p + 1 \in 1 .. MaxPage /\ log[n].prev # NULL_PAGE_ID
    BY <1>3, <2>1, <2>2 DEF RecordShape
  <2> QED BY <1>1, <2>1, <2>3 DEF RedoneLinks
<1>5. ASSUME NEW p \in PageId, \A x \in L : ~OpensIn(log, 1 .. F, x, p + 1)
      PROVE  pages'[p].next = w[p].next
  BY <1>1, <1>2, <1>5 DEF LoserLinks
<1>6. ASSUME NEW p \in PageId, NEW x \in RolledBack(log), OpensIn(log, 1 .. F, x, p + 1)
      PROVE  pages'[p].next = disk[p].next /\ disk[p].next = pages[p].next
  <2>1. \A y \in L : ~OpensIn(log, 1 .. F, y, p + 1)
    <3> SUFFICES ASSUME NEW y \in L, OpensIn(log, 1 .. F, y, p + 1) PROVE FALSE
      OBVIOUS
    <3>1. x = y
      BY <1>2, <1>6, OneOpener
    <3> QED BY <1>1, <3>1 DEF Ended
  <2>2. pages'[p].next = w[p].next /\ w[p].next = disk[p].next /\ p + 1 \in 1 .. MaxPage
    BY <1>4, <1>5, <1>6, <2>1
  <2>3. PICK k \in 1 .. MaxPage : k = p + 1 /\ k - 1 = p
    BY <1>3, <2>2
  <2>4. OpenedByRolledBack(k)
    BY <1>2, <1>6, <2>3 DEF OpenedByRolledBack
  <2>5. disk[k - 1].next = pages[k - 1].next
    BY <1>1, <2>4 DEF Exact, RecoverInv, DiskRows
  <2> QED BY <2>2, <2>3, <2>5
<1>7. LinksKept(L, w)
  BY <1>4, <1>5, <1>6 DEF LinksKept
<1> QED BY <1>1, <1>7

LEMMA RecoveredPages ==
  ASSUME Typed, Exact, NEW A, NEW L, NEW w, Recovered(A, L, w), Typed'
  PROVE  PagesExact'
<1> DEFINE F == flushed_lsn_
<1>1. XactsKept /\ PagesKept(w) /\ LinksKept(L, w)
  BY RecoveredXacts, RecoveredPagesKept, RecoveredLinksKept
<1>2. /\ DOMAIN log' = 1 .. F /\ Len(log') = F /\ F \in Nat
      /\ \A n \in 1 .. F : log'[n] = log[n] /\ n \in DOMAIN log /\ n \in Nat
  BY <1>1 DEF XactsKept
<1>3. initial' = initial /\ flushed_lsn_' = F /\ SameRows(w, pages')
  BY DEF Recovered, LosersUndone
<1>4. \A p : Opened(p)' <=> DurablyOpened(p)
  BY <1>2 DEF Opened, DurablyOpened
<1>5. ASSUME NEW p \in PageId
      PROVE  /\ pages'[p].exists <=> Opened(p)' \/ (p = 0 /\ initial' > 0)
             /\ pages'[p].lsn <= Len(log')
  BY <1>1, <1>2, <1>3, <1>4 DEF PagesKept
<1>6. ASSUME NEW p \in PageId, ~pages'[p].exists PROVE pages'[p] = NoPage
  <2>1. w[p] = NoPage /\ ~w[p].exists /\ ~DurablyOpened(p) /\ ~(p = 0 /\ initial > 0)
        /\ pages'[p].exists = w[p].exists /\ pages'[p].lsn = w[p].lsn
    BY <1>1, <1>6 DEF PagesKept
  <2>2. ~DurablyOpened(p + 1)
    BY <2>1, DurablyOpenedBefore
  <2>3. \A x : ~OpensIn(log, 1 .. F, x, p + 1)
    BY <2>2 DEF OpensIn, DurablyOpened
  <2>4. pages'[p].next = w[p].next
    BY <1>1, <2>3 DEF LinksKept
  <2>5. DOMAIN w[p].slots = {} /\ DOMAIN pages'[p].slots = DOMAIN w[p].slots
    <3>1. DOMAIN w[p].slots = {}
      BY <2>1 DEF NoPage
    <3> QED BY <1>3, <3>1 DEF SameRows
  <2>6. pages'[p] \in PageType /\ w[p] \in PageType
    BY DEF Typed, PagesType, Recovered
  <2>7. pages'[p].slots = w[p].slots
    <3>1. pages'[p].slots \in Seq(SlotType) /\ w[p].slots \in Seq(SlotType)
      BY <2>6 DEF PageType
    <3> QED BY <2>5, <3>1
  <2>8. pages'[p] = w[p]
    BY <2>1, <2>4, <2>6, <2>7 DEF PageType
  <2> QED BY <2>1, <2>8
<1>7. ASSUME NEW p \in 1 .. MaxPage, pages'[p].exists PROVE pages'[p - 1].exists
  <2>1. PICK k \in PageId : k = p - 1 /\ k + 1 = p /\ p \in PageId /\ p # 0
    BY HeapBounds DEF PageId
  <2>2. DurablyOpened(k + 1)
    BY <1>1, <1>7, <2>1 DEF PagesKept
  <2>3. DurablyOpened(k) \/ (k = 0 /\ initial > 0)
    BY <2>2, DurablyOpenedBefore
  <2>4. pages'[k].exists
    BY <1>1, <2>3 DEF PagesKept
  <2> QED BY <2>1, <2>4
<1>8. ASSUME initial' > 0 PROVE ~Opened(0)'
  <2>1. ~Opened(0)
    BY <1>3, <1>8 DEF Exact, PagesExact
  <2> QED BY <1>2, <1>4, <2>1 DEF Opened, DurablyOpened
<1>9. ASSUME NEW n \in DOMAIN log' PROVE n <= flushed_lsn_'
  BY <1>2, <1>3
<1> QED BY <1>5, <1>6, <1>7, <1>8, <1>9 DEF PagesExact

\* A page that is there is on the way through the links of redo, if it was so
\* before the crash.
LEMMA RecoveredChain ==
  ASSUME Typed, Exact, NEW A, NEW L, NEW w, Recovered(A, L, w), NEW o \in Chain(Relinked), w[o].exists
  PROVE  o \in Chain(w)
<1> DEFINE F == flushed_lsn_
           D == {p \in PageId : w[p].exists}
           R == RolledBack(log)
<1>1. PagesKept(w) /\ LinksKept(L, w) /\ w \in PagesType
  BY RecoveredPagesKept, RecoveredLinksKept DEF Recovered
<1>2. MaxPage \in Nat /\ PageId = 0 .. MaxPage /\ NULL_PAGE_ID = MaxPage + 1 /\ 0 \in PageId
  BY HeapBounds DEF PageId, NULL_PAGE_ID
<1>3. Relinked \in PagesType /\ o \in PageId
  BY RelinkedFacts, ChainFacts DEF Relinked, Typed
<1>4. ASSUME NEW p \in PageId
      PROVE  /\ Relinked[p].exists = pages[p].exists
             /\ Relinked[p].next = IF \E y \in Xid \ R : OpenedBy(y, p + 1) THEN p + 1 ELSE pages[p].next
  BY RelinkedFacts DEF Relinked, OpenedBy, Typed
<1>5. Forward(Relinked)
  <2> SUFFICES ASSUME NEW p \in PageId PROVE Relinked[p].next \in p + 1 .. NULL_PAGE_ID
    BY DEF Forward
  <2>1. pages[p].next \in p + 1 .. NULL_PAGE_ID
    BY DEF Exact, LinksExact, Forward
  <2>2. p + 1 \in p + 1 .. NULL_PAGE_ID
    BY <1>2
  <2> QED BY <1>4, <2>1, <2>2
<1>6. ASSUME NEW p \in PageId, p + 1 \in D PROVE DurablyOpened(p + 1) /\ p \in D
  <2>1. p + 1 # 0 /\ p + 1 \in PageId /\ w[p + 1].exists
    BY <1>2, <1>6
  <2>2. DurablyOpened(p + 1)
    BY <1>1, <2>1 DEF PagesKept
  <2>3. w[p].exists
    BY <1>1, <2>2, DurablyOpenedBefore DEF PagesKept
  <2> QED BY <2>2, <2>3
<1>7. ASSUME NEW p \in D PROVE \A k \in 0 .. p : k \in D
  <2>1. p \in Nat /\ p \in D /\ \A k \in 0 .. p - 1 : k \in PageId
    BY <1>2, <1>7
  <2>2. \A k \in 0 .. p - 1 : k + 1 \in D => k \in D
    BY <1>6, <2>1
  <2> HIDE DEF D
  <2> QED BY <2>1, <2>2, DownFrom
<1>8. 0 \in D /\ w[0].exists = Relinked[0].exists
  <2>1. 0 \in 0 .. o /\ o \in D
    BY <1>2, <1>3
  <2>2. 0 \in D
    BY <1>7, <2>1
  <2>3. DurablyOpened(0) \/ initial > 0
    BY <1>1, <1>2, <2>2 DEF PagesKept
  <2>4. \A n \in 1 .. F : n \in DOMAIN log
    BY DEF Typed
  <2>5. pages[0].exists
    BY <1>2, <2>3, <2>4 DEF Exact, PagesExact, Opened, DurablyOpened
  <2>6. Relinked[0].exists = pages[0].exists /\ pages[0].exists \in BOOLEAN /\ w[0].exists \in BOOLEAN
    BY <1>1, <1>2, <1>4, PageFacts DEF Typed
  <2>7. w[0].exists
    BY <2>2
  <2> QED BY <2>2, <2>5, <2>6, <2>7
<1>9. ASSUME NEW p \in D, p + 1 \in D PROVE w[p].next = Relinked[p].next
  <2>1. p \in PageId /\ DurablyOpened(p + 1)
    BY <1>6, <1>9
  <2>2. PICK n \in 1 .. F : IsNewPage(log[n]) /\ log[n].page = p + 1
    BY <2>1 DEF DurablyOpened
  <2> DEFINE x == log[n].xid
  <2>3. n \in DOMAIN log /\ x \in Xid /\ log \in Seq(RecordType) /\ LogShape(log)
    <3>1. n \in DOMAIN log
      BY DEF Typed
    <3>2. log[n] \in RecordType
      BY <3>1 DEF Typed
    <3> QED BY <3>1, <3>2 DEF Typed, Exact, RecordType
  <2>4. OpensIn(log, 1 .. F, x, p + 1) /\ OpenedBy(x, p + 1)
    BY <2>2, <2>3 DEF OpensIn, OpenedBy
  <2>5. \A y : OpenedBy(y, p + 1) => y = x
    BY <2>3, <2>4, OneOpener DEF OpenedBy
  <2> HIDE DEF x
  <2>6. CASE x \in R
    <3>1. w[p].next = disk[p].next /\ disk[p].next = pages[p].next
      BY <1>1, <2>1, <2>3, <2>4, <2>6 DEF LinksKept
    <3>2. Relinked[p].next = pages[p].next
      BY <1>4, <2>1, <2>5, <2>6
    <3> QED BY <3>1, <3>2
  <2>7. CASE x \notin R
    <3>1. w[p].next = p + 1
      BY <1>1, <2>1, <2>3, <2>4, <2>7 DEF LinksKept
    <3>2. Relinked[p].next = p + 1
      BY <1>4, <2>1, <2>3, <2>4, <2>7
    <3> QED BY <3>1, <3>2
  <2> QED BY <2>6, <2>7
<1>10. D \in SUBSET PageId /\ o \in D
  BY <1>3
<1> HIDE DEF D
<1> QED BY <1>1, <1>3, <1>5, <1>7, <1>8, <1>9, <1>10, CutKeepsFirst

LEMMA RelinkedAfter ==
  ASSUME Typed, Exact, NEW A, NEW L, NEW w, Recovered(A, L, w), Typed'
  PROVE  Chain(Relinked') = Chain(w)
<1> DEFINE F == flushed_lsn_
           R == RolledBack(log)
           q == RelinkedIn(pages', log')
<1>1. PagesKept(w) /\ LinksKept(L, w) /\ XactsKept /\ L \cap Ended = {} /\ L \subseteq Xid
  BY RecoveredPagesKept, RecoveredLinksKept, RecoveredXacts DEF Recovered, Survey
<1>2. pages' \in PagesType
  BY DEF Typed
<1>3. ASSUME NEW p \in PageId
      PROVE  /\ q[p].exists = pages'[p].exists
             /\ q[p].next = IF \E x \in Xid \ RolledBack(log') : OpensIn(log', DOMAIN log', x, p + 1) THEN p + 1
                            ELSE pages'[p].next
  BY <1>2, RelinkedFacts
<1>4. /\ RolledBack(log') = R
      /\ \A x, p : OpensIn(log', DOMAIN log', x, p) <=> OpensIn(log, 1 .. F, x, p)
  BY <1>1 DEF XactsKept
<1>5. Relinked' = q
  BY DEF Relinked
<1> HIDE DEF q
<1>6. ASSUME NEW p \in PageId PROVE q[p].next = w[p].next
  <2>1. CASE \E x \in Xid \ R : OpensIn(log, 1 .. F, x, p + 1)
    <3>1. q[p].next = p + 1
      BY <1>3, <1>4, <2>1
    <3>2. w[p].next = p + 1
      BY <1>1, <2>1 DEF LinksKept
    <3> QED BY <3>1, <3>2
  <2>2. CASE ~\E x \in Xid \ R : OpensIn(log, 1 .. F, x, p + 1)
    <3>1. q[p].next = pages'[p].next
      BY <1>3, <1>4, <2>2
    <3>2. \A x \in L : ~OpensIn(log, 1 .. F, x, p + 1)
      BY <1>1, <2>2 DEF Ended
    <3>3. pages'[p].next = w[p].next
      BY <1>1, <3>2 DEF LinksKept
    <3> QED BY <3>1, <3>3
  <2> QED BY <2>1, <2>2
<1>7. q[0].exists = w[0].exists
  <2>1. 0 \in PageId
    BY HeapBounds DEF PageId
  <2> QED BY <1>1, <1>3, <2>1 DEF PagesKept
<1>8. Chain(q) = Chain(w)
  BY <1>6, <1>7, ChainFrame
<1> QED BY <1>5, <1>8

LEMMA RecoveredLinks ==
  ASSUME Typed, Exact, NEW A, NEW L, NEW w, Recovered(A, L, w), Typed'
  PROVE  LinksExact'
<1> DEFINE F == flushed_lsn_
           R == RolledBack(log)
           C == Committed(log)
<1>1. /\ PagesKept(w) /\ LinksKept(L, w) /\ XactsKept /\ RowsKept /\ L \cap Ended = {} /\ L \subseteq Xid
      /\ LoserLinks(w, log', L, pages') /\ SameRows(w, pages') /\ w \in PagesType /\ GoodLinks(pages') /\ active' = {}
  BY RecoveredPagesKept, RecoveredLinksKept, RecoveredXacts, RecoveredRowsKept DEF Recovered, Survey, LosersUndone
<1>2. /\ RolledBack(log') = R /\ Live' = C /\ log' \in Seq(RecordType) /\ LogShape(log')
      /\ \A x, p : OpenedBy(x, p)' <=> OpensIn(log, 1 .. F, x, p)
      /\ \A x, p : OpensIn(log', DOMAIN log', x, p) <=> OpensIn(log, 1 .. F, x, p)
  BY <1>1 DEF XactsKept
<1>3. Forward(pages')
  BY <1>1 DEF LoserLinks
<1>4. \A p \in PageId : pages'[p].next # NULL_PAGE_ID => pages'[pages'[p].next].exists
  BY <1>1 DEF GoodLinks
<1>5. ASSUME NEW p \in 1 .. MaxPage, NEW x \in Live', OpenedBy(x, p)' PROVE pages'[p - 1].next = p
  <2>1. PICK k \in PageId : k = p - 1 /\ k + 1 = p
    BY HeapBounds DEF PageId
  <2>2. OpensIn(log, 1 .. F, x, k + 1) /\ x \in C /\ x \in Xid /\ x \notin R
    <3>1. x \in C /\ x \in Xid
      BY <1>2, <1>5 DEF Committed
    <3>2. x \notin R
      BY <3>1 DEF Exact, RecoverInv, XactsExact
    <3> QED BY <1>2, <1>5, <2>1, <3>1, <3>2
  <2>3. w[k].next = k + 1
    BY <1>1, <2>2 DEF LinksKept
  <2>4. \A y \in L : ~OpensIn(log, 1 .. F, y, k + 1)
    <3> SUFFICES ASSUME NEW y \in L, OpensIn(log, 1 .. F, y, k + 1) PROVE FALSE
      OBVIOUS
    <3>1. x = y
      BY <1>2, <2>2, OneOpener
    <3> QED BY <1>1, <2>2, <3>1 DEF Ended
  <2>5. pages'[k].next = w[k].next
    BY <1>1, <2>4 DEF LinksKept
  <2> QED BY <2>1, <2>3, <2>5
<1>6. ASSUME NEW p \in PageId, NEW i \in DOMAIN pages'[p].slots
      PROVE  /\ pages'[p].slots[i].xmin = pages[p].slots[i].xmin /\ i \in DOMAIN pages[p].slots
             /\ i \in DOMAIN w[p].slots /\ w[p].slots[i].xmin = pages'[p].slots[i].xmin
             /\ pages[p].slots[i].xmin \notin R => p \in Chain(w)
  <2>1. pages'[p].slots[i].xmin = pages[p].slots[i].xmin /\ i \in DOMAIN pages[p].slots
    BY <1>1, <1>6 DEF RowsKept
  <2>2. i \in DOMAIN w[p].slots /\ w[p].slots[i].xmin = pages'[p].slots[i].xmin
    BY <1>1, <1>6 DEF SameRows
  <2>3. ASSUME pages[p].slots[i].xmin \notin R PROVE p \in Chain(w)
    <3>1. p \in Chain(Relinked)
      BY <2>1, <2>3 DEF Exact, LinksExact
    <3>2. w[p].exists
      <4>1. ~w[p].exists => w[p] = NoPage
        BY <1>1 DEF PagesKept
      <4>2. w[p] = NoPage => DOMAIN w[p].slots = {}
        BY DEF NoPage
      <4> QED BY <2>2, <4>1, <4>2
    <3> QED BY <3>1, <3>2, RecoveredChain
  <2> QED BY <2>1, <2>2, <2>3
<1>7. ASSUME NEW p \in PageId \ Chain(pages'), NEW i \in DOMAIN pages'[p].slots
      PROVE  pages'[p].slots[i].xmin \notin Live' \cup {NULL_XID}
  <2> SUFFICES ASSUME pages'[p].slots[i].xmin \in C \cup {NULL_XID} PROVE FALSE
    BY <1>2
  <2>1. pages[p].slots[i].xmin \notin R
    <3>1. C \cap R = {} /\ NULL_XID \notin R
      BY LiveNotRolledBack DEF Exact, RecoverInv, XactsExact
    <3> QED BY <1>6, <3>1
  <2>2. p \in Chain(w) /\ i \in DOMAIN w[p].slots /\ w[p].slots[i].xmin \in C \cup {NULL_XID}
    BY <1>6, <2>1
  <2> QED BY <1>1, <2>2 DEF LoserLinks
<1>8. Chain(Relinked') = Chain(w)
  BY RelinkedAfter
<1>9. ASSUME NEW p \in PageId \ Chain(Relinked'), NEW i \in DOMAIN pages'[p].slots
      PROVE  pages'[p].slots[i].xmin \in RolledBack(log')
  BY <1>2, <1>6, <1>8
<1>10. ASSUME NEW p \in Chain(Relinked') PROVE pages'[p].next \in Chain(Relinked') \cup {NULL_PAGE_ID}
  BY <1>1, <1>8 DEF LoserLinks
<1>11. Forward(pages)'
  BY <1>3 DEF Forward
<1> QED BY <1>1, <1>4, <1>5, <1>7, <1>9, <1>10, <1>11 DEF LinksExact

LEMMA RecoveredDisk ==
  ASSUME Typed, Exact, NEW A, NEW L, NEW w, Recovered(A, L, w)
  PROVE  RecoverInv'
<1> DEFINE F == flushed_lsn_
<1>1. /\ DiskRows /\ DiskMarks /\ Coverage /\ XactsExact /\ RowsExact
      /\ Settled(checkpoint.att, checkpoint.dpt, checkpoint.pos)
  BY DEF Exact, RowsInv, RecoverInv
<1>2. RowsKept /\ XactsKept /\ LinksKept(L, w) /\ L \cap Ended = {}
  BY RecoveredRowsKept, RecoveredXacts, RecoveredLinksKept
<1>3. /\ undone = {} /\ undone' = {} /\ Survey(A, L) /\ att_' = L /\ dpt_' = A /\ active' = {}
      /\ UNCHANGED <<disk, flushed_lsn_, checkpoint, initial>>
  BY DEF Recovered
<1>4. /\ DOMAIN log' = 1 .. F /\ Len(log') = F /\ F \in Nat
      /\ \A n \in 1 .. F : log'[n] = log[n] /\ n \in DOMAIN log /\ n \in Nat
      /\ Committed(log') = Committed(log) /\ RolledBack(log') = RolledBack(log)
      /\ Live' \subseteq Live /\ Ended' = Ended
  BY <1>2 DEF XactsKept
<1>5. checkpoint.pos \in 0 .. F
  BY DEF Typed
<1>6. DiskRows'
  <2>1. ASSUME NEW p \in PageId, NEW i \in DOMAIN disk[p].slots
        PROVE  /\ i \in DOMAIN pages'[p].slots
               /\ disk[p].slots[i].row = pages'[p].slots[i].row
               /\ disk[p].slots[i].xmin = pages'[p].slots[i].xmin
               /\ disk[p].slots[i].row <= F
    <3>1. /\ i \in DOMAIN pages[p].slots
          /\ disk[p].slots[i].row = pages[p].slots[i].row
          /\ disk[p].slots[i].xmin = pages[p].slots[i].xmin
          /\ disk[p].slots[i].row <= F
      BY <1>1 DEF DiskRows
    <3>2. i \in DOMAIN pages'[p].slots
      BY <1>2, <3>1 DEF RowsKept
    <3> QED BY <1>2, <3>1, <3>2 DEF RowsKept
  <2>2. ASSUME NEW p \in PageId, disk[p].exists
        PROVE  \/ p = 0 /\ initial > 0
               \/ \E n \in 1 .. F : IsNewPage(log'[n]) /\ log'[n].page = p
    BY <1>1, <1>4, <2>2 DEF DiskRows
  <2>3. ASSUME NEW p \in 1 .. MaxPage, OpenedByRolledBack(p)'
        PROVE  disk[p - 1].next = pages'[p - 1].next
    <3>1. p - 1 \in PageId /\ p - 1 + 1 = p
      BY HeapBounds DEF PageId
    <3>2. PICK x \in RolledBack(log) : OpenedBy(x, p)'
      BY <1>4, <2>3 DEF OpenedByRolledBack
    <3>3. OpensIn(log, 1 .. F, x, p)
      BY <1>2, <3>2 DEF XactsKept
    <3>4. PICK q \in PageId : q = p - 1 /\ q + 1 = p
      BY <3>1
    <3>5. pages'[q].next = disk[q].next
      BY <1>2, <3>3, <3>4 DEF LinksKept
    <3> QED BY <3>4, <3>5
  <2>4. /\ \A i \in 1 .. initial : i \in DOMAIN disk[0].slots
        /\ \A p \in PageId : ~disk[p].exists => disk[p] = NoPage
        /\ initial > 0 => disk[0].exists
        /\ \A p \in PageId : disk[p].lsn <= F
        /\ Forward(disk)
    BY <1>1 DEF DiskRows
  <2>5. Forward(disk)'
    BY <1>3, <2>4 DEF Forward
  <2> QED BY <1>3, <2>1, <2>2, <2>3, <2>4, <2>5 DEF DiskRows
<1>7. DiskMarks'
  <2> SUFFICES ASSUME NEW p \in PageId, NEW i \in DOMAIN disk[p].slots
               PROVE  LET s == disk[p].slots[i] IN
                      /\ \/ s.xmax = NULL_XID
                         \/ s.xmax = s.xmin /\ s.xmin \notin Live'
                         \/ DeletesIn(log', 1 .. F, s.xmax, p, i)
                      /\ s.xmin \in RolledBack(log') => s.xmax = s.xmin
                      /\ s.xmax \in RolledBack(log') => s.xmax = s.xmin
    BY <1>3 DEF DiskMarks
  <2>1. PICK s : s = disk[p].slots[i]
    OBVIOUS
  <2>2. /\ \/ s.xmax = NULL_XID
           \/ s.xmax = s.xmin /\ s.xmin \notin Live
           \/ DeletesIn(log, 1 .. F, s.xmax, p, i)
        /\ s.xmin \in RolledBack(log) => s.xmax = s.xmin
        /\ s.xmax \in RolledBack(log) => s.xmax = s.xmin
    BY <1>1, <1>3, <2>1 DEF DiskMarks
  <2>3. DeletesIn(log, 1 .. F, s.xmax, p, i) => DeletesIn(log', 1 .. F, s.xmax, p, i)
    BY <1>4 DEF DeletesIn
  <2>4. /\ \/ s.xmax = NULL_XID
           \/ s.xmax = s.xmin /\ s.xmin \notin Live'
           \/ DeletesIn(log', 1 .. F, s.xmax, p, i)
        /\ s.xmin \in RolledBack(log') => s.xmax = s.xmin
        /\ s.xmax \in RolledBack(log') => s.xmax = s.xmin
    BY <1>4, <2>2, <2>3
  <2> QED BY <2>1, <2>4
<1>8. Coverage'
  <2>1. ASSUME NEW n \in DOMAIN log', log'[n].page \in PageId, ~OnDisk(n)'
        PROVE  /\ n > disk[log'[n].page].lsn
               /\ InRange(dpt_, n)'
               /\ n <= checkpoint.pos => InRange(checkpoint.dpt, n)'
    <3>1. n \in 1 .. F /\ n \in DOMAIN log /\ log'[n] = log[n]
      BY <1>4
    <3>2. ~OnDisk(n)
      BY <1>3, <1>4, <2>1, <3>1 DEF OnDisk
    <3>3. /\ n > disk[log[n].page].lsn
          /\ n <= checkpoint.pos => InRange(checkpoint.dpt, n)
      BY <1>1, <2>1, <3>1, <3>2 DEF Coverage
    <3>4. InRange(A, n)
      BY <1>3, <2>1, <3>1, <3>2 DEF Survey
    <3> QED BY <1>3, <3>1, <3>3, <3>4 DEF InRange
  <2>2. ASSUME NEW p \in PageId PROVE A[p] <= F /\ checkpoint.dpt[p] <= checkpoint.pos
    BY <1>1, <1>3 DEF Coverage, Survey
  <2> QED BY <1>3, <1>4, <2>1, <2>2 DEF Coverage
<1>9. XactsExact'
  <2>1. ASSUME NEW n \in DOMAIN log', IsEnd(log'[n]) PROVE n <= F
    BY <1>4
  <2>2. ASSUME NEW n \in 1 .. checkpoint.pos PROVE IsEnd(log'[n]) => log'[n].xid \notin checkpoint.att
    <3>1. n \in 1 .. F
      BY <1>4, <1>5
    <3> QED BY <1>1, <1>4, <3>1 DEF XactsExact
  <2>3. Committed(log) \cap RolledBack(log) = {}
    BY <1>1 DEF XactsExact
  <2> QED BY <1>2, <1>3, <1>4, <2>1, <2>2, <2>3 DEF XactsExact
<1>10. ASSUME NEW n \in 1 .. F
       PROVE  /\ UndoneOnDisk(n)' <=> UndoneOnDisk(n)
              /\ InRange(dpt_, n)' <=> InRange(A, n)
              /\ InRange(checkpoint.dpt, n)' <=> InRange(checkpoint.dpt, n)
  BY <1>3, <1>4, <1>10 DEF UndoneOnDisk, InRange
<1>11. Settled(att_, dpt_, Len(log))'
  <2> SUFFICES ASSUME NEW n \in 1 .. F, log'[n].page \in PageId, log'[n].xid \notin L \cup Ended'
               PROVE  ~InRange(dpt_, n)' /\ UndoneOnDisk(n)'
    BY <1>3, <1>4 DEF Settled
  <2>1. log[n].page \in PageId /\ log[n].xid \notin L \cup Ended
    BY <1>4
  <2>2. ~InRange(A, n) /\ UndoneOnDisk(n)
    BY <1>3, <2>1 DEF Survey, Settled
  <2> QED BY <1>10, <2>2
<1>12. Settled(checkpoint.att, checkpoint.dpt, checkpoint.pos)'
  <2> SUFFICES ASSUME NEW n \in 1 .. checkpoint.pos, log'[n].page \in PageId, log'[n].xid \notin checkpoint.att \cup Ended'
               PROVE  ~InRange(checkpoint.dpt, n)' /\ UndoneOnDisk(n)'
    BY <1>3 DEF Settled
  <2>1. n \in 1 .. F /\ log'[n] = log[n]
    BY <1>4, <1>5
  <2>2. ~InRange(checkpoint.dpt, n) /\ UndoneOnDisk(n)
    BY <1>1, <1>4, <2>1 DEF Settled
  <2> QED BY <1>10, <2>1, <2>2
<1> QED BY <1>6, <1>7, <1>8, <1>9, <1>11, <1>12 DEF RecoverInv

LEMMA CrashExact ==
  ASSUME Typed, Exact, Crash, initial' = initial, gaps' = {}
  PROVE  Exact'
<1>1. PICK A, L, w : Recovered(A, L, w)
  BY CrashRecovers
<1>2. Typed'
  BY CrashType
<1>3. RowsInv' /\ PagesExact' /\ LinksExact' /\ RecoverInv'
  BY <1>1, <1>2, RecoveredRows, RecoveredPages, RecoveredLinks, RecoveredDisk
<1>4. LogShape(log')
  BY <1>1, RecoveredXacts DEF XactsKept
<1> QED BY <1>3, <1>4 DEF Exact

----------------------------------------------------------------------------
(* The invariant is inductive.                                             *)

\* What a page holds after a clean shutdown.
LEMMA InitPages ==
  ASSUME Init
  PROVE  /\ initial \in 0 .. Capacity /\ pages \in PagesType
         /\ \A p \in PageId :
              /\ pages[p].lsn = NoLsn /\ pages[p].next = NULL_PAGE_ID
              /\ pages[p].exists <=> p = 0 /\ initial > 0
              /\ ~pages[p].exists => pages[p] = NoPage
              /\ DOMAIN pages[p].slots = IF p = 0 THEN 1 .. initial ELSE {}
              /\ \A i \in DOMAIN pages[p].slots : i \in Nat /\ pages[p].slots[i] = Slot(-i, NULL_XID)
<1> DEFINE rows == [i \in 1 .. initial |-> Slot(-i, NULL_XID)]
           first == [Blank EXCEPT !.slots = rows]
<1>1. initial \in 0 .. Capacity /\ Capacity \in Nat /\ MaxPage \in Nat /\ MaxXid \in Nat /\ MaxLsn \in Nat
  BY HeapBounds DEF Init
<1>2. rows \in Seq(SlotType) /\ Len(rows) = initial /\ DOMAIN rows = 1 .. initial
  <2>1. ASSUME NEW i \in 1 .. initial PROVE Slot(-i, NULL_XID) \in SlotType
    BY <1>1 DEF Slot, SlotType, NULL_XID
  <2>2. initial \in Nat
    BY <1>1
  <2>3. rows \in [1 .. initial -> SlotType]
    BY <2>1
  <2> QED BY <2>2, <2>3
<1>3. /\ NoPage.lsn = NoLsn /\ NoPage.next = NULL_PAGE_ID /\ NoPage.exists = FALSE /\ NoPage.slots = <<>>
      /\ DOMAIN NoPage.slots = {} /\ NoPage \in PageType
  BY <1>1 DEF NoPage, PageType, NoLsn, NULL_PAGE_ID
<1>4. /\ first.lsn = NoLsn /\ first.next = NULL_PAGE_ID /\ first.exists = TRUE /\ first.slots = rows
      /\ first \in PageType
  <2> HIDE DEF rows
  <2>1. first = [lsn |-> NoLsn, next |-> NULL_PAGE_ID, slots |-> rows, exists |-> TRUE]
    <3> DEFINE none == <<>>
               yes == TRUE
    <3>1. Blank = [lsn |-> NoLsn, next |-> NULL_PAGE_ID, slots |-> none, exists |-> yes]
      BY BlankIs, Zenon
    <3> HIDE DEF none, yes
    <3>2. first = [lsn |-> NoLsn, next |-> NULL_PAGE_ID, slots |-> rows, exists |-> yes]
      BY <3>1
    <3> QED BY <3>2, Zenon DEF yes
  <2>2. NoLsn \in 0 .. MaxLsn /\ NULL_PAGE_ID \in 0 .. NULL_PAGE_ID /\ Len(rows) <= Capacity
    BY <1>1, <1>2 DEF NoLsn, NULL_PAGE_ID
  <2> HIDE DEF first
  <2> QED BY <1>2, <2>1, <2>2 DEF PageType
<1>5. ASSUME NEW p \in PageId PROVE pages[p] = IF p = 0 /\ initial > 0 THEN first ELSE NoPage
  BY DEF Init
<1>6. pages \in PagesType
  <2>1. pages = [p \in PageId |-> IF p = 0 /\ initial > 0 THEN first ELSE NoPage]
    BY DEF Init
  <2> HIDE DEF first
  <2> QED BY <1>3, <1>4, <2>1 DEF PagesType
<1>7. ASSUME NEW p \in PageId
      PROVE  /\ pages[p].lsn = NoLsn /\ pages[p].next = NULL_PAGE_ID
             /\ pages[p].exists <=> p = 0 /\ initial > 0
             /\ ~pages[p].exists => pages[p] = NoPage
             /\ DOMAIN pages[p].slots = IF p = 0 THEN 1 .. initial ELSE {}
             /\ \A i \in DOMAIN pages[p].slots : i \in Nat /\ pages[p].slots[i] = Slot(-i, NULL_XID)
  <2>1. CASE p = 0 /\ initial > 0
    <3>1. pages[p] = first
      BY <1>5, <2>1
    <3>2. \A i \in 1 .. initial : i \in Nat /\ rows[i] = Slot(-i, NULL_XID)
      BY <1>1
    <3> HIDE DEF rows, first
    <3> QED BY <1>2, <1>4, <2>1, <3>1, <3>2
  <2>2. CASE ~(p = 0 /\ initial > 0)
    <3>1. pages[p] = NoPage
      BY <1>5, <2>2
    <3>2. p = 0 => 1 .. initial = {}
      BY <1>1, <2>2
    <3> QED BY <1>3, <2>2, <3>1, <3>2
  <2> QED BY <2>1, <2>2
<1> QED BY <1>1, <1>6, <1>7

LEMMA InitIInv ==
  ASSUME Init
  PROVE  IInv
<1>1. /\ initial \in 0 .. Capacity /\ pages \in PagesType /\ disk = pages /\ initial \in Nat
      /\ \A p \in PageId :
           /\ pages[p].lsn = NoLsn /\ pages[p].next = NULL_PAGE_ID
           /\ pages[p].exists <=> p = 0 /\ initial > 0
           /\ ~pages[p].exists => pages[p] = NoPage
           /\ DOMAIN pages[p].slots = IF p = 0 THEN 1 .. initial ELSE {}
           /\ \A i \in DOMAIN pages[p].slots : i \in Nat /\ pages[p].slots[i] = Slot(-i, NULL_XID)
  BY InitPages, HeapBounds DEF Init
<1>2. /\ MaxXid \in Nat /\ MaxLsn \in Nat /\ MaxPage \in Nat /\ PageId = 0 .. MaxPage /\ NULL_PAGE_ID = MaxPage + 1
  BY HeapBounds DEF PageId, NULL_PAGE_ID
<1>3. /\ log = <<>> /\ Len(log) = 0 /\ DOMAIN log = {} /\ 1 .. Len(log) = {} /\ log \in Seq(RecordType)
      /\ flushed_lsn_ = 0 /\ att_ = {} /\ active = {} /\ undone = {}
      /\ dpt_ = [p \in PageId |-> NoLsn] /\ checkpoint = [pos |-> 0, att |-> {}, dpt |-> dpt_]
      /\ next_xid_ = 1 /\ control_xid = 1
  BY DEF Init
<1>4. /\ dpt_ \in [PageId -> 0 .. MaxLsn] /\ \A p \in PageId : dpt_[p] = 0
      /\ checkpoint.pos = 0 /\ checkpoint.att = {} /\ checkpoint.dpt = dpt_
  BY <1>2, <1>3 DEF NoLsn
<1>5. Typed
  BY <1>1, <1>2, <1>3, <1>4 DEF Typed
<1>6. Committed(log) = {} /\ RolledBack(log) = {} /\ Live = {} /\ Ended = {}
  BY <1>3 DEF Committed, RolledBack, Live, Ended, OfType
<1>7. \A i : Slot(-i, NULL_XID).row = -i /\ Slot(-i, NULL_XID).xmin = NULL_XID /\ Slot(-i, NULL_XID).xmax = NULL_XID
  BY DEF Slot
<1>8. \A p \in PageId : \A i \in DOMAIN pages[p].slots :
        /\ p = 0 /\ i \in 1 .. initial
        /\ pages[p].slots[i].row = -i /\ pages[p].slots[i].xmin = NULL_XID /\ pages[p].slots[i].xmax = NULL_XID
  BY <1>1, <1>7
<1>9. RowsInv
  <2>1. RowsExact
    <3>1. ASSUME NEW p \in PageId, NEW i \in DOMAIN pages[p].slots PROVE RowOf(p, i, pages[p].slots[i])
      <4>1. i <= initial
        BY <1>1, <1>8
      <4> QED BY <1>8, <4>1 DEF RowOf
    <3> QED BY <3>1 DEF RowsExact
  <2>2. InitialPresent
    <3>1. 0 \in PageId
      BY <1>2
    <3> QED BY <1>1, <1>8, <3>1 DEF InitialPresent
  <2>3. MarksExact
    BY <1>6, <1>8 DEF MarksExact, MarkOf
  <2> QED BY <1>3, <2>1, <2>2, <2>3 DEF RowsInv, InsertsPresent, DeletesExact
<1>10. \A p : ~Opened(p)
  BY <1>3 DEF Opened
<1>11. PagesExact
  <2>1. ASSUME NEW p \in 1 .. MaxPage PROVE p \in PageId /\ p # 0
    BY <1>2
  <2>2. \A p \in 1 .. MaxPage : ~pages[p].exists
    BY <1>1, <2>1
  <2>3. \A p \in PageId : pages[p].exists <=> Opened(p) \/ (p = 0 /\ initial > 0)
    BY <1>1, <1>10
  <2>4. \A p \in PageId : pages[p].lsn <= Len(log) /\ (~pages[p].exists => pages[p] = NoPage)
    BY <1>1, <1>3 DEF NoLsn
  <2> QED BY <1>3, <1>10, <2>2, <2>3, <2>4 DEF PagesExact
<1>12. Forward(pages)
  BY <1>1, <1>2 DEF Forward
<1>13. \A x, p : ~OpenedBy(x, p)
  BY <1>3 DEF OpenedBy, OpensIn
<1>14. LinksExact
  <2>1. Relinked \in PagesType /\ 0 \in PageId /\ Relinked[0].exists = pages[0].exists
    BY <1>1, <1>2, RelinkedFacts DEF Relinked
  <2>2. Chain(Relinked) \subseteq PageId /\ (pages[0].exists => 0 \in Chain(pages) /\ 0 \in Chain(Relinked))
    BY <1>1, <2>1, ChainFacts
  <2>3. ASSUME NEW p \in PageId, NEW i \in DOMAIN pages[p].slots PROVE p \in Chain(pages) /\ p \in Chain(Relinked)
    <3>1. p = 0 /\ initial > 0
      BY <1>1, <1>8
    <3>2. pages[0].exists
      BY <1>1, <2>1, <3>1
    <3> QED BY <2>2, <3>1, <3>2
  <2> QED BY <1>1, <1>3, <1>6, <1>12, <1>13, <2>2, <2>3 DEF LinksExact
<1>15. DiskRows
  <2>1. \A p \in PageId : \A i \in DOMAIN disk[p].slots : disk[p].slots[i].row <= flushed_lsn_
    <3>1. ASSUME NEW p \in PageId, NEW i \in DOMAIN pages[p].slots PROVE pages[p].slots[i].row <= 0
      <4>1. i \in Nat /\ pages[p].slots[i].row = -i
        BY <1>1, <1>8
      <4> QED BY <4>1
    <3> QED BY <1>1, <1>3, <3>1
  <2>2. 0 \in PageId
    BY <1>2
  <2>3. \A p \in PageId : disk[p].lsn <= flushed_lsn_ /\ (~disk[p].exists => disk[p] = NoPage)
    BY <1>1, <1>3 DEF NoLsn
  <2>4. /\ \A p \in PageId : disk[p].exists => p = 0 /\ initial > 0
        /\ initial > 0 => disk[0].exists
        /\ \A i \in 1 .. initial : i \in DOMAIN disk[0].slots
    BY <1>1, <2>2
  <2>5. \A p : ~OpenedByRolledBack(p)
    BY <1>6 DEF OpenedByRolledBack
  <2> QED BY <1>1, <1>12, <2>1, <2>3, <2>4, <2>5 DEF DiskRows
<1>16. DiskMarks
  BY <1>1, <1>6, <1>8 DEF DiskMarks
<1>17. Coverage /\ XactsExact /\ Settled(att_, dpt_, Len(log)) /\ Settled(checkpoint.att, checkpoint.dpt, checkpoint.pos)
  <2>1. 1 .. checkpoint.pos = {}
    BY <1>4
  <2> QED BY <1>3, <1>4, <1>6, <2>1 DEF Coverage, XactsExact, Settled
<1>18. LogShape(log)
  BY <1>3 DEF LogShape
<1> QED BY <1>5, <1>9, <1>11, <1>14, <1>15, <1>16, <1>17, <1>18 DEF IInv, Exact, RecoverInv

LEMMA StepIInv ==
  ASSUME IInv, Next
  PROVE  IInv'
<1>1. gaps = {} /\ Step /\ initial' = initial
  BY DEF Next
<1>2. Typed /\ Exact
  BY <1>1 DEF IInv
<1> SUFFICES Typed' /\ (gaps' = {} => Exact')
  BY DEF IInv
<1>3. CASE Begin
  BY <1>1, <1>2, <1>3, BeginType, BeginExact
<1>4. ASSUME NEW x \in Xid, InsertRecord(x) PROVE Typed' /\ (gaps' = {} => Exact')
  <2>1. \/ \E p : Filled(x, p)
        \/ \E last, new : Opening(x, last, new) /\ (gaps' = {} => ~pages[new].exists)
    BY <1>1, <1>2, <1>4, InsertParts
  <2>2. ASSUME NEW p, Filled(x, p) PROVE Typed' /\ Exact'
    BY <1>2, <2>2, FilledPages, FilledExact
  <2>3. ASSUME NEW last, NEW new, Opening(x, last, new), gaps' = {} => ~pages[new].exists
        PROVE  Typed' /\ (gaps' = {} => Exact')
    <3>1. Typed'
      BY <1>2, <2>3, OpeningPages DEF OpenedPages
    <3>2. gaps' = {} => Exact'
      BY <1>2, <2>3, OpeningExact
    <3> QED BY <3>1, <3>2
  <2> QED BY <2>1, <2>2, <2>3
<1>5. ASSUME NEW x \in Xid, DeleteRecord(x) PROVE Typed' /\ Exact'
  <2>1. PICK p, i : Deleted(x, p, i)
    BY <1>1, <1>2, <1>5, DeleteParts
  <2> QED BY <1>2, <2>1, DeletedPages, DeletedExact
<1>6. ASSUME NEW x \in Xid, Commit(x) PROVE Typed' /\ Exact'
  BY <1>1, <1>2, <1>6, CommitType, CommitExact
<1>7. ASSUME NEW x \in Xid, Rollback(x) PROVE Typed' /\ (gaps' = {} => Exact')
  BY <1>1, <1>2, <1>7, RollbackParts, RollbackExact
<1>8. ASSUME NEW p \in PageId, FlushPage(p) PROVE Typed' /\ Exact'
  BY <1>1, <1>2, <1>8, FlushType, FlushExact
<1>9. CASE Checkpoint
  BY <1>1, <1>2, <1>9, CheckpointType, CheckpointExact
<1>10. CASE Restart
  BY <1>1, <1>2, <1>10, RestartType, RestartExact
<1>11. CASE Crash
  BY <1>1, <1>2, <1>11, CrashType, CrashExact
<1>12. CASE CrashEvicting
  BY <1>1, <1>2, <1>12, CrashEvictingType
<1> QED BY <1>1, <1>3, <1>4, <1>5, <1>6, <1>7, <1>8, <1>9, <1>10, <1>11, <1>12 DEF Step

LEMMA StutterIInv ==
  ASSUME IInv, UNCHANGED vars
  PROVE  IInv'
<1>1. UNCHANGED <<pages, disk, log, flushed_lsn_, att_, dpt_, checkpoint, active, next_xid_,
                  control_xid, undone, initial, gaps>>
  BY DEF vars
<1>2. Typed => Typed'
  BY <1>1 DEF Typed
<1>3. Live' = Live /\ Ended' = Ended /\ Relinked' = Relinked
  BY <1>1 DEF Live, Ended, Relinked
<1>4. /\ \A x, p, i : Deletes(x, p, i)' <=> Deletes(x, p, i)
      /\ \A x, p : OpenedBy(x, p)' <=> OpenedBy(x, p)
      /\ \A p : Opened(p)' <=> Opened(p)
      /\ \A p, i, s : RowOf(p, i, s)' <=> RowOf(p, i, s)
  BY <1>1 DEF Deletes, OpenedBy, Opened, RowOf
<1>5. \A p, i, s : MarkOf(p, i, s)' <=> MarkOf(p, i, s)
  BY <1>3, <1>4 DEF MarkOf
<1>6. RowsInv => RowsInv'
  BY <1>1, <1>3, <1>4, <1>5 DEF RowsInv, RowsExact, InsertsPresent, InitialPresent, MarksExact, DeletesExact
<1>7. PagesExact => PagesExact'
  BY <1>1, <1>4 DEF PagesExact
<1>8. LinksExact => LinksExact'
  BY <1>1, <1>3, <1>4 DEF LinksExact
<1>9. \A p : OpenedByRolledBack(p)' <=> OpenedByRolledBack(p)
  BY <1>1, <1>4 DEF OpenedByRolledBack
<1>10. (DiskRows => DiskRows') /\ (DiskMarks => DiskMarks')
  BY <1>1, <1>3, <1>9 DEF DiskRows, DiskMarks
<1>11. \A n : /\ OnDisk(n)' <=> OnDisk(n)
              /\ UndoneOnDisk(n)' <=> UndoneOnDisk(n)
              /\ InRange(dpt_, n)' <=> InRange(dpt_, n)
              /\ InRange(checkpoint.dpt, n)' <=> InRange(checkpoint.dpt, n)
  BY <1>1, <1>3 DEF OnDisk, UndoneOnDisk, InRange
<1>12. /\ Coverage => Coverage'
       /\ Settled(att_, dpt_, Len(log)) => Settled(att_, dpt_, Len(log))'
       /\ Settled(checkpoint.att, checkpoint.dpt, checkpoint.pos) =>
            Settled(checkpoint.att, checkpoint.dpt, checkpoint.pos)'
  BY <1>1, <1>3, <1>11 DEF Coverage, Settled
<1>13. XactsExact => XactsExact'
  BY <1>1, <1>3 DEF XactsExact
<1>14. LogShape(log) => LogShape(log')
  BY <1>1
<1> QED BY <1>1, <1>2, <1>6, <1>7, <1>8, <1>10, <1>12, <1>13, <1>14 DEF IInv, Exact, RecoverInv

LEMMA HeapInvariant == Spec => []IInv
<1>1. Init => IInv
  BY InitIInv
<1>2. IInv /\ [Next]_vars => IInv'
  BY StepIInv, StutterIInv
<1> QED BY <1>1, <1>2, PTL DEF Spec

----------------------------------------------------------------------------
(* What the invariant says of a scan.                                      *)

LEMMA TypedPages ==
  ASSUME Typed
  PROVE  TypeOK
<1>1. ASSUME NEW p \in PageId
      PROVE  /\ pages[p].lsn \in 0 .. MaxLsn /\ pages[p].next \in PageId \cup {NULL_PAGE_ID}
             /\ Len(pages[p].slots) <= Capacity
             /\ \A s \in Range(pages[p].slots) : s.xmin \in 0 .. MaxXid /\ s.xmax \in 0 .. MaxXid
  <2>1. /\ pages[p].lsn \in 0 .. MaxLsn /\ pages[p].next \in 0 .. NULL_PAGE_ID
        /\ Len(pages[p].slots) <= Capacity
    BY PageFacts DEF Typed
  <2>2. pages[p].next \in PageId \cup {NULL_PAGE_ID}
    BY <2>1, HeapBounds DEF PageId, NULL_PAGE_ID
  <2>3. ASSUME NEW s \in Range(pages[p].slots) PROVE s.xmin \in 0 .. MaxXid /\ s.xmax \in 0 .. MaxXid
    <3>1. PICK i \in DOMAIN pages[p].slots : s = pages[p].slots[i]
      BY <2>3 DEF Range
    <3> QED BY <3>1, SlotFacts DEF Typed
  <2> QED BY <2>1, <2>2, <2>3
<1> QED BY <1>1 DEF TypeOK, Typed

LEMMA ExactScan ==
  ASSUME Typed, Exact
  PROVE  ScanEnds /\ RidsExact
<1> DEFINE chain == Chain(pages)
<1>1. LinksExact /\ Forward(pages) /\ MarksExact /\ InsertsPresent /\ pages \in PagesType
  BY DEF Typed, Exact, LinksExact, RowsInv
<1>2. chain # {} => \E p \in chain : pages[p].next = NULL_PAGE_ID
  <2>1. chain \in SUBSET PageId /\ \A p \in chain : pages[p].next \in chain \cup {NULL_PAGE_ID}
    BY <1>1, ChainFacts
  <2> QED BY <1>1, <2>1, ForwardEnds
<1>3. \A p \in chain : pages[p].exists
  BY <1>1, ChainPagesExist DEF ScanPagesExist
<1>4. ASSUME NEW p \in PageId \ chain, NEW s \in Range(pages[p].slots) PROVE s.xmin = s.xmax
  <2>1. PICK i \in DOMAIN pages[p].slots : s = pages[p].slots[i]
    BY <1>4 DEF Range
  <2>2. s.xmin \notin Live \cup {NULL_XID}
    BY <1>1, <2>1 DEF LinksExact
  <2>3. MarkOf(p, i, s)
    BY <1>1, <2>1 DEF MarksExact
  <2> QED BY <2>2, <2>3 DEF MarkOf
<1>5. ScanEnds
  BY <1>2, <1>3, <1>4 DEF ScanEnds
<1>6. RidsExact
  BY <1>1 DEF RidsExact, InsertsPresent, IsInsert
<1> QED BY <1>5, <1>6

\* A row is in one slot only.
LEMMA RowInOneSlot ==
  ASSUME Typed, Exact, NEW p \in PageId, NEW i \in DOMAIN pages[p].slots,
         NEW q \in PageId, NEW j \in DOMAIN pages[q].slots, pages[p].slots[i].row = pages[q].slots[j].row
  PROVE  p = q /\ i = j
<1> DEFINE m == pages[p].slots[i].row
<1>1. RowOf(p, i, pages[p].slots[i]) /\ RowOf(q, j, pages[q].slots[j])
  BY DEF Exact, RowsInv, RowsExact
<1>2. i \in Nat \ {0} /\ j \in Nat \ {0}
  BY SlotFacts, HeapBounds DEF Typed
<1>3. ASSUME m \in DOMAIN log PROVE m > 0 /\ m \in Nat
  <2>1. DOMAIN log = 1 .. Len(log)
    BY DEF Typed
  <2> QED BY <1>3, <2>1
<1>4. CASE m \in DOMAIN log
  <2>1. m # -i /\ m # -j
    BY <1>2, <1>3, <1>4
  <2> QED BY <1>1, <1>4, <2>1 DEF RowOf
<1>5. CASE m \notin DOMAIN log
  <2>1. p = 0 /\ q = 0 /\ m = -i /\ m = -j
    BY <1>1, <1>5 DEF RowOf
  <2> HIDE DEF m
  <2> QED BY <1>2, <2>1
<1> QED BY <1>4, <1>5

\* The slot a scan reads for a row that counts: a committed transaction
\* deleted the row exactly if the slot carries its mark.
LEMMA DeletedRow ==
  ASSUME Typed, Exact, NEW p \in PageId, NEW i \in DOMAIN pages[p].slots,
         pages[p].slots[i].xmin \in Committed(log) \cup {NULL_XID}
  PROVE  LET s == pages[p].slots[i] IN
         s.row \notin DeletedBy(Committed(log)) <=> s.xmax = NULL_XID \/ s.xmax \in active
<1> DEFINE C == Committed(log)
<1>1. PICK s : s = pages[p].slots[i]
  OBVIOUS
<1>2. /\ s.xmax = NULL_XID \/ (s.xmax \in Live /\ Deletes(s.xmax, p, i))
      /\ \A x \in Live : Deletes(x, p, i) => s.xmax = x
  BY <1>1 DEF Exact, RowsInv, MarksExact, MarkOf, Live
<1>3. C \cap active = {} /\ NULL_XID \notin C /\ C \subseteq Live /\ Live = C \cup active
  BY DEF Exact, RecoverInv, XactsExact, Typed, Ended, Live, Committed, Xid, NULL_XID
<1>4. ASSUME s.row \in DeletedBy(C) PROVE \E x \in C : Deletes(x, p, i)
  <2>1. PICK n \in DOMAIN log : log[n].type = "DELETE" /\ log[n].xid \in C /\ s.row = log[n].row
    BY <1>4 DEF DeletedBy
  <2>2. log[n].page \in PageId /\ IsDelete(log[n])
    BY <2>1 DEF Exact, LogShape, RecordShape, IsDelete
  <2>3. log[n].slot \in DOMAIN pages[log[n].page].slots /\ log[n].row = pages[log[n].page].slots[log[n].slot].row
    BY <2>2 DEF Exact, RowsInv, DeletesExact
  <2>4. log[n].page = p /\ log[n].slot = i
    BY <1>1, <2>1, <2>2, <2>3, RowInOneSlot
  <2> QED BY <2>1, <2>2, <2>4 DEF Deletes, DeletesIn
<1>5. ASSUME NEW x \in C, Deletes(x, p, i) PROVE s.row \in DeletedBy(C)
  <2>1. PICK n \in DOMAIN log : IsDelete(log[n]) /\ log[n].xid = x /\ log[n].page = p /\ log[n].slot = i
    BY <1>5 DEF Deletes, DeletesIn
  <2>2. log[n].row = s.row
    BY <1>1, <2>1 DEF Exact, RowsInv, DeletesExact
  <2> QED BY <2>1, <2>2 DEF DeletedBy, IsDelete
<1>6. s.row \notin DeletedBy(C) <=> s.xmax = NULL_XID \/ s.xmax \in active
  BY <1>2, <1>3, <1>4, <1>5
<1> QED BY <1>1, <1>6

LEMMA ExactVisible ==
  ASSUME Typed, Exact
  PROVE  Visible = CommittedRows
<1> DEFINE C == Committed(log)
<1>1. /\ C \cap active = {} /\ NULL_XID \notin active /\ Live = C \cup active
      /\ Chain(pages) \subseteq PageId
  <2>1. C \cap active = {} /\ Live = C \cup active
    BY DEF Exact, RecoverInv, XactsExact, Typed, Ended, Live
  <2>2. NULL_XID \notin active
    BY DEF Typed, Xid, NULL_XID
  <2>3. Chain(pages) \subseteq PageId
    BY ChainFacts DEF Typed
  <2> QED BY <2>1, <2>2, <2>3
<1>2. ASSUME NEW r \in Visible PROVE r \in CommittedRows
  <2>1. PICK s \in SlotsOf(pages) : r = s.row /\ s.xmin \notin active /\ (s.xmax = NULL_XID \/ s.xmax \in active)
    BY <1>2 DEF Visible
  <2>2. PICK p \in Chain(pages) : s \in Range(pages[p].slots)
    BY DEF SlotsOf
  <2>3. PICK i \in DOMAIN pages[p].slots : s = pages[p].slots[i]
    BY <2>2 DEF Range
  <2>4. p \in PageId
    BY <1>1
  <2>5. MarkOf(p, i, s) /\ RowOf(p, i, s)
    BY <2>3, <2>4 DEF Exact, RowsInv, MarksExact, RowsExact
  <2>6. s.xmin \in C \cup {NULL_XID}
    BY <1>1, <2>1, <2>5 DEF MarkOf
  <2>7. r \notin DeletedBy(C)
    BY <2>1, <2>3, <2>4, <2>6, DeletedRow
  <2>8. r \in {-k : k \in 1 .. initial} \cup InsertedBy(C)
    <3>1. CASE s.row \in DOMAIN log /\ IsInsert(log[s.row]) /\ log[s.row].xid = s.xmin
      <4>1. s.xmin # NULL_XID
        <5>1. log[s.row] \in RecordType
          BY <3>1 DEF Typed
        <5>2. s.xmin \in Xid
          BY <3>1, <5>1 DEF RecordType
        <5> QED BY <5>2 DEF Xid, NULL_XID
      <4> QED BY <2>1, <2>6, <3>1, <4>1 DEF InsertedBy, IsInsert
    <3>2. CASE i <= initial /\ s.row = -i
      <4>1. i \in 1 .. initial
        <5>1. i \in 1 .. Capacity /\ initial \in Nat /\ Capacity \in Nat
          BY <2>4, SlotFacts, HeapBounds DEF Typed
        <5> QED BY <3>2, <5>1
      <4> QED BY <2>1, <3>2, <4>1
    <3> QED BY <2>5, <3>1, <3>2 DEF RowOf
  <2> QED BY <2>7, <2>8 DEF CommittedRows
<1>3. ASSUME NEW r \in CommittedRows PROVE r \in Visible
  <2>1. r \notin DeletedBy(C) /\ r \in {-k : k \in 1 .. initial} \cup InsertedBy(C)
    BY <1>3 DEF CommittedRows
  <2>2. \E p \in PageId : \E i \in DOMAIN pages[p].slots :
          pages[p].slots[i].row = r /\ pages[p].slots[i].xmin \in C \cup {NULL_XID}
    <3>1. ASSUME NEW k \in 1 .. initial, r = -k
          PROVE  \E p \in PageId : \E i \in DOMAIN pages[p].slots :
                   pages[p].slots[i].row = r /\ pages[p].slots[i].xmin \in C \cup {NULL_XID}
      <4>1. 0 \in PageId /\ k \in DOMAIN pages[0].slots /\ pages[0].slots[k].row = -k
        BY HeapBounds DEF Exact, RowsInv, InitialPresent, PageId
      <4>2. RowOf(0, k, pages[0].slots[k])
        BY <4>1 DEF Exact, RowsInv, RowsExact
      <4>3. -k \notin DOMAIN log
        <5>1. DOMAIN log = 1 .. Len(log) /\ k \in Nat /\ k > 0
          BY DEF Typed
        <5> QED BY <5>1
      <4>4. pages[0].slots[k].xmin = NULL_XID
        BY <4>1, <4>2, <4>3 DEF RowOf
      <4> QED BY <3>1, <4>1, <4>4
    <3>2. ASSUME r \in InsertedBy(C)
          PROVE  \E p \in PageId : \E i \in DOMAIN pages[p].slots :
                   pages[p].slots[i].row = r /\ pages[p].slots[i].xmin \in C \cup {NULL_XID}
      <4>1. r \in DOMAIN log /\ IsInsert(log[r]) /\ log[r].xid \in C
        BY <3>2 DEF InsertedBy, IsInsert
      <4>2. log[r].page \in PageId
        BY <4>1 DEF Exact, LogShape, RecordShape
      <4>3. log[r].slot \in DOMAIN pages[log[r].page].slots /\ pages[log[r].page].slots[log[r].slot].row = r
        BY <4>1 DEF Exact, RowsInv, InsertsPresent
      <4>4. RowOf(log[r].page, log[r].slot, pages[log[r].page].slots[log[r].slot])
        BY <4>2, <4>3 DEF Exact, RowsInv, RowsExact
      <4>5. pages[log[r].page].slots[log[r].slot].xmin \in C \cup {NULL_XID}
        BY <4>1, <4>3, <4>4 DEF RowOf
      <4> QED BY <4>2, <4>3, <4>5
    <3> QED BY <2>1, <3>1, <3>2
  <2>3. PICK p \in PageId : \E i \in DOMAIN pages[p].slots :
          pages[p].slots[i].row = r /\ pages[p].slots[i].xmin \in C \cup {NULL_XID}
    BY <2>2
  <2>4. PICK i \in DOMAIN pages[p].slots :
          pages[p].slots[i].row = r /\ pages[p].slots[i].xmin \in C \cup {NULL_XID}
    BY <2>3
  <2>5. PICK s : s = pages[p].slots[i]
    OBVIOUS
  <2>6. s.xmax = NULL_XID \/ s.xmax \in active
    BY <2>1, <2>4, <2>5, DeletedRow
  <2>7. p \in Chain(pages)
    BY <1>1, <2>4 DEF Exact, LinksExact
  <2>8. s \in SlotsOf(pages)
    BY <2>5, <2>7 DEF SlotsOf, Range
  <2>9. s.xmin \notin active /\ s.row = r
    BY <1>1, <2>4, <2>5
  <2> QED BY <2>6, <2>8, <2>9 DEF Visible
<1> QED BY <1>2, <1>3

\* The pages are well-formed, the links from the first page end and pass every
\* page with a row some transaction may still need, and the rid in each
\* InsertLog names the row it inserted: what Table::InsertRecord, TableScan and
\* the Undo and Redo of the log records rely on, after any number of
\* rollbacks, restarts and recoveries.
THEOREM HeapConsistent == Spec => []HeapInv
<1>1. ASSUME IInv PROVE HeapInv
  <2>1. TypeOK
    BY <1>1, TypedPages DEF IInv
  <2>2. CASE gaps = {}
    <3>1. ScanEnds /\ RidsExact
      BY <1>1, <2>2, ExactScan DEF IInv
    <3> QED BY <2>1, <3>1 DEF HeapInv
  <2>3. CASE gaps # {}
    BY <2>1, <2>3 DEF HeapInv, ScanEnds, RidsExact
  <2> QED BY <2>2, <2>3
<1>2. IInv => HeapInv
  BY <1>1
<1> QED BY <1>2, HeapInvariant, PTL

\* As long as no step has left the limits of recovery, a scan sees exactly the
\* rows of committed transactions: the Rollback and the Recover of LogManager
\* take back all that did not commit and nothing that did.
THEOREM CommittedStaysVisible == Spec => []CommittedVisible
<1>1. ASSUME IInv PROVE CommittedVisible
  BY <1>1, ExactVisible DEF IInv, CommittedVisible
<1>2. IInv => CommittedVisible
  BY <1>1
<1> QED BY <1>2, HeapInvariant, PTL

============================================================================
