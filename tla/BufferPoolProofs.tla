-------------------------- MODULE BufferPoolProofs --------------------------
(***************************************************************************)
(* Proofs about BufferPool for any pages, versions and size of the pool.   *)
(*                                                                         *)
(* The argument: the strategy's list is a permutation of the frames it has *)
(* seen, and its first Len(buffers_) entries are the frames in use, in the *)
(* order in which their pages were used last (FrontExact).  So the last    *)
(* entry of a full pool's list is the page used longest ago, and frames    *)
(* left in the list by a Flush come behind those in use and are taken      *)
(* again in turn.  The pages a caller has pointers to are the last two     *)
(* used (HeldRecent), hence still in a pool of two frames: what is written *)
(* through a pointer reaches the pool, and the pool writes it to the file  *)
(* before it drops the page (DataExact).                                   *)
(*                                                                         *)
(* Once a page is made while the pool has it, this holds no more until the *)
(* process ends; what remains is TypeShape: the list still is a            *)
(* permutation, so frames, hash map and files keep their form, and a crash *)
(* starts from them anew.                                                  *)
(***************************************************************************)
EXTENDS BufferPool, SequenceTheorems, WellFoundedInduction, TLAPS

\* No element occurs twice.
Distinct(s) == \A i, j \in 1 .. Len(s) : s[i] = s[j] => i = j

\* e, which may be a new element, followed by the others.
ToFront(s, e) == <<e>> \o RemoveFirst(s, e)

\* An element at position k comes to the front and those before it move back.
LEMMA ToFrontOld ==
  ASSUME NEW S, NEW s \in Seq(S), Distinct(s), NEW k \in 1 .. Len(s)
  PROVE  /\ ToFront(s, s[k]) \in Seq(S)
         /\ Len(ToFront(s, s[k])) = Len(s)
         /\ \A i \in 1 .. Len(s) :
              ToFront(s, s[k])[i] = IF i = 1 THEN s[k] ELSE IF i <= k THEN s[i - 1] ELSE s[i]
         /\ Distinct(ToFront(s, s[k]))
<1> DEFINE r == RemoveFirst(s, s[k])
<1>1. {i \in 1 .. Len(s) : s[i] = s[k]} = {k}
  BY DEF Distinct
<1>2. Min({k}) = k
  BY DEF Min
<1>3. r = SubSeq(s, 1, k - 1) \o SubSeq(s, k + 1, Len(s))
  BY <1>1, <1>2 DEF RemoveFirst, SelectInSeq, RemoveAt
<1>4. /\ SubSeq(s, 1, k - 1) \in Seq(S) /\ Len(SubSeq(s, 1, k - 1)) = k - 1
      /\ \A i \in 1 .. k - 1 : SubSeq(s, 1, k - 1)[i] = s[i]
  BY SubSeqProperties
<1>5. /\ SubSeq(s, k + 1, Len(s)) \in Seq(S) /\ Len(SubSeq(s, k + 1, Len(s))) = Len(s) - k
      /\ \A i \in 1 .. Len(s) - k : SubSeq(s, k + 1, Len(s))[i] = s[i + k]
  BY SubSeqProperties
<1>6. /\ r \in Seq(S) /\ Len(r) = Len(s) - 1
      /\ \A i \in 1 .. Len(s) - 1 : r[i] = IF i < k THEN s[i] ELSE s[i + 1]
  <2> DEFINE a == SubSeq(s, 1, k - 1)
             b == SubSeq(s, k + 1, Len(s))
  <2> HIDE DEF a, b
  <2>1. /\ a \in Seq(S) /\ Len(a) = k - 1 /\ \A i \in 1 .. k - 1 : a[i] = s[i]
        /\ b \in Seq(S) /\ Len(b) = Len(s) - k /\ \A i \in 1 .. Len(s) - k : b[i] = s[i + k]
    BY <1>4, <1>5 DEF a, b
  <2>2. r = a \o b
    BY <1>3 DEF a, b
  <2> HIDE DEF r
  <2>3. /\ r \in Seq(S) /\ Len(r) = Len(a) + Len(b)
        /\ \A i \in 1 .. Len(a) + Len(b) : r[i] = IF i <= Len(a) THEN a[i] ELSE b[i - Len(a)]
    BY <2>1, <2>2, ConcatProperties
  <2>4. ASSUME NEW i \in 1 .. Len(s) - 1
        PROVE  r[i] = IF i < k THEN s[i] ELSE s[i + 1]
    <3>1. CASE i < k
      BY <3>1, <2>1, <2>3
    <3>2. CASE i >= k
      <4>1. r[i] = b[i - (k - 1)] /\ i - (k - 1) \in 1 .. Len(s) - k
        BY <3>2, <2>1, <2>3
      <4> QED BY <3>2, <4>1, <2>1
    <3> QED BY <3>1, <3>2
  <2> QED BY <2>1, <2>3, <2>4
<1> HIDE DEF r
<1>7. /\ <<s[k]>> \in Seq(S) /\ Len(<<s[k]>>) = 1 /\ <<s[k]>>[1] = s[k]
  OBVIOUS
<1>8. /\ ToFront(s, s[k]) \in Seq(S)
      /\ Len(ToFront(s, s[k])) = Len(s)
      /\ \A i \in 1 .. Len(s) :
           ToFront(s, s[k])[i] = IF i = 1 THEN s[k] ELSE IF i <= k THEN s[i - 1] ELSE s[i]
  <2>1. ToFront(s, s[k]) = <<s[k]>> \o r
    BY DEF ToFront, r
  <2> QED BY <2>1, <1>6, <1>7, ConcatProperties
<1>9. Distinct(ToFront(s, s[k]))
  <2> DEFINE n == Len(s)
             t == ToFront(s, s[k])
             From(i) == IF i = 1 THEN k ELSE IF i <= k THEN i - 1 ELSE i
  <2>1. n \in Nat /\ Len(t) = n /\ k \in 1 .. n
    BY <1>8
  <2>2. \A i \in 1 .. n : t[i] = s[From(i)]
    BY <1>8
  <2>3. \A i, j \in 1 .. n : s[i] = s[j] => i = j
    BY DEF Distinct
  <2> HIDE DEF n, t
  <2>4. \A i \in 1 .. n : From(i) \in 1 .. n
    BY <2>1
  <2>5. \A i, j \in 1 .. n : From(i) = From(j) => i = j
    BY <2>1
  <2> HIDE DEF From
  <2>6. \A i, j \in 1 .. n : t[i] = t[j] => i = j
    BY <2>2, <2>3, <2>4, <2>5
  <2> QED BY <2>1, <2>6 DEF Distinct, t
<1> QED BY <1>8, <1>9

\* A new element comes before the others.
LEMMA ToFrontNew ==
  ASSUME NEW S, NEW s \in Seq(S), Distinct(s), NEW e \in S,
         \A i \in 1 .. Len(s) : s[i] # e
  PROVE  /\ ToFront(s, e) \in Seq(S)
         /\ Len(ToFront(s, e)) = Len(s) + 1
         /\ \A i \in 1 .. Len(s) + 1 : ToFront(s, e)[i] = IF i = 1 THEN e ELSE s[i - 1]
         /\ Distinct(ToFront(s, e))
<1>1. ToFront(s, e) = <<e>> \o s
  BY DEF ToFront, RemoveFirst
<1>2. /\ ToFront(s, e) \in Seq(S)
      /\ Len(ToFront(s, e)) = Len(s) + 1
      /\ \A i \in 1 .. Len(s) + 1 : ToFront(s, e)[i] = IF i = 1 THEN e ELSE s[i - 1]
  BY <1>1, ConcatProperties
<1>3. Distinct(ToFront(s, e))
  <2> SUFFICES ASSUME NEW i \in 1 .. Len(s) + 1, NEW j \in 1 .. Len(s) + 1,
                      ToFront(s, e)[i] = ToFront(s, e)[j]
               PROVE  i = j
    BY <1>2 DEF Distinct
  <2>1. CASE i = 1 \/ j = 1
    <3>1. \A m \in 1 .. Len(s) + 1 : m # 1 => m - 1 \in 1 .. Len(s)
      OBVIOUS
    <3>2. \A m \in 1 .. Len(s) + 1 : m # 1 => ToFront(s, e)[m] # e
      BY <3>1, <1>2
    <3> QED BY <2>1, <3>2, <1>2
  <2>2. CASE i # 1 /\ j # 1
    <3>1. s[i - 1] = s[j - 1] /\ i - 1 \in 1 .. Len(s) /\ j - 1 \in 1 .. Len(s)
      BY <2>2, <1>2
    <3> QED BY <3>1 DEF Distinct
  <2> QED BY <2>1, <2>2
<1> QED BY <1>2, <1>3

\* The largest of some positions is one of them.
LEMMA MaxInterval ==
  ASSUME NEW n \in Nat, NEW S \in SUBSET (1 .. n), S # {}
  PROVE  Max(S) \in S
<1> DEFINE R == OpToRel(<, Nat)
           T == {n - x : x \in S}
<1>1. IsWellFoundedOn(R, Nat)
  BY NatLessThanWellFounded
<1>2. \A x, y \in Nat : <<x, y>> \in R <=> x < y
  BY DEF OpToRel
<1>3. T \subseteq Nat /\ T # {}
  <2>1. \A x \in S : n - x \in Nat
    OBVIOUS
  <2>2. PICK x \in S : TRUE
    OBVIOUS
  <2>3. n - x \in T
    OBVIOUS
  <2> QED BY <2>1, <2>3
<1> HIDE DEF R
<1>4. PICK t \in T : \A y \in T : ~(<<y, t>> \in R)
  <2> HIDE DEF T
  <2> QED BY <1>1, <1>3, WFMin
<1>5. PICK m \in S : t = n - m
  OBVIOUS
<1>6. ASSUME NEW y \in S PROVE m >= y
  <2>1. n - y \in T /\ n - y \in Nat /\ t \in Nat
    BY <1>3
  <2>2. ~(n - y < t)
    BY <1>2, <1>4, <2>1
  <2> QED BY <1>5, <2>2
<1> QED BY <1>6 DEF Max

----------------------------------------------------------------------------
(* The inductive invariant.                                                *)

BufferEntry == [page : RegularPage, version : 0 .. MaxVersion, dirty : BOOLEAN]

\* A permutation of an initial segment of the frames.
Permutation(v) ==
  /\ v \in Seq(Nat)
  /\ Distinct(v)
  /\ \A i \in 1 .. Len(v) : v[i] \in 1 .. Len(v)
  /\ \A f \in 1 .. Len(v) : \E i \in 1 .. Len(v) : v[i] = f

\* The strategy's list, which a Flush may leave longer than the list of the
\* frames in use.
VecExact ==
  /\ Permutation(buffer_vec)
  /\ Len(buffers_) <= Len(buffer_vec) /\ Len(buffer_vec) <= BUFFER_SIZE

\* The frames in use come first in the list, in the order their pages were
\* used last.
FrontExact ==
  /\ Len(buffers_) = IF Len(recent) < BUFFER_SIZE THEN Len(recent) ELSE BUFFER_SIZE
  /\ \A i \in 1 .. Len(buffers_) :
       buffer_vec[i] <= Len(buffers_) /\ buffers_[buffer_vec[i]].page = recent[i]
  /\ \A f \in 1 .. Len(buffers_) : \E i \in 1 .. Len(buffers_) : buffer_vec[i] = f

\* Frames, hash map, strategy and the history of use.
PoolShape ==
  /\ buffers_ \in Seq(BufferEntry)
  /\ hashmap_ \in [RegularPage -> {NoFrame} \cup Frame]
  /\ recent \in Seq(RegularPage) /\ Distinct(recent)
  /\ VecExact /\ FrontExact /\ HashmapExact

\* The files and the system pages; a page that is buffered or in its file has
\* been given contents.
FileShape ==
  /\ systable_buffers_ \in [SystemPage -> [version : NoVersion .. MaxVersion, dirty : BOOLEAN]]
  /\ disk \in [Page -> NoVersion .. MaxVersion]
  /\ written \in [Page -> NoVersion .. MaxVersion]
  /\ \A p \in RegularPage : hashmap_[p] # NoFrame \/ disk[p] # NoVersion => written[p] # NoVersion

\* The shape of the pool, for a pool of any size.
ShapeInv == PoolShape /\ FileShape

\* What holds also of a pool with two copies of a page.
TypeShape ==
  /\ buffers_ \in Seq(BufferEntry)
  /\ hashmap_ \in [RegularPage -> 0 .. Len(buffers_)]
  /\ VecExact
  /\ systable_buffers_ \in [SystemPage -> [version : NoVersion .. MaxVersion, dirty : BOOLEAN]]
  /\ disk \in [Page -> NoVersion .. MaxVersion]
  /\ written \in [Page -> NoVersion .. MaxVersion]
  /\ doubled \in SUBSET RegularPage

\* The invariant of a pool of any size.
PoolStateInv == TypeShape /\ (doubled = {} => ShapeInv)

\* A buffered page has the version last written, and a page that is not dirty
\* or not buffered has it in the file, too.
DataExact ==
  /\ \A f \in 1 .. Len(buffers_) :
       /\ buffers_[f].version = written[buffers_[f].page]
       /\ ~buffers_[f].dirty => buffers_[f].version = disk[buffers_[f].page]
  /\ \A p \in RegularPage : hashmap_[p] = NoFrame => written[p] = disk[p]
  /\ \A p \in SystemPage :
       /\ systable_buffers_[p].version \in {NoVersion, written[p]}
       /\ systable_buffers_[p].version = NoVersion => ~systable_buffers_[p].dirty
       /\ ~systable_buffers_[p].dirty => written[p] = disk[p]

\* The caller's pointers: the last one is to the page used last, and the one
\* before to that page or the one used before it.
HeldRecent ==
  /\ held \in Seq(Page) /\ Len(held) <= 2
  /\ \A i \in 1 .. Len(held) :
       /\ held[i] \in SystemPage => systable_buffers_[held[i]].version # NoVersion
       /\ held[i] \in RegularPage =>
            \E j \in 1 .. Len(recent) : j <= 1 + Len(held) - i /\ recent[j] = held[i]

PoolDataInv == ShapeInv /\ DataExact /\ HeldRecent

\* The invariant of a pool of two frames or more.
PoolFullInv == TypeShape /\ (doubled = {} => PoolDataInv)

----------------------------------------------------------------------------
(* LRUBufferStrategy::Access and Evict on the strategy's list.             *)

LEMMA Sizes ==
  /\ BUFFER_SIZE \in Nat \ {0} /\ MaxVersion \in Nat
  /\ RegularPage \subseteq Page /\ SystemPage \subseteq Page
  /\ \A p \in RegularPage : p \notin SystemPage
  /\ \A f \in Frame : f # NoFrame /\ f \in Nat /\ 1 <= f /\ f <= BUFFER_SIZE
  /\ NoFrame \notin Frame
BY PoolAssumption DEF Page, Frame, NoFrame

\* Access of a frame of the list, or of the next one, leaves a permutation
\* with that frame first; the frames before it in the list move back by one.
LEMMA AccessPermutes ==
  ASSUME NEW v, Permutation(v), NEW f \in 1 .. Len(v) + 1
  PROVE  /\ Permutation(Access(f, v))
         /\ Len(Access(f, v)) = IF f <= Len(v) THEN Len(v) ELSE Len(v) + 1
         /\ Access(f, v)[1] = f
         /\ \A n \in 0 .. Len(v) :
              (\A i \in 1 .. n : v[i] # f) => \A i \in 1 .. n : Access(f, v)[i + 1] = v[i]
         /\ \A k \in 1 .. Len(v) : v[k] = f =>
              /\ \A i \in 2 .. k : Access(f, v)[i] = v[i - 1]
              /\ \A i \in k + 1 .. Len(v) : Access(f, v)[i] = v[i]
<1> v \in Seq(Nat) /\ Len(v) \in Nat
  BY DEF Permutation
<1> DEFINE w == ToFront(v, f)
<1>0. Access(f, v) = w
  BY DEF Access, ToFront
<1>1. Distinct(v)
  BY DEF Permutation
<1>2. CASE f <= Len(v)
  <2>1. PICK k \in 1 .. Len(v) : v[k] = f
    BY <1>2 DEF Permutation
  <2>2. /\ w \in Seq(Nat) /\ Len(w) = Len(v) /\ Distinct(w)
        /\ \A i \in 1 .. Len(v) : w[i] = IF i = 1 THEN f ELSE IF i <= k THEN v[i - 1] ELSE v[i]
    <3>1. w = ToFront(v, v[k])
      BY <2>1
    <3> HIDE DEF w
    <3>2. /\ w \in Seq(Nat) /\ Len(w) = Len(v) /\ Distinct(w)
          /\ \A i \in 1 .. Len(v) :
               w[i] = IF i = 1 THEN v[k] ELSE IF i <= k THEN v[i - 1] ELSE v[i]
      BY <3>1, <1>1, ToFrontOld
    <3> QED BY <2>1, <3>2
  <2> HIDE DEF w
  <2>3. ASSUME NEW i \in 1 .. Len(w) PROVE w[i] \in 1 .. Len(w)
    <3> DEFINE n == Len(v)
    <3>1. n \in Nat /\ Len(w) = n /\ i \in 1 .. n /\ f \in 1 .. n
      BY <1>2, <2>2
    <3>2. \A j \in 1 .. n : v[j] \in 1 .. n
      BY DEF Permutation
    <3>3. w[i] = IF i = 1 THEN f ELSE IF i <= k THEN v[i - 1] ELSE v[i]
      BY <3>1, <2>2
    <3> HIDE DEF n
    <3>4. i # 1 => i - 1 \in 1 .. n
      BY <3>1
    <3>5. w[i] \in 1 .. n
      BY <3>1, <3>2, <3>3, <3>4
    <3> QED BY <3>1, <3>5
  <2>4. ASSUME NEW g \in 1 .. Len(w)
        PROVE  \E i \in 1 .. Len(w) : w[i] = g
    <3>1. PICK j \in 1 .. Len(v) : v[j] = g
      BY <2>2 DEF Permutation
    <3>2. CASE j < k
      <4>1. j + 1 \in 1 .. Len(v) /\ j + 1 # 1 /\ j + 1 <= k /\ (j + 1) - 1 = j
        BY <3>1, <3>2, <2>1
      <4>2. w[j + 1] = v[j]
        BY <4>1, <2>2
      <4> QED BY <3>1, <4>1, <4>2, <2>2
    <3>3. CASE j = k
      <4>1. 1 \in 1 .. Len(w) /\ w[1] = f
        BY <2>1, <2>2
      <4> QED BY <3>1, <3>3, <4>1, <2>1
    <3>4. CASE j > k
      <4>1. j \in 1 .. Len(w) /\ w[j] = v[j]
        BY <3>1, <3>4, <2>1, <2>2
      <4> QED BY <3>1, <4>1
    <3> QED BY <3>2, <3>3, <3>4
  <2>5. ASSUME NEW n \in 0 .. Len(v), \A i \in 1 .. n : v[i] # f, NEW i \in 1 .. n
        PROVE  w[i + 1] = v[i]
    <3>1. n < k
      BY <2>1, <2>5
    <3>2. i + 1 \in 1 .. Len(v) /\ i + 1 # 1 /\ i + 1 <= k
      BY <3>1, <2>1
    <3> QED BY <3>2, <2>2
  <2>6. ASSUME NEW m \in 1 .. Len(v), v[m] = f
        PROVE  m = k
    BY <2>1, <2>6, <1>1 DEF Distinct
  <2>7. /\ \A i \in 2 .. k : w[i] = v[i - 1]
        /\ \A i \in k + 1 .. Len(v) : w[i] = v[i]
    <3>1. ASSUME NEW i \in 2 .. k PROVE w[i] = v[i - 1]
      <4>1. i \in 1 .. Len(v) /\ i # 1 /\ i <= k
        BY <2>1
      <4> QED BY <4>1, <2>2
    <3>2. ASSUME NEW i \in k + 1 .. Len(v) PROVE w[i] = v[i]
      <4>1. i \in 1 .. Len(v) /\ i # 1 /\ ~(i <= k)
        BY <2>1
      <4> QED BY <4>1, <2>2
    <3> QED BY <3>1, <3>2
  <2>8. Permutation(w)
    BY <2>2, <2>3, <2>4 DEF Permutation
  <2>9. \A m \in 1 .. Len(v) : v[m] = f =>
          /\ \A i \in 2 .. m : w[i] = v[i - 1]
          /\ \A i \in m + 1 .. Len(v) : w[i] = v[i]
    BY <2>6, <2>7
  <2>10. w[1] = f
    BY <2>1, <2>2
  <2> QED BY <1>0, <1>2, <2>2, <2>5, <2>8, <2>9, <2>10
<1>3. CASE f > Len(v)
  <2>1. f = Len(v) + 1 /\ \A i \in 1 .. Len(v) : v[i] # f
    <3>1. f = Len(v) + 1
      BY <1>3
    <3>2. ASSUME NEW i \in 1 .. Len(v) PROVE v[i] # f
      <4>1. v[i] \in 1 .. Len(v)
        BY DEF Permutation
      <4> QED BY <3>1, <4>1
    <3> QED BY <3>1, <3>2
  <2>2. /\ w \in Seq(Nat) /\ Len(w) = Len(v) + 1 /\ Distinct(w)
        /\ \A i \in 1 .. Len(v) + 1 : w[i] = IF i = 1 THEN f ELSE v[i - 1]
    BY <2>1, <1>1, ToFrontNew
  <2> HIDE DEF w
  <2>3. \A i \in 1 .. Len(w) : w[i] \in 1 .. Len(w)
    <3> SUFFICES ASSUME NEW i \in 1 .. Len(w), i # 1 PROVE w[i] \in 1 .. Len(w)
      BY <2>1, <2>2
    <3>1. w[i] = v[i - 1] /\ i - 1 \in 1 .. Len(v)
      BY <2>2
    <3>2. v[i - 1] \in 1 .. Len(v)
      BY <3>1 DEF Permutation
    <3> QED BY <3>1, <3>2, <2>2
  <2>4. ASSUME NEW g \in 1 .. Len(w)
        PROVE  \E i \in 1 .. Len(w) : w[i] = g
    <3>1. CASE g = f
      <4>1. 1 \in 1 .. Len(w)
        BY <2>2
      <4>2. w[1] = f
        BY <2>2
      <4> QED BY <3>1, <4>1, <4>2
    <3>2. CASE g # f
      <4>1. g \in 1 .. Len(v)
        BY <3>2, <2>1, <2>2
      <4>2. PICK j \in 1 .. Len(v) : v[j] = g
        BY <4>1 DEF Permutation
      <4>3. j + 1 \in 1 .. Len(w) /\ w[j + 1] = v[j]
        BY <4>2, <2>2
      <4> QED BY <4>2, <4>3
    <3> QED BY <3>1, <3>2
  <2>5. \A i \in 1 .. Len(v) : w[i + 1] = v[i]
    BY <2>2
  <2>6. Permutation(w)
    BY <2>2, <2>3, <2>4 DEF Permutation
  <2>7. w[1] = f
    BY <2>2
  <2> QED BY <1>0, <1>3, <2>1, <2>2, <2>5, <2>6, <2>7
<1> QED BY <1>2, <1>3

\* Evict, and Access of the victim: the last frame becomes the first.
LEMMA EvictPermutes ==
  ASSUME NEW v, Permutation(v), v # <<>>
  PROVE  /\ Victim(v) = v[Len(v)] /\ Victim(v) \in 1 .. Len(v)
         /\ Access(Victim(v), Front(v)) = Access(Victim(v), v)
<1> v \in Seq(Nat) /\ Len(v) \in Nat
  BY DEF Permutation
<1> DEFINE n == Len(v)
           u == SubSeq(v, 1, n - 1)
           e == v[n]
<1>1. n \in Nat \ {0} /\ e \in 1 .. n /\ Victim(v) = e /\ Front(v) = u
  BY DEF Victim, Last, Front, Permutation
<1>2. Distinct(v)
  BY DEF Permutation
<1>3. u \in Seq(Nat) /\ Len(u) = n - 1 /\ \A i \in 1 .. n - 1 : u[i] = v[i]
  <2>1. \A i \in 1 .. n - 1 : v[i] \in Nat
    BY <1>1
  <2>2. /\ u \in Seq(Nat) /\ Len(u) = IF 1 <= n - 1 THEN (n - 1) - 1 + 1 ELSE 0
        /\ \A i \in 1 .. (n - 1) - 1 + 1 : u[i] = v[1 + i - 1]
    BY <1>1, <2>1, SubSeqProperties
  <2> HIDE DEF u, n
  <2>3. Len(u) = n - 1
    BY <1>1, <2>2
  <2>4. ASSUME NEW i \in 1 .. n - 1 PROVE u[i] = v[i]
    <3>1. i \in 1 .. (n - 1) - 1 + 1 /\ 1 + i - 1 = i
      BY <1>1
    <3> QED BY <2>2, <3>1
  <2> QED BY <2>2, <2>3, <2>4
<1> HIDE DEF u
<1>4. Distinct(u) /\ \A i \in 1 .. Len(u) : u[i] # e
  <2>1. \A i, j \in 1 .. n : v[i] = v[j] => i = j
    BY <1>2 DEF Distinct
  <2> HIDE DEF n
  <2>2. n \in 1 .. n /\ \A i \in 1 .. n - 1 : i \in 1 .. n /\ i # n
    BY <1>1
  <2>3. \A i, j \in 1 .. n - 1 : u[i] = u[j] => i = j
    BY <1>3, <2>1, <2>2
  <2>4. \A i \in 1 .. n - 1 : u[i] # e
    BY <1>3, <2>1, <2>2
  <2> QED BY <1>3, <2>3, <2>4 DEF Distinct
<1>5. /\ ToFront(u, e) \in Seq(Nat) /\ Len(ToFront(u, e)) = n
      /\ \A i \in 1 .. n : ToFront(u, e)[i] = IF i = 1 THEN e ELSE v[i - 1]
  <2>1. /\ ToFront(u, e) \in Seq(Nat) /\ Len(ToFront(u, e)) = Len(u) + 1
        /\ \A i \in 1 .. Len(u) + 1 : ToFront(u, e)[i] = IF i = 1 THEN e ELSE u[i - 1]
    <3>1. e \in Nat
      BY <1>1
    <3>2. u \in Seq(Nat)
      BY <1>3
    <3>3. Distinct(u) /\ \A i \in 1 .. Len(u) : u[i] # e
      BY <1>4
    <3> HIDE DEF n, e
    <3>4. ASSUME NEW c \in Nat, NEW t \in Seq(Nat), Distinct(t), \A i \in 1 .. Len(t) : t[i] # c
          PROVE  /\ ToFront(t, c) \in Seq(Nat)
                 /\ Len(ToFront(t, c)) = Len(t) + 1
                 /\ \A i \in 1 .. Len(t) + 1 : ToFront(t, c)[i] = IF i = 1 THEN c ELSE t[i - 1]
                 /\ Distinct(ToFront(t, c))
      BY <3>4, ToFrontNew
    <3> QED BY <3>1, <3>2, <3>3, <3>4
  <2>2. \A i \in 1 .. n : i # 1 => u[i - 1] = v[i - 1]
    BY <1>1, <1>3
  <2> QED BY <1>1, <1>3, <2>1, <2>2
<1>6. /\ ToFront(v, e) \in Seq(Nat) /\ Len(ToFront(v, e)) = n
      /\ \A i \in 1 .. n : ToFront(v, e)[i] = IF i = 1 THEN e ELSE v[i - 1]
  <2>1. n \in 1 .. Len(v)
    BY <1>1
  <2>2. /\ ToFront(v, e) \in Seq(Nat) /\ Len(ToFront(v, e)) = n
        /\ \A i \in 1 .. n : ToFront(v, e)[i] = IF i = 1 THEN e ELSE IF i <= n THEN v[i - 1] ELSE v[i]
    BY <2>1, <1>2, ToFrontOld
  <2> QED BY <1>1, <2>2
<1>7. ToFront(u, e) = ToFront(v, e)
  BY <1>1, <1>5, <1>6, SeqEqual
<1> QED BY <1>1, <1>7 DEF Access, ToFront

----------------------------------------------------------------------------
(* The shape of the pool.                                                  *)

\* What PoolShape says of one page, one frame and one position of the list.
LEMMA PoolFacts ==
  ASSUME PoolShape
  PROVE  /\ Len(buffers_) \in 0 .. BUFFER_SIZE /\ Len(recent) \in Nat
         /\ Len(buffer_vec) \in Len(buffers_) .. BUFFER_SIZE
         /\ \A f \in 1 .. Len(buffers_) :
              /\ f \in Frame /\ buffers_[f] \in BufferEntry
              /\ buffers_[f].page \in RegularPage /\ hashmap_[buffers_[f].page] = f
         /\ \A p \in RegularPage : hashmap_[p] # NoFrame =>
              hashmap_[p] \in 1 .. Len(buffers_) /\ buffers_[hashmap_[p]].page = p
         /\ \A i \in 1 .. Len(buffers_) :
              /\ i \in 1 .. Len(recent) /\ i \in 1 .. Len(buffer_vec)
              /\ recent[i] \in RegularPage /\ hashmap_[recent[i]] = buffer_vec[i]
              /\ buffer_vec[i] \in 1 .. Len(buffers_)
<1>1. Len(buffers_) \in Nat /\ Len(recent) \in Nat /\ Len(buffer_vec) \in Nat
  BY DEF PoolShape, VecExact, Permutation
<1>2. /\ Len(buffers_) \in 0 .. BUFFER_SIZE
      /\ Len(buffer_vec) \in Len(buffers_) .. BUFFER_SIZE
      /\ Len(buffers_) <= Len(recent)
  BY <1>1, Sizes DEF PoolShape, VecExact, FrontExact
<1>3. ASSUME NEW f \in 1 .. Len(buffers_)
      PROVE  /\ f \in Frame /\ buffers_[f] \in BufferEntry
             /\ buffers_[f].page \in RegularPage /\ hashmap_[buffers_[f].page] = f
  <2>1. f \in Frame
    BY <1>2, Sizes DEF Frame
  <2>2. buffers_[f] \in BufferEntry
    BY ElementOfSeq DEF PoolShape
  <2>3. buffers_[f].page \in RegularPage
    BY <2>2 DEF BufferEntry
  <2> QED BY <1>2, <2>1, <2>2, <2>3 DEF PoolShape, HashmapExact
<1>4. ASSUME NEW p \in RegularPage, hashmap_[p] # NoFrame
      PROVE  hashmap_[p] \in 1 .. Len(buffers_) /\ buffers_[hashmap_[p]].page = p
  <2>1. hashmap_[p] \in Frame
    BY <1>4 DEF PoolShape
  <2>2. hashmap_[p] <= Len(buffers_) /\ buffers_[hashmap_[p]].page = p
    BY <2>1 DEF PoolShape, HashmapExact
  <2> QED BY <1>2, <2>1, <2>2, Sizes
<1>5. ASSUME NEW i \in 1 .. Len(buffers_)
      PROVE  /\ i \in 1 .. Len(recent) /\ i \in 1 .. Len(buffer_vec)
             /\ recent[i] \in RegularPage /\ hashmap_[recent[i]] = buffer_vec[i]
             /\ buffer_vec[i] \in 1 .. Len(buffers_)
  <2>1. i \in 1 .. Len(recent) /\ i \in 1 .. Len(buffer_vec)
    BY <1>1, <1>2
  <2>2. recent[i] \in RegularPage
    BY <2>1, ElementOfSeq DEF PoolShape
  <2>3. buffer_vec[i] \in 1 .. Len(buffer_vec)
    BY <2>1 DEF PoolShape, VecExact, Permutation
  <2>4. buffer_vec[i] <= Len(buffers_) /\ buffers_[buffer_vec[i]].page = recent[i]
    BY DEF PoolShape, FrontExact
  <2>5. buffer_vec[i] \in 1 .. Len(buffers_)
    BY <1>2, <2>3, <2>4
  <2> QED BY <2>1, <2>2, <2>4, <2>5, <1>3
<1> QED BY <1>1, <1>2, <1>3, <1>4, <1>5

\* The frames that hold a page, in a pool with one copy of each.
LEMMA CopiesExact ==
  ASSUME PoolShape, NEW p \in RegularPage
  PROVE  Copies(p) = IF hashmap_[p] = NoFrame THEN {} ELSE {hashmap_[p]}
<1> USE PoolFacts, Sizes
<1>1. ASSUME NEW f \in Copies(p) PROVE hashmap_[p] = f /\ f # NoFrame
  BY DEF Copies
<1>2. ASSUME hashmap_[p] # NoFrame PROVE hashmap_[p] \in Copies(p)
  BY <1>2 DEF Copies
<1> QED BY <1>1, <1>2

\* GetPage finds the page, or NewPage puts the new copy in the frame of the old.
LEMMA HitShape ==
  ASSUME PoolShape, NEW p \in RegularPage, hashmap_[p] # NoFrame,
         buffer_vec' = Access(hashmap_[p], buffer_vec), Used(p),
         buffers_' \in Seq(BufferEntry), Len(buffers_') = Len(buffers_),
         \A i \in 1 .. Len(buffers_) : buffers_'[i].page = buffers_[i].page,
         hashmap_' = hashmap_
  PROVE  PoolShape'
<1> USE PoolFacts
<1> DEFINE n == Len(buffers_)
           f == hashmap_[p]
<1>1. f \in 1 .. n /\ buffers_[f].page = p
  OBVIOUS
<1>2. PICK k \in 1 .. n : buffer_vec[k] = f
  BY <1>1 DEF PoolShape, FrontExact
<1>3. k \in 1 .. Len(recent) /\ k \in 1 .. Len(buffer_vec) /\ recent[k] = p
  BY <1>1, <1>2 DEF PoolShape, FrontExact
<1>4. /\ recent' \in Seq(RegularPage) /\ Len(recent') = Len(recent) /\ Distinct(recent')
      /\ \A i \in 1 .. Len(recent) :
           recent'[i] = IF i = 1 THEN p ELSE IF i <= k THEN recent[i - 1] ELSE recent[i]
  <2>1. recent' = ToFront(recent, recent[k])
    BY <1>3 DEF Used, ToFront
  <2>2. recent \in Seq(RegularPage) /\ Distinct(recent)
    BY DEF PoolShape
  <2>3. /\ ToFront(recent, recent[k]) \in Seq(RegularPage)
        /\ Len(ToFront(recent, recent[k])) = Len(recent)
        /\ \A i \in 1 .. Len(recent) :
             ToFront(recent, recent[k])[i] =
               IF i = 1 THEN recent[k] ELSE IF i <= k THEN recent[i - 1] ELSE recent[i]
        /\ Distinct(ToFront(recent, recent[k]))
    BY <1>3, <2>2, ToFrontOld
  <2> QED BY <1>3, <2>1, <2>3
<1>5. f \in 1 .. Len(buffer_vec) + 1 /\ f <= Len(buffer_vec)
  BY <1>1
<1>6. /\ Permutation(buffer_vec') /\ Len(buffer_vec') = Len(buffer_vec)
      /\ buffer_vec'[1] = f
      /\ \A i \in 2 .. k : buffer_vec'[i] = buffer_vec[i - 1]
      /\ \A i \in k + 1 .. Len(buffer_vec) : buffer_vec'[i] = buffer_vec[i]
  <2>1. Permutation(buffer_vec)
    BY DEF PoolShape, VecExact
  <2> QED BY <1>2, <1>3, <1>5, <2>1, AccessPermutes
<1>7. VecExact'
  BY <1>6 DEF PoolShape, VecExact
<1>8. ASSUME NEW i \in 1 .. n
      PROVE  buffer_vec'[i] <= n /\ buffers_[buffer_vec'[i]].page = recent'[i]
  <2>1. CASE i = 1
    BY <2>1, <1>1, <1>3, <1>4, <1>6
  <2>2. CASE i # 1 /\ i <= k
    <3>1. /\ i \in 2 .. k /\ i - 1 \in 1 .. n /\ i \in 1 .. Len(recent)
      BY <2>2, <1>2
    <3>2. buffer_vec'[i] = buffer_vec[i - 1] /\ recent'[i] = recent[i - 1]
      BY <3>1, <2>2, <1>4, <1>6
    <3>3. buffer_vec[i - 1] <= n /\ buffers_[buffer_vec[i - 1]].page = recent[i - 1]
      BY <3>1 DEF PoolShape, FrontExact
    <3> QED BY <3>2, <3>3
  <2>3. CASE i > k
    <3>1. i \in k + 1 .. Len(buffer_vec) /\ i # 1 /\ ~(i <= k)
      BY <2>3, <1>2
    <3>2. buffer_vec'[i] = buffer_vec[i] /\ recent'[i] = recent[i]
      BY <3>1, <1>4, <1>6
    <3> QED BY <3>2 DEF PoolShape, FrontExact
  <2> QED BY <2>1, <2>2, <2>3, <1>2
<1>9. ASSUME NEW g \in 1 .. n PROVE \E i \in 1 .. n : buffer_vec'[i] = g
  <2>1. PICK j \in 1 .. n : buffer_vec[j] = g
    BY DEF PoolShape, FrontExact
  <2>2. CASE j < k
    <3>1. j + 1 \in 2 .. k /\ j + 1 \in 1 .. n /\ (j + 1) - 1 = j
      BY <2>1, <2>2, <1>2
    <3>2. buffer_vec'[j + 1] = buffer_vec[(j + 1) - 1]
      BY <3>1, <1>6
    <3> QED BY <2>1, <3>1, <3>2
  <2>3. CASE j = k
    <3>1. 1 \in 1 .. n
      BY <1>1
    <3> QED BY <3>1, <2>1, <2>3, <1>2, <1>6
  <2>4. CASE j > k
    <3>1. j \in k + 1 .. Len(buffer_vec)
      BY <2>1, <2>4, <1>2
    <3> QED BY <2>1, <3>1, <1>6
  <2> QED BY <2>1, <2>2, <2>3, <2>4, <1>2
<1>10. FrontExact'
  <2>1. ASSUME NEW i \in 1 .. n PROVE buffers_'[buffer_vec'[i]].page = recent'[i]
    <3>1. i \in 1 .. Len(buffer_vec')
      BY <1>6
    <3>2. buffer_vec'[i] \in 1 .. Len(buffer_vec')
      BY <1>6, <3>1 DEF Permutation
    <3>3. buffer_vec'[i] \in 1 .. n
      BY <1>6, <1>8, <3>2
    <3> QED BY <1>8, <3>3
  <2> QED BY <1>4, <1>8, <1>9, <2>1 DEF PoolShape, FrontExact
<1>11. HashmapExact'
  <2>1. \A g \in Frame : g <= n => g \in 1 .. n
    BY Sizes
  <2> QED BY <2>1 DEF PoolShape, HashmapExact
<1> QED BY <1>4, <1>7, <1>10, <1>11 DEF PoolShape

\* The history of use when a page comes into the pool: if it is in the history
\* already, then behind the pages of a full pool.
LEMMA UsedNew ==
  ASSUME PoolShape, NEW p \in RegularPage, hashmap_[p] = NoFrame, Used(p)
  PROVE  /\ recent' \in Seq(RegularPage) /\ Distinct(recent')
         /\ Len(recent') \in {Len(recent), Len(recent) + 1}
         /\ Len(recent) <= Len(buffers_) => Len(recent') = Len(recent) + 1
         /\ recent'[1] = p /\ Len(recent') >= 1
         /\ \A i \in 1 .. Len(buffers_) : i + 1 <= Len(recent') => recent'[i + 1] = recent[i]
<1> USE PoolFacts
<1>1. \A i \in 1 .. Len(buffers_) : recent[i] # p
  BY Sizes DEF Frame, NoFrame
<1>2. recent \in Seq(RegularPage) /\ Distinct(recent) /\ recent' = ToFront(recent, p)
  BY DEF PoolShape, Used, ToFront
<1>3. CASE \E k \in 1 .. Len(recent) : recent[k] = p
  <2>1. PICK k \in 1 .. Len(recent) : recent[k] = p
    BY <1>3
  <2>2. k > Len(buffers_)
    BY <2>1, <1>1
  <2>3. /\ ToFront(recent, recent[k]) \in Seq(RegularPage)
        /\ Len(ToFront(recent, recent[k])) = Len(recent)
        /\ \A i \in 1 .. Len(recent) :
             ToFront(recent, recent[k])[i] =
               IF i = 1 THEN recent[k] ELSE IF i <= k THEN recent[i - 1] ELSE recent[i]
        /\ Distinct(ToFront(recent, recent[k]))
    BY <1>2, <2>1, ToFrontOld
  <2>4. /\ recent' \in Seq(RegularPage) /\ Distinct(recent') /\ Len(recent') = Len(recent)
        /\ \A i \in 1 .. Len(recent) :
             recent'[i] = IF i = 1 THEN p ELSE IF i <= k THEN recent[i - 1] ELSE recent[i]
    BY <1>2, <2>1, <2>3
  <2>5. ASSUME NEW i \in 1 .. Len(buffers_) PROVE recent'[i + 1] = recent[i]
    <3>1. i + 1 \in 1 .. Len(recent) /\ i + 1 # 1 /\ i + 1 <= k /\ (i + 1) - 1 = i
      BY <2>1, <2>2
    <3> QED BY <3>1, <2>4
  <2> QED BY <2>1, <2>2, <2>4, <2>5
<1>4. CASE \A k \in 1 .. Len(recent) : recent[k] # p
  <2>1. /\ ToFront(recent, p) \in Seq(RegularPage) /\ Len(ToFront(recent, p)) = Len(recent) + 1
        /\ \A i \in 1 .. Len(recent) + 1 : ToFront(recent, p)[i] = IF i = 1 THEN p ELSE recent[i - 1]
        /\ Distinct(ToFront(recent, p))
    BY <1>2, <1>4, ToFrontNew
  <2>2. /\ recent' \in Seq(RegularPage) /\ Distinct(recent') /\ Len(recent') = Len(recent) + 1
        /\ \A i \in 1 .. Len(recent) + 1 : recent'[i] = IF i = 1 THEN p ELSE recent[i - 1]
    BY <1>2, <2>1
  <2>3. ASSUME NEW i \in 1 .. Len(buffers_) PROVE recent'[i + 1] = recent[i]
    <3>1. i + 1 \in 1 .. Len(recent) + 1 /\ i + 1 # 1 /\ (i + 1) - 1 = i
      OBVIOUS
    <3> QED BY <3>1, <2>2
  <2> QED BY <2>2, <2>3
<1> QED BY <1>3, <1>4

\* AddToBuffer while the pool has room: the next frame, which the strategy's
\* list may have from before a Flush.
LEMMA RoomShape ==
  ASSUME PoolShape, NEW e \in BufferEntry, hashmap_[e.page] = NoFrame,
         Len(buffers_) # BUFFER_SIZE, AddToBuffer(e), Used(e.page)
  PROVE  PoolShape'
<1> USE PoolFacts
<1> DEFINE n == Len(buffers_)
           p == e.page
<1>1. p \in RegularPage /\ n + 1 \in Frame /\ n < BUFFER_SIZE /\ Len(recent) = n
  BY Sizes DEF BufferEntry, Frame, PoolShape, FrontExact
<1>2. /\ buffer_vec' = Access(n + 1, buffer_vec)
      /\ buffers_' = Append(buffers_, e)
      /\ hashmap_' = [hashmap_ EXCEPT ![p] = n + 1]
  BY DEF AddToBuffer
<1>3. /\ recent' \in Seq(RegularPage) /\ Distinct(recent') /\ Len(recent') = n + 1
      /\ recent'[1] = p /\ \A i \in 1 .. n : recent'[i + 1] = recent[i]
  BY <1>1, UsedNew
<1>4. /\ buffers_' \in Seq(BufferEntry) /\ Len(buffers_') = n + 1
      /\ buffers_'[n + 1] = e /\ \A i \in 1 .. n : buffers_'[i] = buffers_[i]
  BY <1>2, AppendProperties DEF PoolShape
<1>5. /\ hashmap_' \in [RegularPage -> {NoFrame} \cup Frame]
      /\ \A q \in RegularPage : hashmap_'[q] = IF q = p THEN n + 1 ELSE hashmap_[q]
  BY <1>1, <1>2 DEF PoolShape
<1>6. /\ Permutation(buffer_vec') /\ Len(buffer_vec') \in n + 1 .. BUFFER_SIZE
      /\ buffer_vec'[1] = n + 1
      /\ \A i \in 1 .. n : buffer_vec'[i + 1] = buffer_vec[i]
  <2>1. Permutation(buffer_vec) /\ n + 1 \in 1 .. Len(buffer_vec) + 1
    BY DEF PoolShape, VecExact
  <2>2. \A i \in 1 .. n : buffer_vec[i] # n + 1
    OBVIOUS
  <2>3. n \in 0 .. Len(buffer_vec)
    OBVIOUS
  <2>4. /\ Permutation(buffer_vec') /\ buffer_vec'[1] = n + 1
        /\ Len(buffer_vec') = IF n + 1 <= Len(buffer_vec) THEN Len(buffer_vec) ELSE Len(buffer_vec) + 1
        /\ \A i \in 1 .. n : buffer_vec'[i + 1] = buffer_vec[i]
    <3> HIDE PoolFacts
    <3> DEFINE f == n + 1
    <3> HIDE DEF f, n
    <3>1. f \in 1 .. Len(buffer_vec) + 1 /\ \A i \in 1 .. n : buffer_vec[i] # f
      BY <2>1, <2>2 DEF f
    <3>2. /\ Permutation(Access(f, buffer_vec)) /\ Access(f, buffer_vec)[1] = f
          /\ Len(Access(f, buffer_vec)) =
               IF f <= Len(buffer_vec) THEN Len(buffer_vec) ELSE Len(buffer_vec) + 1
          /\ \A i \in 1 .. n : Access(f, buffer_vec)[i + 1] = buffer_vec[i]
      BY <2>1, <2>3, <3>1, AccessPermutes
    <3> QED BY <1>2, <3>2 DEF f
  <2>5. Len(buffer_vec') \in n + 1 .. BUFFER_SIZE
    <3>1. Len(buffer_vec) \in n .. BUFFER_SIZE /\ n \in Nat
      OBVIOUS
    <3> HIDE PoolFacts
    <3> QED BY <1>1, <2>4, <3>1, Sizes
  <2> QED BY <2>4, <2>5
<1>7. VecExact'
  BY <1>4, <1>6 DEF VecExact
<1>8. FrontExact'
  <2>1. ASSUME NEW i \in 1 .. n + 1
        PROVE  buffer_vec'[i] <= n + 1 /\ buffers_'[buffer_vec'[i]].page = recent'[i]
    <3>1. CASE i = 1
      BY <3>1, <1>3, <1>4, <1>6
    <3>2. CASE i # 1
      <4>1. i - 1 \in 1 .. n /\ (i - 1) + 1 = i
        BY <3>2
      <4>2. buffer_vec'[i] = buffer_vec[i - 1] /\ recent'[i] = recent[i - 1]
        BY <4>1, <1>3, <1>6
      <4>3. buffer_vec[i - 1] \in 1 .. n /\ buffers_[buffer_vec[i - 1]].page = recent[i - 1]
        BY <4>1 DEF PoolShape, FrontExact
      <4> QED BY <4>2, <4>3, <1>4
    <3> QED BY <3>1, <3>2
  <2>2. ASSUME NEW g \in 1 .. n + 1 PROVE \E i \in 1 .. n + 1 : buffer_vec'[i] = g
    <3>1. CASE g = n + 1
      BY <3>1, <1>6
    <3>2. CASE g # n + 1
      <4>1. g \in 1 .. n
        BY <3>2
      <4>2. PICK j \in 1 .. n : buffer_vec[j] = g
        BY <4>1 DEF PoolShape, FrontExact
      <4>3. j + 1 \in 1 .. n + 1 /\ buffer_vec'[j + 1] = g
        BY <4>2, <1>6
      <4> QED BY <4>3
    <3> QED BY <3>1, <3>2
  <2>3. n + 1 = IF Len(recent') < BUFFER_SIZE THEN Len(recent') ELSE BUFFER_SIZE
    BY <1>1, <1>3, Sizes
  <2> QED BY <1>4, <2>1, <2>2, <2>3 DEF FrontExact
<1>9. HashmapExact'
  <2> SUFFICES ASSUME NEW q \in RegularPage, NEW g \in Frame
               PROVE  hashmap_'[q] = g <=> g <= n + 1 /\ buffers_'[g].page = q
    BY <1>4 DEF HashmapExact
  <2>0. g \in Nat /\ 1 <= g
    BY Sizes
  <2>1. CASE g = n + 1
    <3>1. hashmap_[q] # n + 1
      BY <1>1 DEF PoolShape, HashmapExact
    <3> QED BY <2>1, <3>1, <1>4, <1>5
  <2>2. CASE g > n + 1
    <3>1. hashmap_[q] # g
      BY <2>0, <2>2 DEF PoolShape, HashmapExact
    <3> QED BY <2>0, <2>2, <3>1, <1>5
  <2>3. CASE g <= n
    <3>1. g \in 1 .. n /\ buffers_'[g] = buffers_[g] /\ (hashmap_[q] = g <=> buffers_[g].page = q)
      BY <2>0, <2>3, <1>4 DEF PoolShape, HashmapExact
    <3>2. hashmap_[p] # g
      BY Sizes
    <3> QED BY <2>3, <3>1, <3>2, <1>5
  <2> QED BY <2>0, <2>1, <2>2, <2>3
<1> QED BY <1>3, <1>4, <1>5, <1>7, <1>8, <1>9 DEF PoolShape

\* AddToBuffer in a full pool: the frame used longest ago.
LEMMA FullShape ==
  ASSUME PoolShape, NEW e \in BufferEntry, hashmap_[e.page] = NoFrame,
         Len(buffers_) = BUFFER_SIZE, AddToBuffer(e), Used(e.page)
  PROVE  /\ PoolShape'
         /\ Victim(buffer_vec) \in 1 .. BUFFER_SIZE
         /\ Victim(buffer_vec) = buffer_vec[BUFFER_SIZE]
         /\ disk' = Flushed(buffers_[Victim(buffer_vec)])
         /\ hashmap_' = [Unmapped(buffers_[Victim(buffer_vec)]) EXCEPT ![e.page] = Victim(buffer_vec)]
         /\ buffers_' = [buffers_ EXCEPT ![Victim(buffer_vec)] = e]
<1> USE PoolFacts
<1> DEFINE n == BUFFER_SIZE
           p == e.page
           v == Victim(buffer_vec)
           old == buffers_[v].page
<1>1. p \in RegularPage /\ n \in Nat \ {0} /\ Len(buffer_vec) = n
  BY Sizes DEF BufferEntry
<1>2. /\ disk' = Flushed(buffers_[v])
      /\ buffer_vec' = Access(v, Front(buffer_vec))
      /\ buffers_' = [buffers_ EXCEPT ![v] = e]
      /\ hashmap_' = [Unmapped(buffers_[v]) EXCEPT ![p] = v]
  BY DEF AddToBuffer
<1>3. Permutation(buffer_vec) /\ buffer_vec # <<>>
  BY <1>1 DEF PoolShape, VecExact
<1>4. v = buffer_vec[n] /\ v \in 1 .. n /\ buffer_vec' = Access(v, buffer_vec)
  BY <1>1, <1>2, <1>3, EvictPermutes
<1>5. /\ recent' \in Seq(RegularPage) /\ Distinct(recent') /\ Len(recent') >= n
      /\ recent'[1] = p /\ \A i \in 1 .. n - 1 : recent'[i + 1] = recent[i]
  <2>1. Len(recent) >= n
    BY <1>1 DEF PoolShape, FrontExact
  <2>2. /\ recent' \in Seq(RegularPage) /\ Distinct(recent')
        /\ Len(recent') \in {Len(recent), Len(recent) + 1}
        /\ recent'[1] = p
        /\ \A i \in 1 .. n : i + 1 <= Len(recent') => recent'[i + 1] = recent[i]
    BY <1>1, UsedNew
  <2> QED BY <1>1, <2>1, <2>2
<1>6. /\ Permutation(buffer_vec') /\ Len(buffer_vec') = n
      /\ buffer_vec'[1] = v
      /\ \A i \in 2 .. n : buffer_vec'[i] = buffer_vec[i - 1]
  <2>1. v \in 1 .. Len(buffer_vec) + 1 /\ v <= Len(buffer_vec) /\ n \in 1 .. Len(buffer_vec)
    BY <1>1, <1>4
  <2> HIDE PoolFacts
  <2> HIDE DEF v, n
  <2>2. /\ Permutation(Access(v, buffer_vec)) /\ Len(Access(v, buffer_vec)) = Len(buffer_vec)
        /\ Access(v, buffer_vec)[1] = v
        /\ \A i \in 2 .. n : Access(v, buffer_vec)[i] = buffer_vec[i - 1]
    BY <1>3, <1>4, <2>1, AccessPermutes
  <2> QED BY <1>1, <1>4, <2>2
<1> HIDE DEF v
<1>7. /\ buffers_' \in Seq(BufferEntry) /\ Len(buffers_') = n
      /\ \A i \in 1 .. n : buffers_'[i] = IF i = v THEN e ELSE buffers_[i]
  BY <1>2, <1>4, ExceptSeq DEF PoolShape
<1>8. old \in RegularPage /\ hashmap_[old] = v /\ old # p /\ v \in Frame
  BY <1>4, Sizes
<1>9. /\ hashmap_' \in [RegularPage -> {NoFrame} \cup Frame]
      /\ \A q \in RegularPage :
           hashmap_'[q] = IF q = p THEN v ELSE IF q = old THEN NoFrame ELSE hashmap_[q]
  BY <1>1, <1>2, <1>8 DEF PoolShape, Unmapped
<1>10. VecExact'
  BY <1>1, <1>6, <1>7 DEF VecExact
<1>11. FrontExact'
  <2>1. ASSUME NEW i \in 1 .. n
        PROVE  buffer_vec'[i] <= n /\ buffers_'[buffer_vec'[i]].page = recent'[i]
    <3>1. CASE i = 1
      BY <3>1, <1>4, <1>5, <1>6, <1>7
    <3>2. CASE i # 1
      <4>1. i - 1 \in 1 .. n - 1 /\ i - 1 \in 1 .. n /\ (i - 1) + 1 = i /\ i \in 2 .. n /\ i - 1 # n
        <5> HIDE PoolFacts
        <5> HIDE DEF n
        <5> QED BY <3>2, <1>1
      <4>2. buffer_vec'[i] = buffer_vec[i - 1] /\ recent'[i] = recent[i - 1]
        BY <4>1, <1>5, <1>6
      <4>3. buffer_vec[i - 1] \in 1 .. n /\ buffers_[buffer_vec[i - 1]].page = recent[i - 1]
        BY <4>1 DEF PoolShape, FrontExact
      <4>4. buffer_vec[i - 1] # v
        BY <4>1, <1>1, <1>3, <1>4 DEF Permutation, Distinct
      <4> QED BY <4>2, <4>3, <4>4, <1>7
    <3> QED BY <3>1, <3>2
  <2>2. ASSUME NEW g \in 1 .. n PROVE \E i \in 1 .. n : buffer_vec'[i] = g
    BY <1>6 DEF Permutation
  <2>3. n = IF Len(recent') < n THEN Len(recent') ELSE n
    BY <1>1, <1>5
  <2> QED BY <1>7, <2>1, <2>2, <2>3 DEF FrontExact
<1>12. HashmapExact'
  <2> SUFFICES ASSUME NEW q \in RegularPage, NEW g \in Frame
               PROVE  hashmap_'[q] = g <=> g <= n /\ buffers_'[g].page = q
    BY <1>7 DEF HashmapExact
  <2>0. g \in 1 .. n
    BY Sizes
  <2>1. hashmap_[q] = g <=> buffers_[g].page = q
    BY <2>0 DEF PoolShape, HashmapExact
  <2>2. NoFrame # g
    BY Sizes
  <2>3. hashmap_[p] # g
    BY <2>2
  <2>4. hashmap_[q] = v <=> q = old
    BY <1>8, Sizes
  <2> HIDE PoolFacts
  <2>5. CASE q = p
    <3>1. buffers_[g].page # p
      BY <2>1, <2>3, <2>5
    <3> QED BY <2>0, <2>5, <3>1, <1>7, <1>9
  <2>6. CASE q # p /\ g = v
    <3>1. hashmap_'[q] # v
      BY <2>2, <2>4, <2>6, <1>9
    <3> QED BY <2>0, <2>6, <3>1, <1>7
  <2>7. CASE q # p /\ g # v
    <3>1. buffers_'[g] = buffers_[g]
      BY <2>0, <2>7, <1>7
    <3>2. hashmap_'[q] = g <=> hashmap_[q] = g
      BY <2>2, <2>4, <2>7, <1>9
    <3> QED BY <2>0, <2>1, <3>1, <3>2
  <2> QED BY <2>5, <2>6, <2>7
<1> QED BY <1>2, <1>4, <1>5, <1>7, <1>9, <1>10, <1>11, <1>12 DEF PoolShape, v

\* NewPage of a page whose frame is the one a full pool evicts.
LEMMA ReplaceShape ==
  ASSUME PoolShape, NEW e \in BufferEntry, hashmap_[e.page] # NoFrame,
         Len(buffers_) = BUFFER_SIZE, Victim(buffer_vec) = hashmap_[e.page],
         AddToBuffer(e), Used(e.page)
  PROVE  /\ PoolShape'
         /\ disk' = Flushed(buffers_[hashmap_[e.page]])
         /\ hashmap_' = hashmap_
         /\ Len(buffers_') = Len(buffers_)
         /\ \A i \in 1 .. Len(buffers_) :
              buffers_'[i] = IF i = hashmap_[e.page] THEN e ELSE buffers_[i]
<1> DEFINE p == e.page
           v == hashmap_[p]
<1>1. /\ disk' = Flushed(buffers_[v])
      /\ buffer_vec' = Access(v, Front(buffer_vec))
      /\ buffers_' = [buffers_ EXCEPT ![v] = e]
      /\ hashmap_' = [Unmapped(buffers_[v]) EXCEPT ![p] = v]
  BY DEF AddToBuffer
<1>2. p \in RegularPage /\ v \in 1 .. Len(buffers_) /\ buffers_[v].page = p
  BY PoolFacts DEF BufferEntry
<1>3. hashmap_' = hashmap_
  BY <1>1, <1>2 DEF PoolShape, Unmapped
<1>4. Permutation(buffer_vec) /\ buffer_vec # <<>>
  BY PoolFacts, Sizes DEF PoolShape, VecExact
<1>5. buffer_vec' = Access(v, buffer_vec)
  BY <1>1, <1>4, EvictPermutes
<1> HIDE DEF v
<1>6. /\ buffers_' \in Seq(BufferEntry) /\ Len(buffers_') = Len(buffers_)
      /\ \A i \in 1 .. Len(buffers_) : buffers_'[i] = IF i = v THEN e ELSE buffers_[i]
  BY <1>1, <1>2, ExceptSeq DEF PoolShape
<1>7. \A i \in 1 .. Len(buffers_) : buffers_'[i].page = buffers_[i].page
  BY <1>2, <1>6
<1>8. PoolShape'
  BY <1>2, <1>3, <1>5, <1>6, <1>7, HitShape DEF v
<1> QED BY <1>1, <1>3, <1>6, <1>8 DEF v

----------------------------------------------------------------------------
(* The steps keep the shape.                                               *)

\* Init: an empty pool.
LEMMA InitShape == Init => ShapeInv
<1> SUFFICES ASSUME Init PROVE ShapeInv
  OBVIOUS
<1>1. disk \in [Page -> NoVersion .. MaxVersion] /\ written = disk
  BY PoolAssumption DEF Init, NoVersion
<1>2. FileShape
  BY <1>1, PoolAssumption DEF Init, FileShape, NotBuffered, NoVersion
<1>3. \A p \in RegularPage, f \in Frame : hashmap_[p] # f /\ ~(f <= 0)
  BY Sizes DEF Init
<1>4. PoolShape
  BY <1>3, Sizes DEF Init, PoolShape, VecExact, FrontExact, HashmapExact, Permutation, Distinct
<1> QED BY <1>2, <1>4 DEF ShapeInv

\* AddToBuffer of a page that is not buffered.
LEMMA AddShape ==
  ASSUME ShapeInv, NEW e \in BufferEntry, hashmap_[e.page] = NoFrame,
         AddToBuffer(e), Used(e.page)
  PROVE  /\ PoolShape'
         /\ disk' \in [Page -> NoVersion .. MaxVersion]
         /\ \A q \in RegularPage :
              hashmap_'[q] # NoFrame \/ disk'[q] # NoVersion =>
                q = e.page \/ hashmap_[q] # NoFrame \/ disk[q] # NoVersion
<1> USE Sizes
<1>0. PoolShape /\ disk \in [Page -> NoVersion .. MaxVersion] /\ e.page \in RegularPage
  BY DEF ShapeInv, FileShape, BufferEntry
<1>1. CASE Len(buffers_) = BUFFER_SIZE
  <2> DEFINE v == Victim(buffer_vec)
  <2>1. /\ PoolShape' /\ v \in 1 .. BUFFER_SIZE /\ disk' = Flushed(buffers_[v])
        /\ hashmap_' = [Unmapped(buffers_[v]) EXCEPT ![e.page] = v]
    BY <1>0, <1>1, FullShape
  <2> HIDE DEF v
  <2>2. /\ buffers_[v] \in BufferEntry /\ buffers_[v].page \in RegularPage
        /\ hashmap_[buffers_[v].page] # NoFrame
    BY <1>0, <1>1, <2>1, PoolFacts
  <2>3. buffers_[v].version \in 0 .. MaxVersion
    BY <2>2 DEF BufferEntry
  <2>4. /\ disk' \in [Page -> NoVersion .. MaxVersion]
        /\ \A q \in Page : q # buffers_[v].page => disk'[q] = disk[q]
    BY <1>0, <2>1, <2>2, <2>3 DEF Flushed, NoVersion
  <2>5. \A q \in RegularPage : q # e.page /\ q # buffers_[v].page => hashmap_'[q] = hashmap_[q]
    BY <1>0, <2>1, <2>2 DEF PoolShape, Unmapped
  <2> QED BY <2>1, <2>2, <2>4, <2>5
<1>2. CASE Len(buffers_) # BUFFER_SIZE
  <2>1. PoolShape'
    BY <1>0, <1>2, RoomShape
  <2>2. disk' = disk /\ hashmap_' = [hashmap_ EXCEPT ![e.page] = Len(buffers_) + 1]
    BY <1>2 DEF AddToBuffer
  <2> QED BY <1>0, <2>1, <2>2 DEF PoolShape
<1> QED BY <1>1, <1>2

\* GetPage of a user table's page.
LEMMA GetShape ==
  ASSUME ShapeInv, NEW p \in RegularPage, GetPage(p)
  PROVE  ShapeInv'
<1> USE Sizes
<1>0. systable_buffers_' = systable_buffers_ /\ written' = written /\ Used(p)
  BY DEF GetPage
<1>1. CASE hashmap_[p] # NoFrame
  <2>1. /\ buffer_vec' = Access(hashmap_[p], buffer_vec)
        /\ buffers_' = buffers_ /\ hashmap_' = hashmap_ /\ disk' = disk
    BY <1>1 DEF GetPage
  <2>2. PoolShape'
    <3>1. /\ PoolShape /\ buffers_' \in Seq(BufferEntry) /\ Len(buffers_') = Len(buffers_)
          /\ \A i \in 1 .. Len(buffers_) : buffers_'[i].page = buffers_[i].page
      BY <2>1 DEF ShapeInv, PoolShape
    <3> QED BY <1>0, <1>1, <2>1, <3>1, HitShape
  <2> QED BY <1>0, <2>1, <2>2 DEF ShapeInv, FileShape
<1>2. CASE hashmap_[p] = NoFrame
  <2> DEFINE e == Entry(p, disk[p], FALSE)
  <2>1. disk[p] # NoVersion /\ AddToBuffer(e)
    BY <1>2 DEF GetPage
  <2>2. disk[p] \in 0 .. MaxVersion
    BY <2>1 DEF ShapeInv, FileShape, NoVersion
  <2>3. e \in BufferEntry /\ e.page = p
    BY <2>2 DEF Entry, BufferEntry
  <2> HIDE DEF e
  <2>4. /\ PoolShape' /\ disk' \in [Page -> NoVersion .. MaxVersion]
        /\ \A q \in RegularPage :
             hashmap_'[q] # NoFrame \/ disk'[q] # NoVersion =>
               q = p \/ hashmap_[q] # NoFrame \/ disk[q] # NoVersion
    BY <1>0, <1>2, <2>1, <2>3, AddShape
  <2> QED BY <1>0, <2>1, <2>4 DEF ShapeInv, FileShape
<1> QED BY <1>1, <1>2

\* GetPage of a system table's page.
LEMMA GetSystemShape ==
  ASSUME ShapeInv, NEW p \in SystemPage, GetSystemPage(p)
  PROVE  ShapeInv'
<1>1. /\ buffers_' = buffers_ /\ hashmap_' = hashmap_ /\ buffer_vec' = buffer_vec
      /\ disk' = disk /\ written' = written /\ recent' = recent
      /\ \/ systable_buffers_' = systable_buffers_
         \/ systable_buffers_' = [systable_buffers_ EXCEPT ![p].version = disk[p]]
  BY DEF GetSystemPage
<1>2. PoolShape'
  BY <1>1 DEF ShapeInv, PoolShape, VecExact, FrontExact, HashmapExact
<1>3. disk[p] \in NoVersion .. MaxVersion
  BY Sizes DEF ShapeInv, FileShape
<1>4. FileShape'
  BY <1>1, <1>3 DEF ShapeInv, FileShape
<1> QED BY <1>2, <1>4 DEF ShapeInv

\* NewPage, where it leaves one copy of the page: the page was not buffered, or
\* the new copy takes the frame of the old.
LEMMA NewOnce ==
  ASSUME PoolShape, NEW p \in RegularPage, NewPage(p), doubled = {}, doubled' = {},
         hashmap_[p] # NoFrame
  PROVE  Len(buffers_) = BUFFER_SIZE /\ Victim(buffer_vec) = hashmap_[p]
<1> USE Sizes
<1> DEFINE e == Entry(p, 0, TRUE)
<1>1. /\ AddToBuffer(e) /\ e.page = p
      /\ doubled' = IF Copies(p) \subseteq {hashmap_'[p]} THEN doubled ELSE doubled \cup {p}
  BY DEF NewPage, Entry
<1> HIDE DEF e
<1>2. hashmap_'[p] = hashmap_[p]
  BY <1>1, CopiesExact
<1>3. CASE Len(buffers_) = BUFFER_SIZE
  <2>1. hashmap_' = [Unmapped(buffers_[Victim(buffer_vec)]) EXCEPT ![p] = Victim(buffer_vec)]
    BY <1>1, <1>3 DEF AddToBuffer
  <2>2. hashmap_'[p] = Victim(buffer_vec)
    BY <2>1 DEF PoolShape, Unmapped
  <2> QED BY <1>2, <1>3, <2>2
<1>4. CASE Len(buffers_) # BUFFER_SIZE
  <2>1. hashmap_' = [hashmap_ EXCEPT ![p] = Len(buffers_) + 1]
    BY <1>1, <1>4 DEF AddToBuffer
  <2>2. hashmap_'[p] = Len(buffers_) + 1
    BY <2>1 DEF PoolShape
  <2>3. hashmap_[p] \in 1 .. Len(buffers_) /\ Len(buffers_) \in Nat
    BY PoolFacts
  <2> QED BY <1>2, <2>2, <2>3
<1> QED BY <1>3, <1>4

LEMMA NewShape ==
  ASSUME ShapeInv, NEW p \in Page, NewPage(p), doubled = {}, doubled' = {}
  PROVE  ShapeInv'
<1> USE Sizes
<1>0. written' = [written EXCEPT ![p] = 0] /\ 0 \in NoVersion .. MaxVersion
  BY DEF NewPage, NoVersion
<1>1. /\ written' \in [Page -> NoVersion .. MaxVersion]
      /\ \A q \in Page : q # p => written'[q] = written[q]
      /\ written'[p] # NoVersion
  BY <1>0 DEF ShapeInv, FileShape, NoVersion
<1>2. CASE p \in SystemPage
  <2>1. /\ buffers_' = buffers_ /\ hashmap_' = hashmap_ /\ buffer_vec' = buffer_vec
        /\ disk' = disk /\ recent' = recent
        /\ systable_buffers_' = [systable_buffers_ EXCEPT ![p] = [version |-> 0, dirty |-> TRUE]]
    BY <1>2 DEF NewPage
  <2>2. PoolShape'
    BY <2>1 DEF ShapeInv, PoolShape, VecExact, FrontExact, HashmapExact
  <2>3. FileShape'
    BY <1>0, <1>1, <1>2, <2>1 DEF ShapeInv, FileShape
  <2> QED BY <2>2, <2>3 DEF ShapeInv
<1>3. CASE p \notin SystemPage
  <2> DEFINE e == Entry(p, 0, TRUE)
  <2>1. AddToBuffer(e) /\ Used(p) /\ systable_buffers_' = systable_buffers_ /\ p \in RegularPage
    BY <1>3 DEF NewPage, Page
  <2>2. e \in BufferEntry /\ e.page = p
    BY <2>1 DEF Entry, BufferEntry
  <2> HIDE DEF e
  <2>3. CASE hashmap_[p] = NoFrame
    <3>1. /\ PoolShape' /\ disk' \in [Page -> NoVersion .. MaxVersion]
          /\ \A q \in RegularPage :
               hashmap_'[q] # NoFrame \/ disk'[q] # NoVersion =>
                 q = p \/ hashmap_[q] # NoFrame \/ disk[q] # NoVersion
      BY <2>1, <2>2, <2>3, AddShape
    <3> QED BY <1>1, <2>1, <3>1 DEF ShapeInv, FileShape
  <2>4. CASE hashmap_[p] # NoFrame
    <3> DEFINE old == buffers_[hashmap_[p]]
    <3>1. PoolShape' /\ hashmap_' = hashmap_ /\ disk' = Flushed(old)
      BY <2>1, <2>2, <2>4, NewOnce, ReplaceShape DEF ShapeInv
    <3>2. old.page = p /\ old \in BufferEntry
      BY <2>1, <2>4, PoolFacts DEF ShapeInv
    <3>3. old.version \in NoVersion .. MaxVersion
      BY <3>2 DEF BufferEntry, NoVersion
    <3> HIDE DEF old
    <3>4. /\ disk' \in [Page -> NoVersion .. MaxVersion]
          /\ \A q \in Page : q # p => disk'[q] = disk[q]
      BY <3>1, <3>2, <3>3 DEF Flushed, ShapeInv, FileShape
    <3> QED BY <1>1, <2>1, <3>1, <3>4 DEF ShapeInv, FileShape
  <2> QED BY <2>3, <2>4
<1> QED BY <1>2, <1>3

\* A write through a pointer.
LEMMA WriteShape ==
  ASSUME ShapeInv, NEW p \in Page, WriteThroughPointer(p)
  PROVE  /\ ShapeInv'
         /\ written[p] + 1 \in 0 .. MaxVersion
         /\ \A q \in Page : written'[q] = IF q = p THEN written[p] + 1 ELSE written[q]
<1> USE Sizes
<1>1. written[p] \in NoVersion .. MaxVersion /\ written[p] < MaxVersion
  BY DEF WriteThroughPointer, ShapeInv, FileShape
<1>2. written[p] + 1 \in 0 .. MaxVersion
  BY <1>1 DEF NoVersion
<1>3. /\ written' = [written EXCEPT ![p] = written[p] + 1]
      /\ hashmap_' = hashmap_ /\ buffer_vec' = buffer_vec /\ disk' = disk /\ recent' = recent
  BY DEF WriteThroughPointer
<1>4. /\ written' \in [Page -> NoVersion .. MaxVersion]
      /\ \A q \in Page : written'[q] = IF q = p THEN written[p] + 1 ELSE written[q]
      /\ written'[p] # NoVersion
  BY <1>2, <1>3 DEF ShapeInv, FileShape, NoVersion
<1>5. CASE p \in SystemPage
  <2>1. /\ buffers_' = buffers_
        /\ \/ systable_buffers_' = systable_buffers_
           \/ systable_buffers_' =
                [systable_buffers_ EXCEPT ![p] = [version |-> written[p] + 1, dirty |-> TRUE]]
    BY <1>5 DEF WriteThroughPointer
  <2>2. PoolShape'
    BY <1>3, <2>1 DEF ShapeInv, PoolShape, VecExact, FrontExact, HashmapExact
  <2>3. written[p] + 1 \in NoVersion .. MaxVersion
    BY <1>2 DEF NoVersion
  <2>4. FileShape'
    <3>1. systable_buffers_' \in [SystemPage -> [version : NoVersion .. MaxVersion, dirty : BOOLEAN]]
      <4> DEFINE r == [version |-> written[p] + 1, dirty |-> TRUE]
      <4>1. r \in [version : NoVersion .. MaxVersion, dirty : BOOLEAN]
        BY <2>3
      <4>2. \/ systable_buffers_' = systable_buffers_
            \/ systable_buffers_' = [systable_buffers_ EXCEPT ![p] = r]
        BY <2>1
      <4> HIDE DEF r
      <4> QED BY <1>5, <4>1, <4>2 DEF ShapeInv, FileShape
    <3>2. \A q \in RegularPage : written'[q] = written[q]
      BY <1>4, <1>5
    <3> QED BY <1>3, <1>4, <3>1, <3>2 DEF ShapeInv, FileShape
  <2> QED BY <1>2, <1>4, <2>2, <2>4 DEF ShapeInv
<1>6. CASE p \notin SystemPage
  <2>1. p \in RegularPage /\ systable_buffers_' = systable_buffers_
    BY <1>6 DEF WriteThroughPointer, Page
  <2>2. FileShape'
    BY <1>3, <1>4, <2>1 DEF ShapeInv, FileShape
  <2>3. CASE hashmap_[p] = NoFrame
    <3>1. buffers_' = buffers_
      BY <1>6, <2>1, <2>3, CopiesExact DEF WriteThroughPointer, ShapeInv
    <3>2. PoolShape'
      BY <1>3, <3>1 DEF ShapeInv, PoolShape, VecExact, FrontExact, HashmapExact
    <3> QED BY <1>2, <1>4, <2>2, <3>2 DEF ShapeInv
  <2>4. CASE hashmap_[p] # NoFrame
    <3> DEFINE f == hashmap_[p]
               e == Entry(p, written[p] + 1, TRUE)
    <3>1. buffers_' = [buffers_ EXCEPT ![f] = e]
      <4>1. Copies(p) = {f}
        BY <2>1, <2>4, CopiesExact DEF ShapeInv
      <4> QED BY <1>6, <4>1 DEF WriteThroughPointer
    <3>2. e \in BufferEntry /\ e.page = p
      BY <1>2, <2>1 DEF Entry, BufferEntry
    <3>3. f \in 1 .. Len(buffers_) /\ buffers_[f].page = p
      BY <2>1, <2>4, PoolFacts DEF ShapeInv
    <3> HIDE DEF e, f
    <3>4. /\ buffers_' \in Seq(BufferEntry) /\ Len(buffers_') = Len(buffers_)
          /\ \A i \in 1 .. Len(buffers_) : buffers_'[i] = IF i = f THEN e ELSE buffers_[i]
      BY <3>1, <3>2, <3>3, ExceptSeq DEF ShapeInv, PoolShape
    <3>5. \A i \in 1 .. Len(buffers_) : buffers_'[i].page = buffers_[i].page
      BY <3>2, <3>3, <3>4
    <3>6. VecExact'
      BY <1>3, <3>4 DEF ShapeInv, PoolShape, VecExact
    <3>7. FrontExact'
      <4>1. \A i \in 1 .. Len(buffers_) : buffer_vec[i] \in 1 .. Len(buffers_)
        BY PoolFacts DEF ShapeInv
      <4> QED BY <1>3, <3>4, <3>5, <4>1 DEF ShapeInv, PoolShape, FrontExact
    <3>8. HashmapExact'
      <4>1. \A g \in Frame : g <= Len(buffers_) => g \in 1 .. Len(buffers_)
        BY PoolFacts DEF ShapeInv
      <4> QED BY <1>3, <3>4, <3>5, <4>1 DEF ShapeInv, PoolShape, HashmapExact
    <3>9. PoolShape'
      BY <1>3, <3>4, <3>6, <3>7, <3>8 DEF ShapeInv, PoolShape
    <3> QED BY <1>2, <1>4, <2>2, <3>9 DEF ShapeInv
  <2> QED BY <2>3, <2>4
<1> QED BY <1>5, <1>6

\* The frames after Flush and Clear: none.
LEMMA EmptyShape ==
  ASSUME VecExact, buffers_' = <<>>, hashmap_' = [p \in RegularPage |-> NoFrame], recent' = <<>>,
         buffer_vec' = buffer_vec \/ buffer_vec' = <<>>
  PROVE  PoolShape'
<1> USE Sizes
<1>1. VecExact'
  <2>1. CASE buffer_vec' = buffer_vec
    <3>1. Len(<<>>) <= Len(buffer_vec)
      BY DEF VecExact, Permutation
    <3> QED BY <2>1, <3>1 DEF VecExact
  <2>2. CASE buffer_vec' = <<>>
    <3>1. Permutation(<<>>)
      BY DEF Permutation, Distinct
    <3> QED BY <2>2, <3>1 DEF VecExact
  <2> QED BY <2>1, <2>2
<1>2. FrontExact'
  BY DEF FrontExact
<1>3. HashmapExact'
  <2>1. \A p \in RegularPage, f \in Frame : hashmap_'[p] # f /\ ~(f <= 0)
    OBVIOUS
  <2> QED BY <2>1 DEF HashmapExact
<1> QED BY <1>1, <1>2, <1>3 DEF PoolShape, Distinct

\* What Flush writes: the frame of each dirty page.
LEMMA FlushWrites ==
  ASSUME PoolShape, NEW p \in RegularPage
  PROVE  /\ FlushedCopies(p) # {} <=> hashmap_[p] # NoFrame /\ buffers_[hashmap_[p]].dirty
         /\ FlushedCopies(p) # {} => Max(FlushedCopies(p)) = hashmap_[p]
<1>1. Copies(p) = IF hashmap_[p] = NoFrame THEN {} ELSE {hashmap_[p]}
  BY CopiesExact
<1>2. FlushedCopies(p) # {} => FlushedCopies(p) = {hashmap_[p]}
  BY <1>1 DEF FlushedCopies
<1>3. ASSUME hashmap_[p] # NoFrame PROVE Max({hashmap_[p]}) = hashmap_[p]
  <2>1. hashmap_[p] \in Nat
    BY <1>3, PoolFacts
  <2> QED BY <2>1 DEF Max
<1>4. FlushedCopies(p) # {} <=> hashmap_[p] # NoFrame /\ buffers_[hashmap_[p]].dirty
  BY <1>1 DEF FlushedCopies
<1> QED BY <1>2, <1>3, <1>4

\* Flush.
LEMMA FlushShape ==
  ASSUME ShapeInv, NEW regular_only \in BOOLEAN, Flush(regular_only)
  PROVE  /\ ShapeInv'
         /\ \A p \in RegularPage :
              disk'[p] = IF hashmap_[p] # NoFrame /\ buffers_[hashmap_[p]].dirty
                         THEN buffers_[hashmap_[p]].version ELSE disk[p]
         /\ \A p \in SystemPage :
              disk'[p] = IF ~regular_only /\ systable_buffers_[p].dirty
                         THEN systable_buffers_[p].version ELSE disk[p]
<1> USE Sizes
<1>0. PoolShape /\ FileShape
  BY DEF ShapeInv
<1>1. PoolShape'
  BY <1>0, EmptyShape DEF Flush, PoolShape
<1>2. \A p \in RegularPage :
        disk'[p] = IF hashmap_[p] # NoFrame /\ buffers_[hashmap_[p]].dirty
                   THEN buffers_[hashmap_[p]].version ELSE disk[p]
  BY <1>0, FlushWrites DEF Flush
<1>3. \A p \in SystemPage : FlushedCopies(p) = {}
  BY <1>0, PoolFacts DEF FlushedCopies, Copies
<1>4. \A p \in SystemPage :
        disk'[p] = IF ~regular_only /\ systable_buffers_[p].dirty
                   THEN systable_buffers_[p].version ELSE disk[p]
  <2> SUFFICES ASSUME NEW p \in SystemPage
               PROVE  disk'[p] = IF ~regular_only /\ systable_buffers_[p].dirty
                                 THEN systable_buffers_[p].version ELSE disk[p]
    OBVIOUS
  <2>1. disk'[p] = IF FlushedCopies(p) # {} THEN buffers_[Max(FlushedCopies(p))].version
                   ELSE IF p \in SystemPage /\ ~regular_only /\ systable_buffers_[p].dirty
                        THEN systable_buffers_[p].version ELSE disk[p]
    BY DEF Flush
  <2> QED BY <2>1, <1>3
<1>5. disk' \in [Page -> NoVersion .. MaxVersion]
  <2>1. ASSUME NEW p \in Page PROVE disk'[p] \in NoVersion .. MaxVersion
    <3>1. CASE p \in RegularPage
      <4>1. hashmap_[p] # NoFrame => buffers_[hashmap_[p]] \in BufferEntry
        BY <1>0, <3>1, PoolFacts
      <4>2. hashmap_[p] # NoFrame => buffers_[hashmap_[p]].version \in NoVersion .. MaxVersion
        BY <4>1 DEF BufferEntry, NoVersion
      <4> QED BY <1>0, <1>2, <3>1, <4>2 DEF FileShape
    <3>2. CASE p \in SystemPage
      <4>1. systable_buffers_[p].version \in NoVersion .. MaxVersion
        BY <1>0, <3>2 DEF FileShape
      <4> QED BY <1>0, <1>4, <3>2, <4>1 DEF FileShape
    <3> QED BY <3>1, <3>2 DEF Page
  <2>2. disk' = [p \in Page |-> disk'[p]]
    BY DEF Flush
  <2> QED BY <2>1, <2>2
<1>6. FileShape'
  <2>1. systable_buffers_' \in [SystemPage -> [version : NoVersion .. MaxVersion, dirty : BOOLEAN]]
    <3>1. NotBuffered \in [version : NoVersion .. MaxVersion, dirty : BOOLEAN]
      BY DEF NotBuffered, NoVersion
    <3>2. \/ systable_buffers_' = systable_buffers_
          \/ systable_buffers_' = [p \in SystemPage |-> NotBuffered]
      BY DEF Flush
    <3> QED BY <1>0, <3>1, <3>2 DEF FileShape
  <2>2. written' = written /\ hashmap_' = [p \in RegularPage |-> NoFrame]
    BY DEF Flush
  <2>3. \A p \in RegularPage : disk'[p] # NoVersion => written[p] # NoVersion
    BY <1>0, <1>2 DEF FileShape
  <2> QED BY <1>0, <1>5, <2>1, <2>2, <2>3 DEF FileShape
<1> QED BY <1>1, <1>2, <1>4, <1>6 DEF ShapeInv

\* Crash, also of a pool with two copies of a page.
LEMMA CrashShape ==
  ASSUME TypeShape, Crash
  PROVE  ShapeInv'
<1> USE Sizes
<1>1. PoolShape'
  BY EmptyShape DEF TypeShape, Crash
<1>2. NotBuffered \in [version : NoVersion .. MaxVersion, dirty : BOOLEAN]
  BY DEF NotBuffered, NoVersion
<1>3. FileShape'
  BY <1>2 DEF TypeShape, FileShape, Crash
<1> QED BY <1>1, <1>3 DEF ShapeInv

----------------------------------------------------------------------------
(* What the steps keep also in a pool with two copies of a page.           *)

\* AddToBuffer takes the next frame, or the one the strategy evicts.
LEMMA AddTyped ==
  ASSUME TypeShape, NEW e \in BufferEntry, AddToBuffer(e)
  PROVE  /\ buffers_' \in Seq(BufferEntry)
         /\ hashmap_' \in [RegularPage -> 0 .. Len(buffers_')]
         /\ VecExact'
         /\ disk' \in [Page -> NoVersion .. MaxVersion]
         /\ Len(buffers_) = BUFFER_SIZE => Victim(buffer_vec) \in 1 .. Len(buffers_)
<1> USE Sizes
<1>0. /\ Permutation(buffer_vec) /\ Len(buffers_) \in Nat /\ Len(buffer_vec) \in Nat
      /\ Len(buffers_) <= Len(buffer_vec) /\ Len(buffer_vec) <= BUFFER_SIZE
      /\ e.page \in RegularPage
  BY DEF TypeShape, VecExact, Permutation, BufferEntry
<1>1. CASE Len(buffers_) = BUFFER_SIZE
  <2> DEFINE v == Victim(buffer_vec)
             old == buffers_[v]
  <2>1. /\ disk' = Flushed(old)
        /\ buffer_vec' = Access(v, Front(buffer_vec))
        /\ buffers_' = [buffers_ EXCEPT ![v] = e]
        /\ hashmap_' = [Unmapped(old) EXCEPT ![e.page] = v]
    BY <1>1 DEF AddToBuffer
  <2>2. Len(buffer_vec) = BUFFER_SIZE /\ buffer_vec # <<>>
    BY <1>0, <1>1
  <2>3. v \in 1 .. Len(buffer_vec) /\ buffer_vec' = Access(v, buffer_vec)
    BY <1>0, <2>1, <2>2, EvictPermutes
  <2> HIDE DEF v
  <2>4. Permutation(buffer_vec') /\ Len(buffer_vec') = BUFFER_SIZE
    <3>1. v \in 1 .. Len(buffer_vec) + 1 /\ v <= Len(buffer_vec)
      BY <1>0, <2>3
    <3> QED BY <1>0, <2>2, <2>3, <3>1, AccessPermutes
  <2>5. v \in 1 .. Len(buffers_)
    BY <1>1, <2>2, <2>3
  <2>6. buffers_' \in Seq(BufferEntry) /\ Len(buffers_') = Len(buffers_)
    BY <2>1, <2>5, ExceptSeq DEF TypeShape
  <2>7. VecExact'
    BY <1>1, <2>4, <2>6 DEF VecExact
  <2>8. old \in BufferEntry
    BY <2>5, ElementOfSeq DEF TypeShape
  <2>9. old.page \in RegularPage /\ old.version \in NoVersion .. MaxVersion
    BY <2>8 DEF BufferEntry, NoVersion
  <2> HIDE DEF old
  <2>10. disk' \in [Page -> NoVersion .. MaxVersion]
    BY <2>1, <2>9 DEF TypeShape, Flushed
  <2>11. hashmap_' \in [RegularPage -> 0 .. Len(buffers_')]
    <3>1. Unmapped(old) \in [RegularPage -> 0 .. Len(buffers_)]
      BY <1>0, <2>9 DEF TypeShape, Unmapped, NoFrame
    <3> QED BY <1>0, <2>1, <2>5, <2>6, <3>1
  <2> QED BY <2>5, <2>6, <2>7, <2>10, <2>11 DEF v
<1>2. CASE Len(buffers_) # BUFFER_SIZE
  <2> DEFINE n == Len(buffers_)
  <2>1. /\ disk' = disk
        /\ buffer_vec' = Access(n + 1, buffer_vec)
        /\ buffers_' = Append(buffers_, e)
        /\ hashmap_' = [hashmap_ EXCEPT ![e.page] = n + 1]
    BY <1>2 DEF AddToBuffer
  <2>2. n + 1 \in 1 .. Len(buffer_vec) + 1 /\ n + 1 <= BUFFER_SIZE /\ n \in Nat
    BY <1>0, <1>2
  <2>3. buffers_' \in Seq(BufferEntry) /\ Len(buffers_') = n + 1
    BY <2>1, AppendProperties DEF TypeShape
  <2>4. hashmap_ \in [RegularPage -> 0 .. n]
    BY DEF TypeShape
  <2> HIDE DEF n
  <2>5. /\ Permutation(buffer_vec')
        /\ Len(buffer_vec') = IF n + 1 <= Len(buffer_vec) THEN Len(buffer_vec) ELSE Len(buffer_vec) + 1
    BY <1>0, <2>1, <2>2, AccessPermutes
  <2>6. VecExact'
    <3>1. n <= Len(buffer_vec)
      BY <1>0 DEF n
    <3> QED BY <1>0, <2>2, <2>3, <2>5, <3>1 DEF VecExact
  <2>7. hashmap_' \in [RegularPage -> 0 .. n + 1]
    <3>1. hashmap_ \in [RegularPage -> 0 .. n + 1] /\ n + 1 \in 0 .. n + 1
      BY <2>2, <2>4
    <3> QED BY <2>1, <3>1
  <2> QED BY <1>2, <2>1, <2>3, <2>6, <2>7 DEF TypeShape
<1> QED BY <1>1, <1>2

\* GetPage.
LEMMA GetTyped ==
  ASSUME TypeShape, NEW p \in RegularPage, GetPage(p)
  PROVE  TypeShape' /\ doubled' = doubled
<1> USE Sizes
<1>0. systable_buffers_' = systable_buffers_ /\ written' = written /\ doubled' = doubled
  BY DEF GetPage
<1>1. CASE hashmap_[p] # NoFrame
  <2>1. /\ buffer_vec' = Access(hashmap_[p], buffer_vec)
        /\ buffers_' = buffers_ /\ hashmap_' = hashmap_ /\ disk' = disk
    BY <1>1 DEF GetPage
  <2>2. /\ Permutation(buffer_vec) /\ Len(buffers_) \in Nat /\ Len(buffer_vec) \in Nat
        /\ Len(buffers_) <= Len(buffer_vec) /\ hashmap_[p] \in 0 .. Len(buffers_)
    BY DEF TypeShape, VecExact, Permutation
  <2>3. hashmap_[p] \in 1 .. Len(buffer_vec) + 1 /\ hashmap_[p] <= Len(buffer_vec)
    BY <1>1, <2>2 DEF NoFrame
  <2>4. Permutation(buffer_vec') /\ Len(buffer_vec') = Len(buffer_vec)
    BY <2>1, <2>2, <2>3, AccessPermutes
  <2>5. VecExact'
    BY <2>1, <2>4 DEF TypeShape, VecExact
  <2> QED BY <1>0, <2>1, <2>5 DEF TypeShape
<1>2. CASE hashmap_[p] = NoFrame
  <2> DEFINE e == Entry(p, disk[p], FALSE)
  <2>1. disk[p] # NoVersion /\ AddToBuffer(e)
    BY <1>2 DEF GetPage
  <2>2. disk[p] \in 0 .. MaxVersion
    BY <2>1 DEF TypeShape, NoVersion
  <2>3. e \in BufferEntry
    BY <2>2 DEF Entry, BufferEntry
  <2> HIDE DEF e
  <2> QED BY <1>0, <2>1, <2>3, AddTyped DEF TypeShape
<1> QED BY <1>1, <1>2

\* GetPage of a system table's page.
LEMMA GetSystemTyped ==
  ASSUME TypeShape, NEW p \in SystemPage, GetSystemPage(p)
  PROVE  TypeShape' /\ doubled' = doubled
<1>1. /\ buffers_' = buffers_ /\ hashmap_' = hashmap_ /\ buffer_vec' = buffer_vec
      /\ disk' = disk /\ written' = written /\ doubled' = doubled
      /\ \/ systable_buffers_' = systable_buffers_
         \/ systable_buffers_' = [systable_buffers_ EXCEPT ![p].version = disk[p]]
  BY DEF GetSystemPage
<1>2. disk[p] \in NoVersion .. MaxVersion
  BY Sizes DEF TypeShape
<1>3. systable_buffers_' \in [SystemPage -> [version : NoVersion .. MaxVersion, dirty : BOOLEAN]]
  BY <1>1, <1>2 DEF TypeShape
<1> QED BY <1>1, <1>3 DEF TypeShape, VecExact

\* NewPage of any page.
LEMMA NewTyped ==
  ASSUME TypeShape, NEW p \in Page, NewPage(p)
  PROVE  TypeShape' /\ doubled \subseteq doubled'
<1> USE Sizes
<1>0. written' = [written EXCEPT ![p] = 0] /\ 0 \in NoVersion .. MaxVersion
  BY DEF NewPage, NoVersion
<1>1. written' \in [Page -> NoVersion .. MaxVersion]
  BY <1>0 DEF TypeShape
<1>2. CASE p \in SystemPage
  <2>1. /\ buffers_' = buffers_ /\ hashmap_' = hashmap_ /\ buffer_vec' = buffer_vec
        /\ disk' = disk /\ doubled' = doubled
        /\ systable_buffers_' = [systable_buffers_ EXCEPT ![p] = [version |-> 0, dirty |-> TRUE]]
    BY <1>2 DEF NewPage
  <2>2. systable_buffers_' \in [SystemPage -> [version : NoVersion .. MaxVersion, dirty : BOOLEAN]]
    BY <1>0, <2>1 DEF TypeShape
  <2> QED BY <1>1, <2>1, <2>2 DEF TypeShape, VecExact
<1>3. CASE p \notin SystemPage
  <2> DEFINE e == Entry(p, 0, TRUE)
  <2>1. /\ AddToBuffer(e) /\ systable_buffers_' = systable_buffers_ /\ p \in RegularPage
        /\ doubled' = doubled \/ doubled' = doubled \cup {p}
    BY <1>3 DEF NewPage, Page
  <2>2. e \in BufferEntry
    BY <2>1 DEF Entry, BufferEntry
  <2> HIDE DEF e
  <2> QED BY <1>1, <2>1, <2>2, AddTyped DEF TypeShape
<1> QED BY <1>2, <1>3

\* A write through a pointer, to one of the copies.
LEMMA WriteTyped ==
  ASSUME TypeShape, NEW p \in Page, WriteThroughPointer(p)
  PROVE  TypeShape' /\ doubled' = doubled
<1> USE Sizes
<1>1. written[p] \in NoVersion .. MaxVersion /\ written[p] < MaxVersion
  BY DEF WriteThroughPointer, TypeShape
<1>2. written[p] + 1 \in 0 .. MaxVersion /\ written[p] + 1 \in NoVersion .. MaxVersion
  BY <1>1 DEF NoVersion
<1>3. /\ written' = [written EXCEPT ![p] = written[p] + 1] /\ doubled' = doubled
      /\ hashmap_' = hashmap_ /\ buffer_vec' = buffer_vec /\ disk' = disk
  BY DEF WriteThroughPointer
<1>4. written' \in [Page -> NoVersion .. MaxVersion]
  BY <1>2, <1>3 DEF TypeShape
<1>5. CASE p \in SystemPage
  <2> DEFINE r == [version |-> written[p] + 1, dirty |-> TRUE]
  <2>1. /\ buffers_' = buffers_
        /\ systable_buffers_' = systable_buffers_ \/ systable_buffers_' = [systable_buffers_ EXCEPT ![p] = r]
    BY <1>5 DEF WriteThroughPointer
  <2>2. r \in [version : NoVersion .. MaxVersion, dirty : BOOLEAN]
    BY <1>2
  <2> HIDE DEF r
  <2> QED BY <1>3, <1>4, <2>1, <2>2 DEF TypeShape, VecExact
<1>6. CASE p \notin SystemPage
  <2> DEFINE e == Entry(p, written[p] + 1, TRUE)
  <2>1. /\ p \in RegularPage /\ systable_buffers_' = systable_buffers_
        /\ \/ buffers_' = buffers_
           \/ \E f \in 1 .. Len(buffers_) : buffers_' = [buffers_ EXCEPT ![f] = e]
    BY <1>6 DEF WriteThroughPointer, Page, Copies
  <2>2. e \in BufferEntry
    BY <1>2, <2>1 DEF Entry, BufferEntry
  <2> HIDE DEF e
  <2>3. buffers_' \in Seq(BufferEntry) /\ Len(buffers_') = Len(buffers_)
    <3>1. buffers_ \in Seq(BufferEntry)
      BY DEF TypeShape
    <3>2. ASSUME NEW f \in 1 .. Len(buffers_), buffers_' = [buffers_ EXCEPT ![f] = e]
          PROVE  buffers_' \in Seq(BufferEntry) /\ Len(buffers_') = Len(buffers_)
      BY <2>2, <3>1, <3>2, ExceptSeq
    <3> QED BY <2>1, <3>1, <3>2
  <2> QED BY <1>3, <1>4, <2>1, <2>3 DEF TypeShape, VecExact
<1> QED BY <1>5, <1>6

\* Flush writes versions of the frames, in whatever order.
LEMMA FlushTyped ==
  ASSUME TypeShape, NEW regular_only \in BOOLEAN, Flush(regular_only)
  PROVE  TypeShape' /\ doubled' = doubled
<1> USE Sizes
<1>1. PoolShape'
  BY EmptyShape DEF TypeShape, Flush
<1>2. ASSUME NEW p \in Page, FlushedCopies(p) # {}
      PROVE  buffers_[Max(FlushedCopies(p))].version \in NoVersion .. MaxVersion
  <2>1. FlushedCopies(p) \in SUBSET (1 .. Len(buffers_)) /\ Len(buffers_) \in Nat
    BY DEF FlushedCopies, Copies, TypeShape
  <2>2. Max(FlushedCopies(p)) \in FlushedCopies(p)
    BY <1>2, <2>1, MaxInterval
  <2>3. buffers_[Max(FlushedCopies(p))] \in BufferEntry
    BY <2>1, <2>2, ElementOfSeq DEF TypeShape
  <2> QED BY <2>3 DEF BufferEntry, NoVersion
<1>3. \A p \in SystemPage : systable_buffers_[p].version \in NoVersion .. MaxVersion
  BY DEF TypeShape
<1>4. \A p \in Page : disk[p] \in NoVersion .. MaxVersion
  BY DEF TypeShape
<1>5. disk' \in [Page -> NoVersion .. MaxVersion]
  BY <1>2, <1>3, <1>4 DEF Flush
<1>6. systable_buffers_' \in [SystemPage -> [version : NoVersion .. MaxVersion, dirty : BOOLEAN]]
  <2>1. NotBuffered \in [version : NoVersion .. MaxVersion, dirty : BOOLEAN]
    BY DEF NotBuffered, NoVersion
  <2>2. \/ systable_buffers_' = systable_buffers_
        \/ systable_buffers_' = [p \in SystemPage |-> NotBuffered]
    BY DEF Flush
  <2> QED BY <2>1, <2>2 DEF TypeShape
<1>7. hashmap_' \in [RegularPage -> 0 .. Len(buffers_')]
  BY DEF Flush, NoFrame
<1> QED BY <1>1, <1>5, <1>6, <1>7 DEF TypeShape, PoolShape, Flush

\* Crash.
LEMMA CrashTyped ==
  ASSUME TypeShape, Crash
  PROVE  TypeShape'
<1>1. ShapeInv'
  BY CrashShape
<1>2. hashmap_' \in [RegularPage -> 0 .. Len(buffers_')] /\ doubled' \in SUBSET RegularPage
  BY DEF Crash, NoFrame
<1> QED BY <1>1, <1>2 DEF TypeShape, ShapeInv, PoolShape, FileShape

\* Every step keeps the types, and only Crash ends `doubled`.
LEMMA StepTyped ==
  ASSUME TypeShape, [Next]_vars
  PROVE  TypeShape' /\ (doubled \subseteq doubled' \/ Crash)
<1>1. CASE UNCHANGED vars
  BY <1>1 DEF vars, TypeShape, VecExact
<1> QED BY <1>1, GetTyped, GetSystemTyped, NewTyped, WriteTyped, FlushTyped, CrashTyped DEF Next

\* The invariant is inductive, for a pool of any size.
LEMMA StepShape == PoolStateInv /\ [Next]_vars => PoolStateInv'
<1> SUFFICES ASSUME PoolStateInv, [Next]_vars, doubled' = {} PROVE ShapeInv'
  BY StepTyped DEF PoolStateInv
<1>0. TypeShape
  BY DEF PoolStateInv
<1>1. CASE Crash
  BY <1>0, <1>1, CrashShape
<1>2. CASE ~Crash
  <2>1. doubled = {} /\ ShapeInv
    BY <1>0, <1>2, StepTyped DEF PoolStateInv
  <2>2. CASE UNCHANGED vars
    BY <2>1, <2>2 DEF vars, ShapeInv, PoolShape, FileShape, VecExact, FrontExact, HashmapExact
  <2> QED BY <1>2, <2>1, <2>2, GetShape, GetSystemShape, NewShape, WriteShape, FlushShape DEF Next
<1> QED BY <1>1, <1>2

\* The invariant holds at the start.
LEMMA InitState == Init => PoolStateInv
<1> SUFFICES ASSUME Init PROVE PoolStateInv
  OBVIOUS
<1>1. ShapeInv
  BY InitShape
<1>2. hashmap_ \in [RegularPage -> 0 .. Len(buffers_)] /\ doubled \in SUBSET RegularPage
  BY DEF Init, NoFrame
<1> QED BY <1>1, <1>2 DEF PoolStateInv, TypeShape, ShapeInv, PoolShape, FileShape

\* The invariant implies what the run checks.
LEMMA ShapeImplies == PoolStateInv => PoolInv
<1> SUFFICES ASSUME PoolStateInv PROVE PoolInv
  OBVIOUS
<1>0. /\ TypeShape /\ Len(buffers_) \in Nat /\ Len(buffer_vec) \in Nat
      /\ Len(buffers_) <= BUFFER_SIZE /\ Len(buffer_vec) <= BUFFER_SIZE
  BY Sizes DEF PoolStateInv, TypeShape, VecExact, Permutation
<1>1. buffer_vec \in Seq(Frame)
  <2>1. \A i \in 1 .. Len(buffer_vec) : buffer_vec[i] \in Frame
    <3>1. \A i \in 1 .. Len(buffer_vec) : buffer_vec[i] \in 1 .. Len(buffer_vec)
      BY <1>0 DEF TypeShape, VecExact, Permutation
    <3> QED BY <1>0, <3>1, Sizes DEF Frame
  <2>2. buffer_vec \in Seq(Nat)
    BY <1>0 DEF TypeShape, VecExact, Permutation
  <2> QED BY <2>1, <2>2
<1>2. TypeOK
  <2>1. hashmap_ \in [RegularPage -> {NoFrame} \cup Frame]
    BY <1>0, Sizes DEF TypeShape, NoFrame, Frame
  <2> QED BY <1>0, <1>1, <2>1 DEF TypeOK, TypeShape, BufferEntry
<1>3. ASSUME PoolShape PROVE LruExact
  <2> DEFINE n == Len(buffers_)
  <2>1. n = IF Len(recent) < BUFFER_SIZE THEN Len(recent) ELSE BUFFER_SIZE
    BY <1>3 DEF PoolShape, FrontExact
  <2>2. ASSUME NEW f \in 1 .. n PROVE \E i \in 1 .. n : recent[i] = buffers_[f].page
    BY <1>3 DEF PoolShape, FrontExact
  <2>3. ASSUME NEW i \in 1 .. n PROVE \E f \in 1 .. n : buffers_[f].page = recent[i]
    BY <1>3, PoolFacts DEF PoolShape, FrontExact
  <2>4. {buffers_[f].page : f \in 1 .. n} = {recent[i] : i \in 1 .. n}
    <3> HIDE DEF n
    <3>1. {buffers_[f].page : f \in 1 .. n} \subseteq {recent[i] : i \in 1 .. n}
      BY <2>2
    <3>2. {recent[i] : i \in 1 .. n} \subseteq {buffers_[f].page : f \in 1 .. n}
      BY <2>3
    <3> QED BY <3>1, <3>2
  <2> QED BY <2>1, <2>4 DEF LruExact
<1> QED BY <1>2, <1>3 DEF PoolInv, PoolStateInv, ShapeInv, PoolShape

\* PoolInv: for a pool of any size, and any sequence of GetPage, NewPage (of new
\* pages, of pages of the file and of pages in the pool), Flush and Clear, the
\* pool keeps its form; and the hash map names the one frame of each buffered
\* page and the pool holds the pages used last, although Flush does not tell
\* LRUBufferStrategy that the frames are gone, until the process makes a page
\* of which the pool keeps the old copy.
THEOREM PoolConsistent == Spec => []PoolInv
BY InitState, StepShape, ShapeImplies, PTL DEF Spec

----------------------------------------------------------------------------
(* The contents of the pool, for a pool of two frames or more.             *)

\* The pages the steps of PageStore make stable.
Stabilised(pages) == disk' = [q \in Page |-> IF q \in pages THEN written[q] ELSE disk[q]]

\* The order of use after one more use.
LEMMA UsedFront ==
  ASSUME PoolShape, NEW p \in RegularPage, Used(p)
  PROVE  /\ Len(recent') \in Nat /\ 1 <= Len(recent') /\ recent'[1] = p
         /\ 1 <= Len(recent) => recent[1] = p \/ (2 <= Len(recent') /\ recent'[2] = recent[1])
<1>1. /\ recent \in Seq(RegularPage) /\ Distinct(recent) /\ recent' = ToFront(recent, p)
      /\ Len(recent) \in Nat
  BY DEF PoolShape, Used, ToFront
<1>2. CASE \E k \in 1 .. Len(recent) : recent[k] = p
  <2>1. PICK k \in 1 .. Len(recent) : recent[k] = p
    BY <1>2
  <2>2. /\ Len(ToFront(recent, recent[k])) = Len(recent)
        /\ \A i \in 1 .. Len(recent) :
             ToFront(recent, recent[k])[i] =
               IF i = 1 THEN recent[k] ELSE IF i <= k THEN recent[i - 1] ELSE recent[i]
    BY <1>1, <2>1, ToFrontOld
  <2>3. /\ Len(recent') = Len(recent)
        /\ \A i \in 1 .. Len(recent) :
             recent'[i] = IF i = 1 THEN p ELSE IF i <= k THEN recent[i - 1] ELSE recent[i]
    BY <1>1, <2>1, <2>2
  <2>4. CASE k = 1
    <3>1. recent[1] = p
      BY <2>1, <2>4
    <3>2. 1 \in 1 .. Len(recent)
      BY <1>1, <2>1
    <3>3. recent'[1] = p
      BY <2>3, <3>2
    <3>4. Len(recent') \in Nat /\ 1 <= Len(recent')
      BY <1>1, <2>3, <3>2
    <3> QED BY <3>1, <3>3, <3>4
  <2>5. CASE k # 1
    <3>1. 2 \in 1 .. Len(recent) /\ 1 \in 1 .. Len(recent) /\ 2 # 1 /\ 2 <= k /\ 2 - 1 = 1
      BY <1>1, <2>1, <2>5
    <3> QED BY <1>1, <2>3, <3>1
  <2> QED BY <2>4, <2>5
<1>3. CASE \A k \in 1 .. Len(recent) : recent[k] # p
  <2>1. /\ Len(recent') = Len(recent) + 1
        /\ \A i \in 1 .. Len(recent) + 1 : recent'[i] = IF i = 1 THEN p ELSE recent[i - 1]
    BY <1>1, <1>3, ToFrontNew
  <2> QED BY <1>1, <2>1
<1> QED BY <1>2, <1>3

\* The caller's pointers after GetPage or NewPage of a user table's page.
LEMMA HoldRegular ==
  ASSUME PoolShape, HeldRecent, NEW p \in RegularPage, Used(p), Hold(p),
         systable_buffers_' = systable_buffers_
  PROVE  HeldRecent'
<1> USE Sizes
<1>0. held \in Seq(Page) /\ Len(held) \in Nat
  BY DEF HeldRecent
<1>1. CASE held = <<>>
  <2>1. held' = <<p>>
    BY <1>1 DEF Hold
  <2> QED BY <2>1, UsedFront DEF HeldRecent
<1>2. CASE held # <<>>
  <2> DEFINE q == Last(held)
  <2>1. held' = <<q, p>> /\ Len(held) \in 1 .. Len(held) /\ q = held[Len(held)] /\ q \in Page
    BY <1>0, <1>2 DEF Hold, Last
  <2>2. q \in SystemPage => systable_buffers_'[q].version # NoVersion
    BY <2>1 DEF HeldRecent
  <2>3. ASSUME q \in RegularPage
        PROVE  \E j \in 1 .. Len(recent') : j <= 2 /\ recent'[j] = q
    <3>1. 1 <= Len(recent) /\ recent[1] = q
      <4>1. PICK j \in 1 .. Len(recent) : j <= 1 + Len(held) - Len(held) /\ recent[j] = q
        BY <2>1, <2>3 DEF HeldRecent
      <4> QED BY <1>0, <4>1 DEF PoolShape
    <3>2. q = p \/ (2 <= Len(recent') /\ recent'[2] = q)
      BY <3>1, UsedFront
    <3> QED BY <3>2, UsedFront
  <2>4. held' \in Seq(Page) /\ Len(held') = 2 /\ held'[1] = q /\ held'[2] = p
    BY <2>1
  <2> HIDE DEF q
  <2>5. \E j \in 1 .. Len(recent') : j <= 1 /\ recent'[j] = p
    BY UsedFront
  <2>6. ASSUME NEW i \in 1 .. 2
        PROVE  /\ held'[i] \in SystemPage => systable_buffers_'[held'[i]].version # NoVersion
               /\ held'[i] \in RegularPage =>
                    \E j \in 1 .. Len(recent') : j <= 1 + 2 - i /\ recent'[j] = held'[i]
    BY <2>2, <2>3, <2>4, <2>5
  <2> QED BY <2>4, <2>6 DEF HeldRecent
<1> QED BY <1>1, <1>2

\* The caller's pointers after GetPage or NewPage of a system table's page.
LEMMA HoldSystem ==
  ASSUME HeldRecent, NEW p \in SystemPage, Hold(p), recent' = recent,
         systable_buffers_'[p].version # NoVersion,
         \A q \in SystemPage : systable_buffers_[q].version # NoVersion =>
           systable_buffers_'[q].version # NoVersion
  PROVE  HeldRecent'
<1> USE Sizes
<1>0. held \in Seq(Page) /\ Len(held) \in Nat
  BY DEF HeldRecent
<1>1. CASE held = <<>>
  <2>1. held' = <<p>>
    BY <1>1 DEF Hold
  <2> QED BY <2>1 DEF HeldRecent
<1>2. CASE held # <<>>
  <2> DEFINE q == Last(held)
  <2>1. held' = <<q, p>> /\ Len(held) \in 1 .. Len(held) /\ q = held[Len(held)] /\ q \in Page
    BY <1>0, <1>2 DEF Hold, Last
  <2>2. q \in SystemPage => systable_buffers_'[q].version # NoVersion
    BY <2>1 DEF HeldRecent
  <2>3. ASSUME q \in RegularPage
        PROVE  \E j \in 1 .. Len(recent) : j <= 2 /\ recent[j] = q
    <3>1. PICK j \in 1 .. Len(recent) : j <= 1 + Len(held) - Len(held) /\ recent[j] = q
      BY <2>1, <2>3 DEF HeldRecent
    <3> QED BY <1>0, <3>1
  <2>4. held' \in Seq(Page) /\ Len(held') = 2 /\ held'[1] = q /\ held'[2] = p
    BY <2>1
  <2> HIDE DEF q
  <2>5. ASSUME NEW i \in 1 .. 2
        PROVE  /\ held'[i] \in SystemPage => systable_buffers_'[held'[i]].version # NoVersion
               /\ held'[i] \in RegularPage =>
                    \E j \in 1 .. Len(recent') : j <= 1 + 2 - i /\ recent'[j] = held'[i]
    BY <2>2, <2>3, <2>4
  <2> QED BY <2>4, <2>5 DEF HeldRecent
<1> QED BY <1>1, <1>2

\* A page the caller has a pointer to is buffered: the reason why a pool of two
\* frames needs no pins.
LEMMA HeldBuffered ==
  ASSUME PoolDataInv, BUFFER_SIZE >= 2, NEW p \in Page, Contains(held, p)
  PROVE  /\ p \in SystemPage => systable_buffers_[p].version # NoVersion
         /\ p \in RegularPage => hashmap_[p] # NoFrame
<1>1. PICK i \in 1 .. Len(held) : held[i] = p
  BY DEF Contains
<1>2. p \in SystemPage => systable_buffers_[p].version # NoVersion
  BY <1>1 DEF PoolDataInv, HeldRecent
<1>3. ASSUME p \in RegularPage PROVE hashmap_[p] # NoFrame
  <2>1. PICK j \in 1 .. Len(recent) : j <= 1 + Len(held) - i /\ recent[j] = p
    BY <1>1, <1>3 DEF PoolDataInv, HeldRecent
  <2>2. Len(held) \in Nat /\ Len(held) <= 2 /\ i \in 1 .. Len(held)
    BY <1>1 DEF PoolDataInv, HeldRecent
  <2>3. j <= 2
    BY <2>1, <2>2
  <2>4. j \in 1 .. Len(buffers_)
    BY <2>1, <2>3, PoolFacts, Sizes DEF PoolDataInv, ShapeInv, PoolShape, FrontExact
  <2>5. hashmap_[p] \in 1 .. Len(buffers_)
    BY <2>1, <2>4, PoolFacts DEF PoolDataInv, ShapeInv
  <2> QED BY <2>5 DEF NoFrame
<1> QED BY <1>2, <1>3

\* AddToBuffer writes the version last written of the page it evicts, or the
\* file has it already.
LEMMA AddData ==
  ASSUME ShapeInv, DataExact, NEW e \in BufferEntry, hashmap_[e.page] = NoFrame,
         AddToBuffer(e), Used(e.page), systable_buffers_' = systable_buffers_,
         \A q \in Page : q # e.page => written'[q] = written[q],
         e.version = written'[e.page], ~e.dirty => e.version = disk[e.page]
  PROVE  /\ DataExact'
         /\ \E pages \in SUBSET Page : Stabilised(pages)
<1> USE Sizes
<1> DEFINE p == e.page
<1>0. /\ PoolShape /\ PoolShape' /\ p \in RegularPage
      /\ disk \in [Page -> NoVersion .. MaxVersion]
  BY AddShape DEF ShapeInv, FileShape, BufferEntry
<1>1. \A f \in 1 .. Len(buffers_) : buffers_[f].page # p
  BY <1>0, PoolFacts
<1>2. CASE Len(buffers_) = BUFFER_SIZE
  <2> DEFINE v == Victim(buffer_vec)
             old == buffers_[v].page
  <2>1. /\ v \in 1 .. BUFFER_SIZE /\ disk' = Flushed(buffers_[v])
        /\ hashmap_' = [Unmapped(buffers_[v]) EXCEPT ![p] = v]
        /\ buffers_' = [buffers_ EXCEPT ![v] = e]
    BY <1>0, <1>2, FullShape
  <2> HIDE DEF v
  <2>2. old \in RegularPage /\ old # p /\ hashmap_[old] = v /\ v # NoFrame
    BY <1>0, <1>1, <1>2, <2>1, PoolFacts
  <2>3. /\ Len(buffers_') = BUFFER_SIZE
        /\ \A i \in 1 .. BUFFER_SIZE : buffers_'[i] = IF i = v THEN e ELSE buffers_[i]
    BY <1>0, <1>2, <2>1, ExceptSeq DEF PoolShape
  <2>4. disk' = [q \in Page |-> IF q \in {old} THEN written[q] ELSE disk[q]]
    <3>1. /\ buffers_[v].version = written[old]
          /\ ~buffers_[v].dirty => disk[old] = written[old]
      BY <1>2, <2>1 DEF DataExact
    <3>2. old \in Page
      BY <2>2
    <3>3. disk' = [disk EXCEPT ![old] = written[old]]
      BY <1>0, <2>1, <3>1, <3>2 DEF Flushed
    <3> QED BY <1>0, <3>2, <3>3
  <2>5. Stabilised({old}) /\ {old} \in SUBSET Page
    BY <2>2, <2>4 DEF Stabilised
  <2>6. \A q \in RegularPage :
          hashmap_'[q] = IF q = p THEN v ELSE IF q = old THEN NoFrame ELSE hashmap_[q]
    BY <1>0, <2>1, <2>2 DEF PoolShape, Unmapped
  <2>7. \A q \in Page : disk'[q] = IF q = old THEN written[q] ELSE disk[q]
    BY <2>4
  <2>8. ASSUME NEW f \in 1 .. Len(buffers_')
        PROVE  /\ buffers_'[f].version = written'[buffers_'[f].page]
               /\ ~buffers_'[f].dirty => buffers_'[f].version = disk'[buffers_'[f].page]
    <3>1. CASE f = v
      BY <3>1, <1>0, <2>2, <2>3, <2>7
    <3>2. CASE f # v
      <4>1. buffers_'[f] = buffers_[f] /\ f \in 1 .. Len(buffers_)
        BY <3>2, <1>2, <2>3
      <4>2. buffers_[f].page \in RegularPage /\ hashmap_[buffers_[f].page] = f /\ buffers_[f].page # p
        BY <4>1, <1>0, <1>1, PoolFacts
      <4>3. buffers_[f].page # old
        BY <4>2, <3>2, <2>2
      <4> QED BY <4>1, <4>2, <4>3, <2>7 DEF DataExact
    <3> QED BY <3>1, <3>2
  <2>9. \A q \in RegularPage : hashmap_'[q] = NoFrame => written'[q] = disk'[q]
    BY <2>2, <2>6, <2>7 DEF DataExact
  <2>10. \A q \in SystemPage : q # p /\ q # old
    BY <1>0, <2>2
  <2> QED BY <2>5, <2>7, <2>8, <2>9, <2>10 DEF DataExact
<1>3. CASE Len(buffers_) # BUFFER_SIZE
  <2> DEFINE n == Len(buffers_)
  <2>1. /\ disk' = disk /\ hashmap_' = [hashmap_ EXCEPT ![p] = n + 1]
        /\ buffers_' = Append(buffers_, e)
    BY <1>3 DEF AddToBuffer
  <2>2. n + 1 \in Frame
    BY <1>0, <1>3, PoolFacts DEF Frame
  <2>3. /\ Len(buffers_') = n + 1 /\ buffers_'[n + 1] = e
        /\ \A i \in 1 .. n : buffers_'[i] = buffers_[i]
    BY <1>0, <2>1, AppendProperties DEF PoolShape
  <2>4. Stabilised({})
    BY <1>0, <2>1 DEF Stabilised
  <2>5. \A q \in RegularPage : hashmap_'[q] = IF q = p THEN n + 1 ELSE hashmap_[q]
    BY <1>0, <2>1 DEF PoolShape
  <2>6. ASSUME NEW f \in 1 .. Len(buffers_')
        PROVE  /\ buffers_'[f].version = written'[buffers_'[f].page]
               /\ ~buffers_'[f].dirty => buffers_'[f].version = disk'[buffers_'[f].page]
    <3>1. CASE f = n + 1
      BY <3>1, <2>1, <2>3
    <3>2. CASE f # n + 1
      <4>1. buffers_'[f] = buffers_[f] /\ f \in 1 .. n
        BY <3>2, <1>0, <2>3, PoolFacts
      <4>2. buffers_[f].page \in RegularPage /\ buffers_[f].page # p
        BY <4>1, <1>0, <1>1, PoolFacts
      <4> QED BY <4>1, <4>2, <2>1 DEF DataExact
    <3> QED BY <3>1, <3>2
  <2>7. \A q \in RegularPage : hashmap_'[q] = NoFrame => written'[q] = disk'[q]
    BY <2>1, <2>2, <2>5 DEF DataExact
  <2>8. \A q \in SystemPage : q # p
    BY <1>0
  <2> QED BY <2>1, <2>4, <2>6, <2>7, <2>8 DEF DataExact
<1> QED BY <1>2, <1>3

\* The same of AddToBuffer of any page, also of one that is buffered.
LEMMA AddStable ==
  ASSUME TypeShape, DataExact, NEW e \in BufferEntry, AddToBuffer(e)
  PROVE  \E pages \in SUBSET Page : Stabilised(pages)
<1> USE Sizes
<1>0. disk \in [Page -> NoVersion .. MaxVersion]
  BY DEF TypeShape
<1>1. CASE Len(buffers_) = BUFFER_SIZE
  <2> DEFINE v == Victim(buffer_vec)
             old == buffers_[v].page
  <2>1. v \in 1 .. Len(buffers_) /\ disk' = Flushed(buffers_[v])
    BY <1>1, AddTyped DEF AddToBuffer
  <2> HIDE DEF v
  <2>2. buffers_[v] \in BufferEntry
    BY <2>1, ElementOfSeq DEF TypeShape
  <2>3. old \in Page
    BY <2>2 DEF BufferEntry
  <2>4. /\ buffers_[v].version = written[old]
        /\ ~buffers_[v].dirty => disk[old] = written[old]
    BY <2>1 DEF DataExact
  <2>5. disk' = [disk EXCEPT ![old] = written[old]]
    BY <1>0, <2>1, <2>3, <2>4 DEF Flushed
  <2>6. disk' = [q \in Page |-> IF q \in {old} THEN written[q] ELSE disk[q]]
    BY <1>0, <2>3, <2>5
  <2>7. Stabilised({old}) /\ {old} \in SUBSET Page
    BY <2>3, <2>6 DEF Stabilised
  <2> QED BY <2>7
<1>2. CASE Len(buffers_) # BUFFER_SIZE
  <2>1. disk' = disk
    BY <1>2 DEF AddToBuffer
  <2>2. Stabilised({})
    BY <1>0, <2>1 DEF Stabilised
  <2> QED BY <2>2
<1> QED BY <1>1, <1>2

\* NewPage of a page whose frame is the one a full pool evicts.
LEMMA ReplaceData ==
  ASSUME ShapeInv, DataExact, NEW e \in BufferEntry, hashmap_[e.page] # NoFrame,
         Len(buffers_) = BUFFER_SIZE, Victim(buffer_vec) = hashmap_[e.page],
         AddToBuffer(e), Used(e.page), systable_buffers_' = systable_buffers_,
         \A q \in Page : q # e.page => written'[q] = written[q],
         e.version = written'[e.page], e.dirty
  PROVE  DataExact'
<1> USE Sizes
<1> DEFINE p == e.page
           v == hashmap_[p]
<1>0. /\ PoolShape /\ p \in RegularPage /\ p \in Page
      /\ disk \in [Page -> NoVersion .. MaxVersion]
  BY DEF ShapeInv, FileShape, BufferEntry
<1>1. /\ disk' = Flushed(buffers_[v]) /\ hashmap_' = hashmap_ /\ Len(buffers_') = Len(buffers_)
      /\ \A i \in 1 .. Len(buffers_) : buffers_'[i] = IF i = v THEN e ELSE buffers_[i]
  BY <1>0, ReplaceShape
<1>2. v \in 1 .. Len(buffers_) /\ buffers_[v].page = p
  BY <1>0, PoolFacts
<1>3. \A q \in Page : q # p => disk'[q] = disk[q]
  BY <1>0, <1>1, <1>2 DEF Flushed
<1>4. ASSUME NEW f \in 1 .. Len(buffers_')
      PROVE  /\ buffers_'[f].version = written'[buffers_'[f].page]
             /\ ~buffers_'[f].dirty => buffers_'[f].version = disk'[buffers_'[f].page]
  <2>1. CASE f = v
    BY <2>1, <1>1, <1>2
  <2>2. CASE f # v
    <3>1. /\ buffers_'[f] = buffers_[f] /\ f \in 1 .. Len(buffers_)
          /\ buffers_[f].page \in RegularPage /\ buffers_[f].page # p
      BY <2>2, <1>0, <1>1, PoolFacts
    <3>2. /\ written'[buffers_[f].page] = written[buffers_[f].page]
          /\ disk'[buffers_[f].page] = disk[buffers_[f].page]
      BY <3>1, <1>3
    <3> QED BY <3>1, <3>2 DEF DataExact
  <2> QED BY <2>1, <2>2
<1>5. \A q \in RegularPage : hashmap_'[q] = NoFrame => written'[q] = disk'[q]
  <2>1. \A q \in RegularPage : hashmap_'[q] = NoFrame => q # p /\ written[q] = disk[q]
    BY <1>1 DEF DataExact
  <2> QED BY <2>1, <1>3
<1>6. \A q \in SystemPage : q # p /\ q \in Page
  BY <1>0
<1> QED BY <1>3, <1>4, <1>5, <1>6 DEF DataExact

----------------------------------------------------------------------------
(* The steps keep the contents, and each of them is a step of PageStore.   *)

\* Init.
LEMMA InitData == Init => PoolFullInv /\ PS!Init
<1> SUFFICES ASSUME Init PROVE PoolFullInv /\ PS!Init
  OBVIOUS
<1>1. TypeShape /\ ShapeInv
  BY InitState DEF PoolStateInv, Init
<1>2. DataExact
  BY DEF Init, DataExact, NotBuffered
<1>3. HeldRecent
  BY DEF Init, HeldRecent
<1>4. PS!Init
  BY DEF Init, PS!Init, PS!NoVersion, NoVersion
<1> QED BY <1>1, <1>2, <1>3, <1>4 DEF PoolFullInv, PoolDataInv

\* A step of PageStore that reads, creates or neither, with pages made stable.
LEMMA PageStoreStep ==
  ASSUME NEW pages \in SUBSET Page, Stabilised(pages), doubled = {},
         \/ written' = written /\ reply' = reply /\ doubled' = {}
         \/ /\ doubled' = {}
            /\ \E p \in Page : written[p] # NoVersion /\ reply' = written[p] /\ written' = written
         \/ \E p \in Page : /\ written' = [written EXCEPT ![p] = 0] /\ reply' = reply
                            /\ written[p] = NoVersion => doubled' = {}
  PROVE  PS!Next
<1>1. PS!Stabilise(pages)
  BY DEF PS!Stabilise, Stabilised
<1>2. CASE written' = written /\ reply' = reply /\ doubled' = {}
  <2>1. UNCHANGED <<written, reply, doubled = {}>>
    BY <1>2
  <2> QED BY <1>1, <2>1 DEF PS!Next
<1>3. CASE /\ doubled' = {}
           /\ \E p \in Page : written[p] # NoVersion /\ reply' = written[p] /\ written' = written
  <2>1. \E p \in Page : PS!Read(p)
    BY <1>3 DEF PS!Read, PS!NoVersion, NoVersion
  <2> QED BY <1>1, <2>1 DEF PS!Next
<1>4. CASE \E p \in Page : /\ written' = [written EXCEPT ![p] = 0] /\ reply' = reply
                           /\ written[p] = NoVersion => doubled' = {}
  <2>1. PICK p \in Page : /\ written' = [written EXCEPT ![p] = 0] /\ reply' = reply
                          /\ written[p] = NoVersion => doubled' = {}
    BY <1>4
  <2>2. PS!NoVersion = NoVersion
    BY DEF PS!NoVersion, NoVersion
  <2>3. PS!Create(p)
    BY <2>1, <2>2 DEF PS!Create
  <2> QED BY <1>1, <2>3 DEF PS!Next
<1> QED BY <1>2, <1>3, <1>4

\* GetPage of a user table's page returns the version last written.
LEMMA GetData ==
  ASSUME PoolDataInv, doubled = {}, NEW p \in RegularPage, GetPage(p)
  PROVE  PoolDataInv' /\ PS!Next
<1> USE Sizes
<1>0. /\ doubled' = {} /\ ShapeInv /\ PoolShape /\ DataExact /\ HeldRecent
      /\ systable_buffers_' = systable_buffers_ /\ written' = written /\ Used(p) /\ Hold(p)
      /\ disk \in [Page -> NoVersion .. MaxVersion] /\ p \in Page
  BY DEF GetPage, PoolDataInv, ShapeInv, FileShape
<1>1. ShapeInv' /\ HeldRecent'
  BY <1>0, GetShape, HoldRegular
<1>2. CASE hashmap_[p] # NoFrame
  <2>1. /\ reply' = buffers_[hashmap_[p]].version
        /\ buffers_' = buffers_ /\ hashmap_' = hashmap_ /\ disk' = disk
    BY <1>2 DEF GetPage
  <2>2. DataExact'
    BY <1>0, <2>1 DEF DataExact
  <2>3. Stabilised({})
    BY <1>0, <2>1 DEF Stabilised
  <2>4. reply' = written[p]
    BY <1>0, <1>2, <2>1, PoolFacts DEF DataExact
  <2>5. written[p] # NoVersion
    BY <1>0, <1>2 DEF ShapeInv, FileShape
  <2>6. PS!Next
    BY <1>0, <2>3, <2>4, <2>5, PageStoreStep
  <2> QED BY <1>1, <2>2, <2>6 DEF PoolDataInv
<1>3. CASE hashmap_[p] = NoFrame
  <2> DEFINE e == Entry(p, disk[p], FALSE)
  <2>1. disk[p] # NoVersion /\ AddToBuffer(e) /\ reply' = disk[p]
    BY <1>3 DEF GetPage
  <2>2. disk[p] \in 0 .. MaxVersion /\ written[p] = disk[p]
    BY <1>0, <1>3, <2>1 DEF NoVersion, DataExact
  <2>3. e \in BufferEntry /\ e.page = p /\ e.version = disk[p] /\ e.dirty = FALSE
    BY <2>2 DEF Entry, BufferEntry
  <2> HIDE DEF e
  <2>4. DataExact' /\ \E pages \in SUBSET Page : Stabilised(pages)
    BY <1>0, <1>3, <2>1, <2>2, <2>3, AddData
  <2>5. PS!Next
    BY <1>0, <2>1, <2>2, <2>4, PageStoreStep
  <2> QED BY <1>1, <2>4, <2>5 DEF PoolDataInv
<1> QED BY <1>2, <1>3

\* GetPage of a system table's page returns the version last written.
LEMMA GetSystemData ==
  ASSUME PoolDataInv, doubled = {}, NEW p \in SystemPage, GetSystemPage(p)
  PROVE  PoolDataInv' /\ PS!Next
<1> USE Sizes
<1> DEFINE s == systable_buffers_[p].version
<1>0. /\ doubled' = {} /\ ShapeInv /\ DataExact /\ HeldRecent /\ Hold(p) /\ p \in Page
      /\ buffers_' = buffers_ /\ hashmap_' = hashmap_
      /\ disk' = disk /\ written' = written /\ recent' = recent
      /\ disk \in [Page -> NoVersion .. MaxVersion]
      /\ systable_buffers_ \in [SystemPage -> [version : NoVersion .. MaxVersion, dirty : BOOLEAN]]
  BY DEF GetSystemPage, PoolDataInv, ShapeInv, FileShape
<1>1. ShapeInv'
  BY <1>0, GetSystemShape
<1>2. Stabilised({})
  BY <1>0 DEF Stabilised
<1>3. CASE s # NoVersion
  <2>1. reply' = s /\ systable_buffers_' = systable_buffers_
    BY <1>3 DEF GetSystemPage
  <2>2. s = written[p]
    BY <1>0, <1>3 DEF DataExact
  <2>3. DataExact'
    BY <1>0, <2>1 DEF DataExact
  <2>4. HeldRecent'
    BY <1>0, <1>3, <2>1, HoldSystem
  <2>5. PS!Next
    BY <1>0, <1>2, <1>3, <2>1, <2>2, PageStoreStep
  <2> QED BY <1>1, <2>3, <2>4, <2>5 DEF PoolDataInv
<1>4. CASE s = NoVersion
  <2>1. /\ reply' = disk[p] /\ disk[p] # NoVersion
        /\ systable_buffers_' = [systable_buffers_ EXCEPT ![p].version = disk[p]]
    BY <1>4 DEF GetSystemPage
  <2>2. written[p] = disk[p]
    BY <1>0, <1>4 DEF DataExact
  <2>3. /\ systable_buffers_'[p].version = disk[p]
        /\ \A q \in SystemPage : q # p => systable_buffers_'[q] = systable_buffers_[q]
    BY <1>0, <2>1
  <2>4. DataExact'
    <3>1. ASSUME NEW q \in SystemPage
          PROVE  /\ systable_buffers_'[q].version \in {NoVersion, written[q]}
                 /\ systable_buffers_'[q].version = NoVersion => ~systable_buffers_'[q].dirty
                 /\ ~systable_buffers_'[q].dirty => written[q] = disk[q]
      BY <1>0, <2>1, <2>2, <2>3 DEF DataExact
    <3> QED BY <1>0, <3>1 DEF DataExact
  <2>5. HeldRecent'
    BY <1>0, <2>1, <2>3, HoldSystem
  <2>6. PS!Next
    BY <1>0, <1>2, <2>1, <2>2, PageStoreStep
  <2> QED BY <1>1, <2>4, <2>5, <2>6 DEF PoolDataInv
<1> QED BY <1>3, <1>4

\* NewPage creates a page; the contents stay exact if the pool has one copy.
LEMMA NewData ==
  ASSUME PoolDataInv, TypeShape, doubled = {}, NEW p \in Page, NewPage(p)
  PROVE  (doubled' = {} => PoolDataInv') /\ PS!Next
<1> USE Sizes
<1>0. /\ ShapeInv /\ PoolShape /\ DataExact /\ HeldRecent /\ Hold(p)
      /\ written' = [written EXCEPT ![p] = 0] /\ reply' = reply
      /\ disk \in [Page -> NoVersion .. MaxVersion] /\ written \in [Page -> NoVersion .. MaxVersion]
      /\ systable_buffers_ \in [SystemPage -> [version : NoVersion .. MaxVersion, dirty : BOOLEAN]]
  BY DEF NewPage, PoolDataInv, ShapeInv, FileShape
<1>1. doubled' = {} => ShapeInv'
  BY <1>0, NewShape
<1>2. written'[p] = 0 /\ \A q \in Page : q # p => written'[q] = written[q]
  BY <1>0
<1>3. CASE p \in SystemPage
  <2>1. /\ buffers_' = buffers_ /\ hashmap_' = hashmap_ /\ disk' = disk /\ recent' = recent
        /\ systable_buffers_' = [systable_buffers_ EXCEPT ![p] = [version |-> 0, dirty |-> TRUE]]
        /\ doubled' = {}
    BY <1>3 DEF NewPage
  <2>2. /\ systable_buffers_'[p].version = 0 /\ systable_buffers_'[p].dirty = TRUE /\ 0 # NoVersion
        /\ \A q \in SystemPage : q # p => systable_buffers_'[q] = systable_buffers_[q]
    BY <1>0, <1>3, <2>1 DEF NoVersion
  <2>3. \A f \in 1 .. Len(buffers_) : buffers_[f].page \in RegularPage
    BY <1>0, PoolFacts
  <2>4. DataExact'
    <3>1. \A q \in RegularPage : written'[q] = written[q]
      BY <1>2, <1>3
    <3>2. ASSUME NEW q \in SystemPage
          PROVE  /\ systable_buffers_'[q].version \in {NoVersion, written'[q]}
                 /\ systable_buffers_'[q].version = NoVersion => ~systable_buffers_'[q].dirty
                 /\ ~systable_buffers_'[q].dirty => written'[q] = disk[q]
      BY <1>0, <1>2, <2>2 DEF DataExact
    <3> QED BY <1>0, <2>1, <2>3, <3>1, <3>2 DEF DataExact
  <2>5. HeldRecent'
    BY <1>0, <1>3, <2>1, <2>2, HoldSystem
  <2>6. Stabilised({})
    BY <1>0, <2>1 DEF Stabilised
  <2>7. PS!Next
    BY <1>0, <2>1, <2>6, PageStoreStep
  <2> QED BY <1>1, <2>4, <2>5, <2>7 DEF PoolDataInv
<1>4. CASE p \notin SystemPage
  <2> DEFINE e == Entry(p, 0, TRUE)
  <2>1. AddToBuffer(e) /\ Used(p) /\ systable_buffers_' = systable_buffers_ /\ p \in RegularPage
    BY <1>4 DEF NewPage, Page
  <2>2. e \in BufferEntry /\ e.page = p /\ e.version = 0 /\ e.dirty = TRUE
    BY <2>1 DEF Entry, BufferEntry
  <2> HIDE DEF e
  <2>3. HeldRecent'
    BY <1>0, <2>1, HoldRegular
  <2>4. ASSUME doubled' = {} PROVE DataExact'
    <3>1. CASE hashmap_[p] = NoFrame
      BY <1>0, <1>2, <2>1, <2>2, <3>1, AddData
    <3>2. CASE hashmap_[p] # NoFrame
      <4>1. Len(buffers_) = BUFFER_SIZE /\ Victim(buffer_vec) = hashmap_[p]
        BY <1>0, <2>1, <2>4, <3>2, NewOnce
      <4> QED BY <1>0, <1>2, <2>1, <2>2, <3>2, <4>1, ReplaceData
    <3> QED BY <3>1, <3>2
  <2>5. written[p] = NoVersion => doubled' = {}
    <3> SUFFICES ASSUME written[p] = NoVersion PROVE doubled' = {}
      OBVIOUS
    <3>1. hashmap_[p] = NoFrame
      BY <1>0, <2>1 DEF ShapeInv, FileShape
    <3>2. Copies(p) = {}
      BY <1>0, <2>1, <3>1, CopiesExact
    <3> QED BY <1>4, <3>2 DEF NewPage
  <2>6. \E pages \in SUBSET Page : Stabilised(pages)
    BY <1>0, <2>1, <2>2, AddStable
  <2>7. PS!Next
    BY <1>0, <2>5, <2>6, PageStoreStep
  <2> QED BY <1>1, <2>3, <2>4, <2>7 DEF PoolDataInv
<1> QED BY <1>3, <1>4

\* A write through a pointer reaches the pool's copy of the page.
LEMMA WriteData ==
  ASSUME PoolDataInv, doubled = {}, BUFFER_SIZE >= 2, NEW p \in Page, WriteThroughPointer(p)
  PROVE  PoolDataInv' /\ PS!Next
<1> USE Sizes
<1>0. /\ doubled' = {} /\ ShapeInv /\ PoolShape /\ DataExact /\ HeldRecent /\ Contains(held, p)
      /\ written[p] < MaxVersion /\ written' = [written EXCEPT ![p] = @ + 1]
      /\ hashmap_' = hashmap_ /\ disk' = disk /\ held' = held /\ reply' = reply /\ recent' = recent
      /\ disk \in [Page -> NoVersion .. MaxVersion] /\ written \in [Page -> NoVersion .. MaxVersion]
      /\ systable_buffers_ \in [SystemPage -> [version : NoVersion .. MaxVersion, dirty : BOOLEAN]]
  BY DEF WriteThroughPointer, PoolDataInv, ShapeInv, FileShape
<1>1. /\ ShapeInv' /\ written[p] + 1 \in 0 .. MaxVersion
      /\ \A q \in Page : written'[q] = IF q = p THEN written[p] + 1 ELSE written[q]
  BY <1>0, WriteShape
<1>2. written[p] # NoVersion => PS!Next
  <2>1. ASSUME written[p] # NoVersion PROVE PS!Write(p)
    <3>1. written[p] \in NoVersion .. MaxVersion
      BY <1>0
    <3>2. written[p] \in 0 .. MaxVersion - 1
      BY <1>0, <2>1, <3>1 DEF NoVersion
    <3> QED BY <1>0, <3>2 DEF PS!Write
  <2> QED BY <2>1 DEF PS!Next
<1>3. CASE p \in SystemPage
  <2> DEFINE r == [version |-> written[p] + 1, dirty |-> TRUE]
  <2>1. systable_buffers_[p].version # NoVersion /\ systable_buffers_[p].version = written[p]
    BY <1>0, <1>3, HeldBuffered DEF DataExact
  <2>2. buffers_' = buffers_ /\ systable_buffers_' = [systable_buffers_ EXCEPT ![p] = r]
    BY <1>3, <2>1 DEF WriteThroughPointer
  <2>3. r.version = written'[p] /\ r.version # NoVersion /\ r.dirty = TRUE
    BY <1>1 DEF NoVersion
  <2> HIDE DEF r
  <2>4. /\ systable_buffers_'[p] = r
        /\ \A q \in SystemPage : q # p => systable_buffers_'[q] = systable_buffers_[q]
    BY <1>0, <1>3, <2>2
  <2>5. \A f \in 1 .. Len(buffers_) : buffers_[f].page \in RegularPage
    BY <1>0, PoolFacts
  <2>6. DataExact'
    <3>1. \A q \in RegularPage : written'[q] = written[q]
      BY <1>1, <1>3
    <3>2. ASSUME NEW q \in SystemPage
          PROVE  /\ systable_buffers_'[q].version \in {NoVersion, written'[q]}
                 /\ systable_buffers_'[q].version = NoVersion => ~systable_buffers_'[q].dirty
                 /\ ~systable_buffers_'[q].dirty => written'[q] = disk[q]
      BY <1>0, <1>1, <2>3, <2>4 DEF DataExact
    <3> QED BY <1>0, <2>2, <2>5, <3>1, <3>2 DEF DataExact
  <2>7. HeldRecent'
    BY <1>0, <2>3, <2>4 DEF HeldRecent
  <2> QED BY <1>1, <1>2, <2>1, <2>6, <2>7 DEF PoolDataInv
<1>4. CASE p \notin SystemPage
  <2> DEFINE e == Entry(p, written[p] + 1, TRUE)
             g == hashmap_[p]
  <2>1. p \in RegularPage /\ g # NoFrame
    BY <1>0, <1>4, HeldBuffered DEF Page
  <2>2. g \in 1 .. Len(buffers_) /\ buffers_[g].page = p
    BY <1>0, <2>1, PoolFacts
  <2>3. systable_buffers_' = systable_buffers_ /\ buffers_' = [buffers_ EXCEPT ![g] = e]
    <3>1. Copies(p) = {g}
      BY <1>0, <2>1, CopiesExact
    <3> QED BY <1>4, <3>1 DEF WriteThroughPointer
  <2>4. e \in BufferEntry /\ e.page = p /\ e.version = written'[p] /\ e.dirty = TRUE
    BY <1>1, <2>1 DEF Entry, BufferEntry
  <2> HIDE DEF e, g
  <2>5. /\ Len(buffers_') = Len(buffers_)
        /\ \A i \in 1 .. Len(buffers_) : buffers_'[i] = IF i = g THEN e ELSE buffers_[i]
    BY <1>0, <2>2, <2>3, <2>4, ExceptSeq DEF PoolShape
  <2>6. ASSUME NEW f \in 1 .. Len(buffers_')
        PROVE  /\ buffers_'[f].version = written'[buffers_'[f].page]
               /\ ~buffers_'[f].dirty => buffers_'[f].version = disk[buffers_'[f].page]
    <3>1. CASE f = g
      BY <3>1, <2>2, <2>4, <2>5
    <3>2. CASE f # g
      <4>1. /\ f \in 1 .. Len(buffers_) /\ buffers_'[f] = buffers_[f]
            /\ buffers_[f].page \in RegularPage /\ hashmap_[buffers_[f].page] = f
        BY <3>2, <1>0, <2>5, PoolFacts
      <4>2. written'[buffers_[f].page] = written[buffers_[f].page]
        BY <4>1, <3>2, <1>1 DEF g
      <4> QED BY <1>0, <4>1, <4>2 DEF DataExact
    <3> QED BY <3>1, <3>2
  <2>7. \A q \in RegularPage : hashmap_[q] = NoFrame => q # p /\ written'[q] = disk[q]
    BY <1>0, <1>1, <2>1 DEF DataExact, g
  <2>8. \A q \in SystemPage : written'[q] = written[q]
    BY <1>1, <1>4
  <2>9. DataExact'
    BY <1>0, <2>3, <2>6, <2>7, <2>8 DEF DataExact
  <2>10. HeldRecent'
    BY <1>0, <2>3 DEF HeldRecent
  <2>11. written[p] # NoVersion
    BY <1>0, <2>1 DEF ShapeInv, FileShape, g
  <2> QED BY <1>1, <1>2, <2>9, <2>10, <2>11 DEF PoolDataInv
<1> QED BY <1>3, <1>4

\* Flush makes the pages it covers stable.
LEMMA FlushData ==
  ASSUME PoolDataInv, doubled = {}, NEW regular_only \in BOOLEAN, Flush(regular_only)
  PROVE  PoolDataInv' /\ PS!Next
<1> USE Sizes
<1>0. /\ doubled' = {} /\ ShapeInv /\ PoolShape /\ DataExact
      /\ written' = written /\ reply' = reply /\ held' = <<>> /\ recent' = <<>> /\ buffers_' = <<>>
      /\ hashmap_' = [p \in RegularPage |-> NoFrame]
      /\ disk' = [p \in Page |-> disk'[p]]
      /\ systable_buffers_' = IF regular_only THEN systable_buffers_
                              ELSE [p \in SystemPage |-> NotBuffered]
  BY DEF Flush, PoolDataInv, ShapeInv
<1>1. /\ ShapeInv'
      /\ \A p \in RegularPage :
           disk'[p] = IF hashmap_[p] # NoFrame /\ buffers_[hashmap_[p]].dirty
                      THEN buffers_[hashmap_[p]].version ELSE disk[p]
      /\ \A p \in SystemPage :
           disk'[p] = IF ~regular_only /\ systable_buffers_[p].dirty
                      THEN systable_buffers_[p].version ELSE disk[p]
  BY <1>0, FlushShape
<1>2. \A p \in RegularPage : disk'[p] = written[p]
  BY <1>0, <1>1, PoolFacts DEF DataExact
<1>3. \A p \in SystemPage : disk'[p] = IF regular_only THEN disk[p] ELSE written[p]
  <2> SUFFICES ASSUME NEW p \in SystemPage, ~regular_only PROVE disk'[p] = written[p]
    BY <1>1
  <2>1. /\ systable_buffers_[p].version \in {NoVersion, written[p]}
        /\ systable_buffers_[p].version = NoVersion => ~systable_buffers_[p].dirty
        /\ ~systable_buffers_[p].dirty => written[p] = disk[p]
    BY <1>0 DEF DataExact
  <2> QED BY <1>1, <2>1
<1>4. DataExact'
  BY <1>0, <1>2, <1>3 DEF DataExact, NotBuffered
<1>5. HeldRecent'
  BY <1>0 DEF HeldRecent
<1>6. \E pages \in SUBSET Page : Stabilised(pages)
  <2>1. CASE regular_only
    <3>1. disk' = [q \in Page |-> IF q \in RegularPage THEN written[q] ELSE disk[q]]
      BY <1>0, <1>2, <1>3, <2>1 DEF Page
    <3> QED BY <3>1 DEF Stabilised
  <2>2. CASE ~regular_only
    <3>1. disk' = [q \in Page |-> IF q \in Page THEN written[q] ELSE disk[q]]
      BY <1>0, <1>2, <1>3, <2>2 DEF Page
    <3> QED BY <3>1 DEF Stabilised
  <2> QED BY <2>1, <2>2
<1>7. PS!Next
  BY <1>0, <1>6, PageStoreStep
<1> QED BY <1>1, <1>4, <1>5, <1>7 DEF PoolDataInv

\* Crash falls back to the files, also from a pool with two copies of a page.
LEMMA CrashData ==
  ASSUME TypeShape, Crash
  PROVE  PoolDataInv' /\ PS!Next
<1>1. ShapeInv'
  BY CrashShape
<1>2. DataExact' /\ HeldRecent'
  BY DEF Crash, DataExact, HeldRecent, NotBuffered
<1>3. PS!Next
  BY DEF Crash, PS!Crash, PS!Next
<1> QED BY <1>1, <1>2, <1>3 DEF PoolDataInv

\* The invariant is inductive for a pool of two frames or more, and the pool
\* only takes steps of the page store.
LEMMA StepData ==
  ASSUME BUFFER_SIZE >= 2
  PROVE  PoolFullInv /\ [Next]_vars => PoolFullInv' /\ [PS!Next]_(PS!vars)
<1> SUFFICES ASSUME PoolFullInv, [Next]_vars PROVE PoolFullInv' /\ [PS!Next]_(PS!vars)
  OBVIOUS
<1>0. TypeShape /\ TypeShape'
  BY StepTyped DEF PoolFullInv
<1>1. CASE UNCHANGED vars
  <2>1. PoolStateInv'
    BY <1>1, StepShape DEF PoolFullInv, PoolStateInv, PoolDataInv
  <2>2. PoolDataInv => DataExact' /\ HeldRecent'
    BY <1>1 DEF vars, PoolDataInv, DataExact, HeldRecent
  <2>3. UNCHANGED PS!vars /\ doubled' = doubled
    BY <1>1 DEF vars, PS!vars
  <2> QED BY <2>1, <2>2, <2>3 DEF PoolFullInv, PoolStateInv, PoolDataInv
<1>2. CASE Crash
  BY <1>0, <1>2, CrashData DEF PoolFullInv
<1>3. CASE ~Crash /\ doubled # {}
  <2>1. doubled' # {}
    BY <1>0, <1>3, StepTyped
  <2>2. PS!Next
    BY <1>3, <2>1 DEF PS!Next
  <2> QED BY <1>0, <2>1, <2>2 DEF PoolFullInv
<1>4. CASE doubled = {} /\ ~Crash /\ Next
  <2>1. PoolDataInv
    BY <1>4 DEF PoolFullInv
  <2>2. (doubled' = {} => PoolDataInv') /\ PS!Next
    BY <1>0, <1>4, <2>1, GetData, GetSystemData, NewData, WriteData, FlushData DEF Next
  <2> QED BY <1>0, <2>2 DEF PoolFullInv
<1> QED BY <1>1, <1>2, <1>3, <1>4

\* ImplementsPageStore: BufferPool is a page store in which GetPage returns what
\* was last written through a pointer, although no page is pinned and pages of
\* the file are made anew, provided that it has the two frames that
\* NewPageLog::Undo and Redo use at once (the code has BUFFER_SIZE = 5); it
\* keeps that promise until NewPage leaves two copies of a page in the pool,
\* and again after a restart.
THEOREM PoolImplementsPageStore ==
  ASSUME BUFFER_SIZE >= 2
  PROVE  Spec => ImplementsPageStore
<1>1. Init => PoolFullInv /\ PS!Init
  BY InitData
<1>2. PoolFullInv /\ [Next]_vars => PoolFullInv' /\ [PS!Next]_(PS!vars)
  BY StepData
<1> QED BY <1>1, <1>2, PTL DEF Spec, ImplementsPageStore, PS!Spec
============================================================================
