-------------------------- MODULE LogManagerProofs --------------------------
(***************************************************************************)
(* Proofs about the write-ahead log: for every bound on the records, the   *)
(* transactions and the pages, and whatever is flushed, checkpointed, lost *)
(* in a crash or analysed afterwards, the records are where they are looked*)
(* for, the rule of writing ahead holds, redo repeats what is missing from *)
(* the pages, rollback visits every record, and recovery finds the losers. *)
(***************************************************************************)
EXTENDS LogManager, WellFoundedInduction, TLAPS

----------------------------------------------------------------------------
(* The inductive invariant.                                                *)

CheckpointType == {"BEGIN_CHECKPOINT", "END_CHECKPOINT"}

Record ==
  [type : DataType \cup EndType \cup CheckpointType \cup {"BEGIN"}, lsn : Lsn,
   xid : Xid \cup {NULL_XID}, prev : LsnOrNull, page : Page \cup {NULL_PAGE},
   att : Att, dpt : Dpt]

\* Checkpoint records belong to no transaction, all others to one.
Kinds(log) ==
  \A r \in log :
    /\ r.xid \in Xid <=> r.type \notin CheckpointType
    /\ r.type \in DataType => r.page \in Page

Typed == TypeOK /\ Log \subseteq Record /\ Kinds(Log)

\* The log has one record for each lsn below next_lsn_, and is split at the
\* lsn NEXT_LSN_NAME holds, which is the one after flushed_lsn_.
LogShape ==
  /\ \/ flushed_lsn_ = NULL_LSN /\ next_lsn_file = 0
     \/ next_lsn_file >= 1 /\ flushed_lsn_ = next_lsn_file - 1
  /\ next_lsn_file <= next_lsn_
  /\ \A r \in disk_log : r.lsn < next_lsn_file
  /\ \A r \in log_buffer_ : next_lsn_file <= r.lsn /\ r.lsn < next_lsn_
  /\ \A l \in FIRST_LSN .. next_lsn_ - 1 : \E r \in Log : r.lsn = l
  /\ \A q, r \in Log : q.lsn = r.lsn => q = r

\* The master record points to a checkpoint in the log file, and so does a
\* checkpoint whose master record is not yet written, with the att_ of now.
MasterExact ==
  /\ master_record # NULL_LSN =>
       \E c \in disk_log : c.type = "END_CHECKPOINT" /\ c.lsn = master_record + 1
  /\ pending # NULL_LSN =>
       /\ next_lsn_ = pending + 2
       /\ \E c \in disk_log : c.type = "END_CHECKPOINT" /\ c.lsn = pending + 1 /\ c.att = att_

\* lsn is that of the last record of x in the log, which is no end.
LastOpen(log, x, lsn) ==
  /\ \E q \in log : q.xid = x /\ q.lsn = lsn /\ q.type \notin EndType
  /\ \A q \in log : q.xid = x => q.lsn <= lsn

\* att_ has the last record of a transaction, and every running one.
AttExact ==
  \A x \in Xid : /\ x \in running => att_[x] # NULL_LSN
                 /\ att_[x] # NULL_LSN => LastOpen(Log, x, att_[x])

\* prev_lsn is the record of the transaction before this one.
Linked ==
  \A r \in Log : r.type \in DataType \cup EndType => LastOpen(Before(r), r.xid, r.prev)

\* A checkpoint's att_ was exact when it was taken.
UpTo(lsn) == {q \in Log : q.lsn < lsn}

CheckpointAttExact ==
  \A c \in Log : c.type = "END_CHECKPOINT" =>
    \A x \in Xid : c.att[x] # NULL_LSN => LastOpen(UpTo(c.lsn), x, c.att[x])

\* The checkpoint of the master record has the transactions that were open
\* when it was taken: those with no record since, and those whose first record
\* since continues an earlier one.
MasterAttComplete ==
  \A c \in Log : c.lsn = master_record + 1 =>
    \A x \in Xid :
      /\ att_[x] # NULL_LSN /\ (\A q \in Log : q.xid = x => q.lsn < c.lsn) =>
           c.att[x] = att_[x]
      /\ \A b \in Log : b.xid = x /\ b.type \in DataType \cup EndType
                          /\ c.lsn < b.lsn /\ b.prev < c.lsn => c.att[x] = b.prev

AttInv == AttExact /\ Linked /\ CheckpointAttExact /\ MasterAttComplete

\* Page lsns are those of records, no page is ahead of the log, and a recovery
\* lsn is that of a record.
PageExact ==
  \A p \in Page :
    /\ pageLsn[p] = 0 \/ pageLsn[p] < next_lsn_
    /\ diskLsn[p] = 0 \/ diskLsn[p] < next_lsn_file
    /\ dpt_[p] # NULL_LSN => dpt_[p] < next_lsn_
    /\ \A r \in log_buffer_ : r.type \in DataType /\ r.page = p => r.lsn <= pageLsn[p]

\* RedoCovers, of every page.
MissingCovered ==
  \A r \in Log :
    r.type \in DataType /\ r.lsn \notin stored[r.page] \cup skipped[r.page] =>
      InRedoRange(r) /\ (r.type = "NEW_PAGE" \/ r.lsn > diskLsn[r.page])

\* A checkpoint's dpt_ covers the changes of then that are still missing from
\* the file images.
CheckpointDptCovers ==
  \A c \in Log : c.type = "END_CHECKPOINT" =>
    /\ \A p \in Page : c.dpt[p] # NULL_LSN => c.dpt[p] < c.lsn
    /\ \A r \in UpTo(c.lsn) : r.type \in DataType /\ r.lsn \notin stored[r.page] \cup skipped[r.page] =>
         c.dpt[r.page] # NULL_LSN /\ c.dpt[r.page] <= r.lsn

PageInv == PageExact /\ WriteAhead /\ MissingCovered /\ CheckpointDptCovers

Inv == Typed /\ LogShape /\ MasterExact /\ AttInv /\ PageInv

----------------------------------------------------------------------------
(* Least and greatest elements.                                            *)

\* A set of natural numbers that is not empty has a least element.
LEMMA LeastExists ==
  ASSUME NEW S, S \subseteq Nat, S # {}
  PROVE  /\ Least(S) \in S
         /\ \A n \in S : Least(S) <= n
<1> DEFINE R == OpToRel(<, Nat)
<1>1. IsWellFoundedOn(R, Nat)
  BY NatLessThanWellFounded
<1>2. \A x, y \in Nat : <<x, y>> \in R <=> x < y
  BY DEF OpToRel
<1> HIDE DEF R
<1>3. PICK m \in S : \A y \in S : ~(<<y, m>> \in R)
  BY <1>1, WFMin
<1>4. ASSUME NEW y \in S PROVE m <= y
  <2>1. y \in Nat /\ m \in Nat /\ ~(<<y, m>> \in R)
    BY <1>3
  <2>2. ~(y < m)
    BY <2>1, <1>2
  <2> QED BY <2>1, <2>2
<1> QED BY <1>3, <1>4 DEF Least

\* A set of natural numbers up to N that is not empty has a greatest element.
LEMMA GreatestExists ==
  ASSUME NEW N \in Nat, NEW S, S \subseteq 0 .. N, S # {}
  PROVE  /\ Greatest(S) \in S
         /\ \A n \in S : n <= Greatest(S)
<1> DEFINE T == {N - n : n \in S}
<1>1. T \subseteq Nat /\ T # {}
  <2>1. \A n \in S : N - n \in Nat
    OBVIOUS
  <2>2. PICK n \in S : TRUE
    OBVIOUS
  <2>3. N - n \in T
    OBVIOUS
  <2> QED BY <2>1, <2>3
<1>2. PICK m \in T : \A n \in T : m <= n
  BY <1>1, LeastExists
<1>3. PICK g \in S : m = N - g
  BY <1>2
<1>4. \A n \in S : n <= g
  <2> SUFFICES ASSUME NEW n \in S PROVE n <= g
    OBVIOUS
  <2>1. N - n \in T
    OBVIOUS
  <2>2. N - g <= N - n
    BY <2>1, <1>2, <1>3
  <2> QED BY <2>2
<1> QED BY <1>4, <1>3 DEF Greatest

\* The greatest element of an interval.
LEMMA GreatestOfInterval ==
  ASSUME NEW a \in Int, NEW b \in Int, a <= b
  PROVE  Greatest(a .. b) = b
<1>1. b \in a .. b /\ \A n \in a .. b : n <= b
  OBVIOUS
<1>2. \A m \in a .. b : (\A n \in a .. b : n <= m) => m = b
  BY <1>1
<1> QED BY <1>1, <1>2 DEF Greatest

----------------------------------------------------------------------------
(* How the log grows.                                                      *)

\* The log after a step: the old records, in the file as far as they were, and
\* new ones with the lsns from next_lsn_ up to n.
Grown(new, n) ==
  /\ Log' = Log \cup new
  /\ disk_log \subseteq disk_log'
  /\ next_lsn_' = n
  /\ next_lsn_ <= n
  /\ next_lsn_file <= next_lsn_file'
  /\ \A r \in new : next_lsn_ <= r.lsn /\ r.lsn < n
  /\ LogShape'
  /\ next_lsn_file' \in Lsn
  /\ flushed_lsn_' \in LsnOrNull

\* new has exactly one record for each lsn from next_lsn_ up to n.
Fits(new, n) ==
  /\ n \in next_lsn_ .. MaxLsn + 1
  /\ \A r \in new : r.lsn \in next_lsn_ .. n - 1
  /\ \A l \in next_lsn_ .. n - 1 : \E r \in new : r.lsn = l
  /\ \A q, r \in new : q.lsn = r.lsn => q = r

\* Appending a record lets the log grow by it, and nothing moves to the file.
LEMMA AppendGrows ==
  ASSUME Typed, LogShape, NEW record, Append(record), record.lsn = next_lsn_,
         next_lsn_ + 1 <= MaxLsn + 1
  PROVE  Grown({record}, next_lsn_ + 1)
<1> USE LogBounds DEF Lsn, LsnOrNull, NULL_LSN, FIRST_LSN
<1>1. next_lsn_ \in Nat /\ next_lsn_file \in Nat /\ \A r \in Log : r.lsn \in Nat
  BY DEF Typed, TypeOK
<1>2. Log' = Log \cup {record} /\ disk_log' = disk_log /\ log_buffer_' = log_buffer_ \cup {record}
  BY DEF Append, Log
<1>3. /\ next_lsn_' = next_lsn_ + 1 /\ flushed_lsn_' = flushed_lsn_
      /\ next_lsn_file' = next_lsn_file
  BY DEF Append
<1>4. \A r \in Log : r.lsn < next_lsn_
  BY <1>1 DEF LogShape, Log
<1>5. LogShape'
  <2>1. \A r \in log_buffer_' : next_lsn_file' <= r.lsn /\ r.lsn < next_lsn_'
    BY <1>1, <1>2, <1>3 DEF LogShape, Log
  <2>2. \A l \in 0 .. next_lsn_' - 1 : \E r \in Log' : r.lsn = l
    BY <1>1, <1>2, <1>3 DEF LogShape
  <2>3. \A q, r \in Log' : q.lsn = r.lsn => q = r
    BY <1>1, <1>2, <1>4 DEF LogShape
  <2>4. next_lsn_file' <= next_lsn_'
    BY <1>1, <1>3 DEF LogShape
  <2> QED BY <1>2, <1>3, <2>1, <2>2, <2>3, <2>4 DEF LogShape
<1> QED BY <1>1, <1>2, <1>3, <1>5 DEF Grown, Typed, TypeOK

\* Flush writes the buffer up to an lsn m, which is lsn + 1 where the buffer
\* reaches so far.
LEMMA FlushGrows ==
  ASSUME Typed, LogShape, NEW new, NEW n, Fits(new, n), NEW lsn \in LsnOrNull,
         Flush(log_buffer_ \cup new, lsn), next_lsn_' = n
  PROVE  /\ Grown(new, n)
         /\ lsn = NULL_LSN \/ n <= lsn + 1 => next_lsn_file' = n
         /\ lsn < n => lsn < next_lsn_file'
<1> DEFINE buffer == log_buffer_ \cup new
           written == Written(buffer, lsn)
           m == IF lsn = NULL_LSN \/ n <= lsn + 1 THEN n
                ELSE IF lsn < next_lsn_file THEN next_lsn_file ELSE lsn + 1
<1>1. /\ next_lsn_ \in Nat /\ next_lsn_file \in Nat /\ n \in Nat /\ lsn \in Nat
      /\ next_lsn_file <= next_lsn_ /\ next_lsn_ <= n /\ n <= MaxLsn + 1
      /\ MaxLsn \in Nat
  BY LogBounds DEF Typed, TypeOK, LogShape, Fits, Lsn, LsnOrNull, NULL_LSN, FIRST_LSN
<1>2. /\ \A r \in disk_log : r.lsn \in Nat /\ r.lsn < next_lsn_file
      /\ \A r \in log_buffer_ : r.lsn \in Nat /\ next_lsn_file <= r.lsn /\ r.lsn < next_lsn_
      /\ \A r \in new : r.lsn \in Nat /\ next_lsn_ <= r.lsn /\ r.lsn < n
  BY <1>1 DEF Typed, TypeOK, LogShape, Fits, Log, Lsn, FIRST_LSN
<1>3. /\ \A r \in buffer : r.lsn \in Nat /\ next_lsn_file <= r.lsn /\ r.lsn < n
      /\ \A l \in next_lsn_file .. n - 1 : \E r \in buffer : r.lsn = l
      /\ \A q, r \in disk_log \cup buffer : q.lsn = r.lsn => q = r
  <2>1. \A r \in buffer : r.lsn \in Nat /\ next_lsn_file <= r.lsn /\ r.lsn < n
    BY <1>1, <1>2
  <2>2. ASSUME NEW l \in next_lsn_file .. n - 1 PROVE \E r \in buffer : r.lsn = l
    <3>1. CASE l < next_lsn_
      <4>1. l \in 0 .. next_lsn_ - 1
        BY <1>1, <3>1
      <4>2. PICK r \in Log : r.lsn = l
        BY <4>1 DEF LogShape, FIRST_LSN
      <4> QED BY <4>2, <1>1, <1>2 DEF Log
    <3>2. CASE next_lsn_ <= l
      BY <1>1, <3>2 DEF Fits
    <3> QED BY <1>1, <3>1, <3>2
  <2>3. ASSUME NEW q \in disk_log \cup buffer, NEW r \in disk_log \cup buffer, q.lsn = r.lsn
        PROVE  q = r
    <3>1. CASE q \in Log /\ r \in Log
      BY <2>3, <3>1 DEF LogShape
    <3>2. CASE q \in new /\ r \in new
      BY <2>3, <3>2 DEF Fits
    <3>3. \A a \in Log, b \in new : a.lsn # b.lsn
      BY <1>1, <1>2 DEF Log
    <3> QED BY <2>3, <3>1, <3>2, <3>3 DEF Log
  <2> QED BY <2>1, <2>2, <2>3
<1>4. /\ m \in next_lsn_file .. n
      /\ lsn = NULL_LSN \/ n <= lsn + 1 => m = n
      /\ lsn < n => lsn < m
  BY <1>1
<1>5. written = {r \in buffer : r.lsn < m}
  <2>1. ASSUME NEW r \in buffer PROVE (lsn = NULL_LSN \/ r.lsn <= lsn) <=> r.lsn < m
    BY <1>1, <1>3
  <2> HIDE DEF m, buffer
  <2> QED BY <2>1 DEF Written
<1>6. Lsns(written) = next_lsn_file .. m - 1
  <2> HIDE DEF m, buffer
  <2>1. \A l \in next_lsn_file .. m - 1 : \E r \in written : r.lsn = l
    BY <1>1, <1>3, <1>4, <1>5
  <2>2. \A r \in written : r.lsn \in next_lsn_file .. m - 1
    BY <1>1, <1>3, <1>4, <1>5
  <2> QED BY <2>1, <2>2 DEF Lsns
<1>7. written = {} <=> m = next_lsn_file
  <2> HIDE DEF m, written, buffer
  <2>1. written = {} <=> Lsns(written) = {}
    BY DEF Lsns
  <2>2. next_lsn_file .. m - 1 = {} <=> m = next_lsn_file
    BY <1>1, <1>4
  <2> QED BY <2>1, <2>2, <1>6
<1>8. m # next_lsn_file => Greatest(Lsns(written)) = m - 1
  <2> HIDE DEF m, written, buffer
  <2> QED BY <1>1, <1>4, <1>6, GreatestOfInterval
<1> DEFINE advance == written # {} /\ (flushed_lsn_ = NULL_LSN \/ Greatest(Lsns(written)) > flushed_lsn_)
<1>9. /\ disk_log' = {r \in disk_log : r.lsn \notin Lsns(written)} \cup written
      /\ log_buffer_' = buffer \ written
      /\ flushed_lsn_' = IF advance THEN Greatest(Lsns(written)) ELSE flushed_lsn_
      /\ next_lsn_file' = IF advance /\ Greatest(Lsns(written)) + 1 > next_lsn_file
                          THEN Greatest(Lsns(written)) + 1 ELSE next_lsn_file
  BY DEF Flush
<1>10. advance <=> m # next_lsn_file
  <2> HIDE DEF m, written, buffer
  <2>1. CASE m = next_lsn_file
    BY <2>1, <1>7
  <2>2. CASE m # next_lsn_file
    <3>1. Greatest(Lsns(written)) = m - 1 /\ written # {}
      BY <2>2, <1>7, <1>8
    <3>2. flushed_lsn_ = NULL_LSN \/ m - 1 > flushed_lsn_
      BY <2>2, <1>1, <1>4 DEF LogShape
    <3> QED BY <2>2, <3>1, <3>2
  <2> QED BY <2>1, <2>2
<1>11. /\ next_lsn_file' = m
       /\ \/ flushed_lsn_' = NULL_LSN /\ m = 0
          \/ m >= 1 /\ flushed_lsn_' = m - 1
       /\ flushed_lsn_' \in LsnOrNull
  <2> HIDE DEF m, written, buffer
  <2>1. CASE m = next_lsn_file
    <3>1. ~advance
      BY <2>1, <1>10
    <3>2. flushed_lsn_' = flushed_lsn_ /\ next_lsn_file' = next_lsn_file
      BY <1>9, <3>1
    <3> QED BY <2>1, <3>2 DEF LogShape, Typed, TypeOK
  <2>2. CASE m # next_lsn_file
    <3>1. advance /\ Greatest(Lsns(written)) = m - 1
      BY <2>2, <1>8, <1>10
    <3> HIDE DEF advance
    <3>2. flushed_lsn_' = m - 1
      BY <1>9, <3>1
    <3>3. m - 1 + 1 > next_lsn_file /\ m - 1 + 1 = m /\ m >= 1 /\ m - 1 \in Lsn
      BY <2>2, <1>1, <1>4 DEF Lsn, FIRST_LSN
    <3>4. next_lsn_file' = m
      BY <1>9, <3>1, <3>3
    <3> QED BY <3>2, <3>3, <3>4 DEF LsnOrNull
  <2> QED BY <2>1, <2>2
<1> HIDE DEF advance, m
<1>12. disk_log' = disk_log \cup written
  <2> HIDE DEF written, buffer
  <2>1. \A r \in disk_log : r.lsn \notin Lsns(written)
    BY <1>1, <1>2, <1>4, <1>6
  <2> QED BY <2>1, <1>9
<1>13. /\ disk_log' \cup log_buffer_' = disk_log \cup buffer
       /\ Log' = Log \cup new
  BY <1>9, <1>12, <1>5 DEF Log
<1>14. LogShape'
  <2>1. \A r \in disk_log' : r.lsn < next_lsn_file'
    <3> HIDE DEF written, buffer
    <3>1. \A r \in disk_log : r.lsn < m
      BY <1>1, <1>2, <1>4
    <3>2. \A r \in written : r.lsn < m
      BY <1>5
    <3> QED BY <3>1, <3>2, <1>11, <1>12
  <2>2. \A r \in log_buffer_' : next_lsn_file' <= r.lsn /\ r.lsn < next_lsn_'
    <3> HIDE DEF written, buffer
    <3>1. \A r \in log_buffer_' : r \in buffer /\ ~(r.lsn < m)
      BY <1>5, <1>9
    <3> QED BY <3>1, <1>1, <1>3, <1>4, <1>11
  <2>3. ASSUME NEW l \in 0 .. next_lsn_' - 1 PROVE \E r \in Log' : r.lsn = l
    <3>1. CASE l < next_lsn_
      BY <1>1, <3>1, <1>13 DEF LogShape, FIRST_LSN
    <3>2. CASE next_lsn_ <= l
      BY <1>1, <3>2, <1>13 DEF Fits
    <3> QED BY <1>1, <3>1, <3>2
  <2>4. \A q, r \in Log' : q.lsn = r.lsn => q = r
    BY <1>3, <1>13 DEF Log
  <2>5. next_lsn_file' <= next_lsn_'
    BY <1>1, <1>4, <1>11
  <2> QED BY <1>11, <2>1, <2>2, <2>3, <2>4, <2>5 DEF LogShape, FIRST_LSN
<1>15. Grown(new, n)
  <2>1. next_lsn_file' \in Lsn /\ next_lsn_file <= next_lsn_file'
    BY <1>1, <1>4, <1>11 DEF Lsn, FIRST_LSN
  <2> QED BY <1>1, <1>2, <1>11, <1>12, <1>13, <1>14, <2>1 DEF Grown
<1> QED BY <1>4, <1>11, <1>15

\* A step that leaves the log alone.
LEMMA StillGrows ==
  ASSUME Typed, LogShape, UNCHANGED logVars
  PROVE  Grown({}, next_lsn_)
<1>1. next_lsn_ \in Int /\ next_lsn_file \in Int
  BY LogBounds DEF Typed, TypeOK, Lsn, FIRST_LSN
<1>2. LogShape'
  BY DEF LogShape, logVars, Log
<1> QED BY <1>1, <1>2 DEF Grown, logVars, Log, Typed, TypeOK

\* Where the records are.
LEMMA LogFacts ==
  ASSUME Typed, LogShape
  PROVE  /\ MaxLsn \in Nat /\ MaxXid \in Nat /\ MaxPage \in Nat /\ next_lsn_ \in Nat
         /\ next_lsn_file \in Nat /\ next_lsn_file <= next_lsn_ /\ next_lsn_ <= MaxLsn + 1
         /\ \A r \in Log : r.lsn \in Nat /\ r.lsn < next_lsn_
         /\ \A r \in Log : r \in disk_log <=> r.lsn < next_lsn_file
         /\ \A r \in Log : r \in log_buffer_ <=> next_lsn_file <= r.lsn
         /\ \A r \in disk_log : r \in Log
         /\ \A r \in log_buffer_ : r \in Log
<1>1. /\ next_lsn_ \in Nat /\ next_lsn_file \in Nat /\ next_lsn_ <= MaxLsn + 1
      /\ MaxLsn \in Nat /\ MaxXid \in Nat /\ MaxPage \in Nat
      /\ \A r \in Log : r.lsn \in Nat
  BY LogBounds DEF Typed, TypeOK, Lsn, FIRST_LSN
<1>2. /\ \A r \in disk_log : r \in Log /\ r.lsn < next_lsn_file
      /\ \A r \in log_buffer_ : r \in Log /\ next_lsn_file <= r.lsn /\ r.lsn < next_lsn_
      /\ \A r \in Log : r \in disk_log \/ r \in log_buffer_
      /\ next_lsn_file <= next_lsn_
  BY DEF LogShape, Log
<1>3. \A r \in Log : r.lsn < next_lsn_
  BY <1>1, <1>2
<1>4. \A r \in Log : (r \in disk_log <=> r.lsn < next_lsn_file)
                      /\ (r \in log_buffer_ <=> next_lsn_file <= r.lsn)
  BY <1>1, <1>2
<1> QED BY <1>1, <1>2, <1>3, <1>4

\* The variables other than the log keep their types.
RestTyped ==
  /\ att_ \in Att /\ dpt_ \in Dpt
  /\ master_record \in LsnOrNull /\ pending \in LsnOrNull
  /\ control_xid \in 1 .. MaxXid + 1 /\ next_xid_ \in 1 .. MaxXid + 1
  /\ running \subseteq Xid
  /\ pageLsn \in [Page -> Lsn] /\ diskLsn \in [Page -> Lsn]
  /\ stored \in [Page -> SUBSET Lsn] /\ skipped \in [Page -> SUBSET Lsn]

\* A log that grows by records of their kinds keeps its type.
LEMMA GrownTyped ==
  ASSUME Typed, NEW new, NEW n \in Lsn, Grown(new, n), new \subseteq Record, Kinds(new), RestTyped'
  PROVE  Typed'
<1>1. Log' \subseteq Record
  BY DEF Typed, Grown
<1>2. Kinds(Log)'
  BY DEF Typed, Grown, Kinds
<1>3. \A r \in Log' : /\ r.lsn \in Lsn /\ r.prev \in LsnOrNull
                      /\ r.xid \in Xid \cup {NULL_XID} /\ r.page \in Page \cup {NULL_PAGE}
  BY <1>1 DEF Record
<1>4. next_lsn_' \in Lsn /\ next_lsn_file' \in Lsn /\ flushed_lsn_' \in LsnOrNull
  BY DEF Grown
<1> QED BY <1>1, <1>2, <1>3, <1>4 DEF Typed, TypeOK, RestTyped

\* The checkpoint of the master record stays in the file.
LEMMA GrownMaster ==
  ASSUME MasterExact, NEW new, NEW n, Grown(new, n), master_record' = master_record,
         pending' = NULL_LSN
  PROVE  MasterExact'
<1>1. disk_log \subseteq disk_log'
  BY DEF Grown
<1>2. NULL_LSN' = NULL_LSN
  BY DEF NULL_LSN
<1> QED BY <1>1, <1>2 DEF MasterExact

\* A new record of a transaction follows its last one.
Follows(new) ==
  /\ \A r \in new : r.type \in DataType \cup EndType =>
       r.xid \in Xid /\ att_[r.xid] # NULL_LSN /\ r.prev = att_[r.xid]
  /\ \A q, r \in new : r.xid \in Xid /\ q.xid = r.xid => q = r
  /\ \A c \in new : c.type = "END_CHECKPOINT" =>
       c.att = att_ /\ \A q \in new : q.xid \notin Xid

\* att_ is updated for the new records.
AttFollows(new) ==
  \A x \in Xid :
    /\ x \in running' => att_'[x] # NULL_LSN
    /\ att_'[x] # NULL_LSN =>
         \/ att_'[x] = att_[x] /\ \A q \in new : q.xid # x
         \/ \E q \in new : /\ q.xid = x /\ q.lsn = att_'[x] /\ q.type \notin EndType
                           /\ \A r \in new : r.xid = x => r = q

\* New records that follow the old ones, with att_ updated for them, keep the
\* chains and the checkpoints' tables exact.
LEMMA GrownAtt ==
  ASSUME Typed, LogShape, AttExact, Linked, CheckpointAttExact,
         NEW new, NEW n, n \in Nat, Grown(new, n),
         \A r \in new : r.lsn \in Nat, Follows(new), AttFollows(new)
  PROVE  AttExact' /\ Linked' /\ CheckpointAttExact'
<1>1. /\ next_lsn_ \in Nat /\ \A r \in Log : r.lsn \in Nat /\ r.lsn < next_lsn_
      /\ \A r \in new : r.lsn \in Nat /\ next_lsn_ <= r.lsn
      /\ Log' = Log \cup new
  BY LogFacts DEF Grown
<1>2. NULL_LSN' = NULL_LSN /\ Xid' = Xid /\ DataType' = DataType /\ EndType' = EndType
  BY DEF NULL_LSN, Xid, DataType, EndType
<1>3. ASSUME NEW x \in Xid, att_'[x] # NULL_LSN
      PROVE  LastOpen(Log', x, att_'[x])
  <2>1. CASE att_'[x] = att_[x] /\ \A q \in new : q.xid # x
    <3>1. LastOpen(Log, x, att_[x])
      BY <1>3, <2>1 DEF AttExact
    <3> QED BY <3>1, <2>1, <1>1 DEF LastOpen
  <2>2. CASE \E q \in new : /\ q.xid = x /\ q.lsn = att_'[x] /\ q.type \notin EndType
                            /\ \A r \in new : r.xid = x => r = q
    <3>1. PICK q \in new : /\ q.xid = x /\ q.lsn = att_'[x] /\ q.type \notin EndType
                           /\ \A r \in new : r.xid = x => r = q
      BY <2>2
    <3>2. \A r \in Log' : r.xid = x => r.lsn <= q.lsn
      BY <1>1, <3>1
    <3> QED BY <1>1, <3>1, <3>2 DEF LastOpen
  <2> QED BY <1>3, <2>1, <2>2 DEF AttFollows
<1>4. AttExact'
  <2>1. \A x \in Xid : x \in running' => att_'[x] # NULL_LSN
    BY DEF AttFollows
  <2> QED BY <1>2, <1>3, <2>1 DEF AttExact, LastOpen
<1>5. Linked'
  <2> SUFFICES ASSUME NEW r \in Log', r.type \in DataType \cup EndType
               PROVE  LastOpen({q \in Log' : q.xid = r.xid /\ q.lsn < r.lsn}, r.xid, r.prev)
    BY <1>2 DEF Linked, LastOpen, Before
  <2>1. CASE r \in Log
    <3>1. {q \in Log' : q.xid = r.xid /\ q.lsn < r.lsn} = Before(r)
      BY <1>1, <2>1 DEF Before
    <3> QED BY <2>1, <3>1 DEF Linked
  <2>2. CASE r \in new
    <3>1. r.xid \in Xid /\ LastOpen(Log, r.xid, r.prev)
      BY <2>2 DEF Follows, AttExact
    <3>2. \A q \in new : q.xid = r.xid => q = r
      BY <2>2, <3>1 DEF Follows
    <3>3. {q \in Log' : q.xid = r.xid /\ q.lsn < r.lsn} = {q \in Log : q.xid = r.xid}
      BY <1>1, <2>2, <3>2
    <3> QED BY <3>1, <3>3 DEF LastOpen
  <2> QED BY <1>1, <2>1, <2>2
<1>6. CheckpointAttExact'
  <2> SUFFICES ASSUME NEW c \in Log', c.type = "END_CHECKPOINT", NEW x \in Xid,
                      c.att[x] # NULL_LSN
               PROVE  LastOpen({q \in Log' : q.lsn < c.lsn}, x, c.att[x])
    BY <1>2 DEF CheckpointAttExact, LastOpen, UpTo
  <2>1. CASE c \in Log
    <3>1. {q \in Log' : q.lsn < c.lsn} = UpTo(c.lsn)
      BY <1>1, <2>1 DEF UpTo
    <3> QED BY <2>1, <3>1 DEF CheckpointAttExact
  <2>2. CASE c \in new
    <3>1. c.att = att_ /\ \A q \in new : q.xid \notin Xid
      BY <2>2 DEF Follows
    <3>2. LastOpen(Log, x, att_[x])
      BY <3>1 DEF AttExact
    <3>3. \A q \in Log' : q.xid = x /\ q.lsn < c.lsn => q \in Log
      BY <1>1, <3>1
    <3>4. \A q \in Log : q \in Log' /\ q.lsn < c.lsn
      BY <1>1, <2>2
    <3> QED BY <3>1, <3>2, <3>3, <3>4 DEF LastOpen
  <2> QED BY <1>1, <2>1, <2>2
<1> QED BY <1>4, <1>5, <1>6

\* They also keep the last checkpoint's table complete: the first record of a
\* transaction since then continues from the record the table has.
LEMMA GrownMasterAtt ==
  ASSUME Typed, LogShape, MasterExact, AttExact, MasterAttComplete,
         NEW new, NEW n \in Lsn, Grown(new, n), \A r \in new : r.lsn \in Nat,
         Follows(new), AttFollows(new), master_record' = master_record
  PROVE  MasterAttComplete'
<1>1. /\ next_lsn_ \in Nat /\ \A r \in Log : r.lsn \in Nat /\ r.lsn < next_lsn_
      /\ \A r \in new : r.lsn \in Nat /\ next_lsn_ <= r.lsn /\ r.lsn < n
      /\ Log' = Log \cup new /\ \A r \in disk_log : r \in Log
      /\ \A q, r \in Log' : q.lsn = r.lsn => q = r
  BY LogFacts DEF Grown, LogShape
<1>2. NULL_LSN' = NULL_LSN /\ Xid' = Xid /\ DataType' = DataType /\ EndType' = EndType
  BY DEF NULL_LSN, Xid, DataType, EndType
<1> SUFFICES ASSUME NEW c \in Log', c.lsn = master_record + 1, NEW x \in Xid
             PROVE  /\ att_'[x] # NULL_LSN /\ (\A q \in Log' : q.xid = x => q.lsn < c.lsn) =>
                         c.att[x] = att_'[x]
                    /\ \A b \in Log' : b.xid = x /\ b.type \in DataType \cup EndType
                                         /\ c.lsn < b.lsn /\ b.prev < c.lsn => c.att[x] = b.prev
  BY <1>2 DEF MasterAttComplete
<1>3. c \in Log /\ c.lsn \in Nat /\ c.lsn < next_lsn_
  <2>1. n \in Nat /\ n <= MaxLsn + 1 /\ MaxLsn \in Nat /\ next_lsn_ <= n
    BY LogBounds DEF Lsn, FIRST_LSN, Grown
  <2>2. master_record # NULL_LSN
    BY <1>1, <2>1 DEF NULL_LSN
  <2>3. PICK d \in disk_log : d.lsn = master_record + 1
    BY <2>2 DEF MasterExact
  <2> QED BY <2>3, <1>1
<1>4. /\ att_[x] # NULL_LSN /\ (\A q \in Log : q.xid = x => q.lsn < c.lsn) => c.att[x] = att_[x]
      /\ \A b \in Log : b.xid = x /\ b.type \in DataType \cup EndType
                          /\ c.lsn < b.lsn /\ b.prev < c.lsn => c.att[x] = b.prev
  BY <1>3 DEF MasterAttComplete
<1>5. ASSUME att_'[x] # NULL_LSN, \A q \in Log' : q.xid = x => q.lsn < c.lsn
      PROVE  c.att[x] = att_'[x]
  <2>1. \A q \in new : q.xid # x
    BY <1>1, <1>3, <1>5
  <2>2. att_'[x] = att_[x]
    BY <1>5, <2>1 DEF AttFollows
  <2> QED BY <1>1, <1>4, <1>5, <2>2
<1>6. ASSUME NEW b \in Log', b.xid = x, b.type \in DataType \cup EndType, c.lsn < b.lsn,
             b.prev < c.lsn
      PROVE  c.att[x] = b.prev
  <2>1. CASE b \in Log
    BY <2>1, <1>4, <1>6
  <2>2. CASE b \in new
    <3>1. att_[x] # NULL_LSN /\ b.prev = att_[x]
      BY <2>2, <1>6 DEF Follows
    <3>2. att_[x] \in Nat
      BY <3>1, LogBounds DEF AttExact, LastOpen, Typed, TypeOK, Lsn, FIRST_LSN
    <3>3. \A q \in Log : q.xid = x => q.lsn <= att_[x]
      BY <3>1 DEF AttExact, LastOpen
    <3>4. \A q \in Log : q.xid = x => q.lsn < c.lsn
      BY <3>1, <3>2, <3>3, <1>1, <1>3, <1>6
    <3> QED BY <3>1, <3>4, <1>4
  <2> QED BY <1>1, <2>1, <2>2
<1> QED BY <1>5, <1>6

\* A step that changes no page: what the records before it need of dpt_ holds
\* on, and a new checkpoint takes it over.
LEMMA GrownPage ==
  ASSUME Typed, LogShape, PageInv, NEW new, NEW n \in Nat, Grown(new, n),
         \A r \in new : r.lsn \in Nat /\ r.type \notin DataType,
         \A c \in new : c.type = "END_CHECKPOINT" => c.dpt = dpt_,
         UNCHANGED <<dpt_, pageVars>>
  PROVE  PageInv'
<1>1. /\ next_lsn_ \in Nat /\ \A r \in Log : r.lsn \in Nat /\ r.lsn < next_lsn_
      /\ \A r \in new : r.lsn \in Nat /\ next_lsn_ <= r.lsn
      /\ Log' = Log \cup new /\ next_lsn_ <= n /\ next_lsn_' = n
      /\ next_lsn_file \in Nat /\ next_lsn_file' \in Nat /\ next_lsn_file <= next_lsn_file'
      /\ disk_log \subseteq disk_log'
  BY LogFacts, LogBounds DEF Grown, Lsn, FIRST_LSN
<1>2. /\ NULL_LSN' = NULL_LSN /\ Page' = Page /\ DataType' = DataType
      /\ dpt_' = dpt_ /\ pageLsn' = pageLsn /\ diskLsn' = diskLsn /\ stored' = stored
      /\ skipped' = skipped
  BY DEF NULL_LSN, Page, DataType, pageVars
<1>3. PageExact'
  <2> SUFFICES ASSUME NEW p \in Page
               PROVE  /\ pageLsn[p] = 0 \/ pageLsn[p] < n
                      /\ diskLsn[p] = 0 \/ diskLsn[p] < next_lsn_file'
                      /\ dpt_[p] # NULL_LSN => dpt_[p] < n
                      /\ \A r \in log_buffer_' : r.type \in DataType /\ r.page = p =>
                           r.lsn <= pageLsn[p]
    BY <1>1, <1>2 DEF PageExact
  <2>1. pageLsn[p] \in Nat /\ diskLsn[p] \in Nat /\ dpt_[p] \in Nat
    BY LogBounds DEF Typed, TypeOK, Lsn, FIRST_LSN, Dpt, LsnOrNull, NULL_LSN
  <2>2. ASSUME NEW r \in log_buffer_', r.type \in DataType, r.page = p
        PROVE  r.lsn <= pageLsn[p]
    <3>1. r \in Log' /\ next_lsn_file' <= r.lsn
      BY DEF Grown, LogShape, Log
    <3>2. r \in Log
      BY <2>2, <3>1, <1>1
    <3>3. r \in log_buffer_
      BY <3>1, <3>2, <1>1, LogFacts
    <3> QED BY <3>3, <2>2 DEF PageInv, PageExact
  <2>3. /\ pageLsn[p] = 0 \/ pageLsn[p] < next_lsn_
        /\ diskLsn[p] = 0 \/ diskLsn[p] < next_lsn_file
        /\ dpt_[p] # NULL_LSN => dpt_[p] < next_lsn_
    BY DEF PageInv, PageExact
  <2> QED BY <2>1, <2>2, <2>3, <1>1
<1>4. WriteAhead'
  BY <1>1, <1>2 DEF PageInv, WriteAhead, Lsns
<1>5. MissingCovered'
  <2> SUFFICES ASSUME NEW r \in Log', r.type \in DataType, r.lsn \notin stored[r.page] \cup skipped[r.page]
               PROVE  /\ dpt_[r.page] # NULL_LSN /\ dpt_[r.page] <= r.lsn
                      /\ r.type = "NEW_PAGE" \/ r.lsn > diskLsn[r.page]
    BY <1>2 DEF MissingCovered, InRedoRange
  <2>1. r \in Log
    BY <1>1
  <2> QED BY <2>1 DEF PageInv, MissingCovered, InRedoRange
<1>6. CheckpointDptCovers'
  <2> SUFFICES ASSUME NEW c \in Log', c.type = "END_CHECKPOINT"
               PROVE  /\ \A p \in Page : c.dpt[p] # NULL_LSN => c.dpt[p] < c.lsn
                      /\ \A r \in Log' : r.lsn < c.lsn /\ r.type \in DataType
                                         /\ r.lsn \notin stored[r.page] \cup skipped[r.page] =>
                           c.dpt[r.page] # NULL_LSN /\ c.dpt[r.page] <= r.lsn
    BY <1>2 DEF CheckpointDptCovers, UpTo
  <2>1. \A r \in Log' : r.type \in DataType => r \in Log
    BY <1>1
  <2>2. CASE c \in Log
    BY <2>1, <2>2 DEF PageInv, CheckpointDptCovers, UpTo
  <2>3. CASE c \in new
    <3>1. c.dpt = dpt_ /\ c.lsn \in Nat /\ next_lsn_ <= c.lsn
      BY <2>3, <1>1
    <3>2. \A p \in Page : dpt_[p] # NULL_LSN => dpt_[p] < c.lsn
      <4>1. \A p \in Page : dpt_[p] \in Nat
        BY LogBounds DEF Typed, TypeOK, Lsn, FIRST_LSN, Dpt, LsnOrNull, NULL_LSN
      <4> QED BY <4>1, <3>1, <1>1 DEF PageInv, PageExact
    <3> QED BY <3>1, <3>2, <2>1 DEF PageInv, MissingCovered, InRedoRange
  <2> QED BY <1>1, <2>2, <2>3
<1> QED BY <1>3, <1>4, <1>5, <1>6 DEF PageInv

----------------------------------------------------------------------------
(* The steps that log something.                                           *)

\* A record of a transaction, as LogRecord makes it.
LEMMA NewRecord ==
  ASSUME NEW type \in DataType \cup EndType \cup {"BEGIN"}, NEW lsn \in Lsn, NEW xid \in Xid,
         NEW prev \in LsnOrNull, NEW page \in Page \cup {NULL_PAGE},
         type \in DataType => page \in Page
  PROVE  /\ LogRecord(type, lsn, xid, prev, page) \in Record
         /\ Kinds({LogRecord(type, lsn, xid, prev, page)})
         /\ LogRecord(type, lsn, xid, prev, page).type = type
         /\ LogRecord(type, lsn, xid, prev, page).lsn = lsn
         /\ LogRecord(type, lsn, xid, prev, page).xid = xid
         /\ LogRecord(type, lsn, xid, prev, page).prev = prev
         /\ LogRecord(type, lsn, xid, prev, page).page = page
<1>1. EmptyAtt \in Att /\ EmptyDpt \in Dpt
  BY DEF EmptyAtt, EmptyDpt, Att, Dpt, LsnOrNull
<1>2. type \notin CheckpointType
  BY DEF DataType, EndType, CheckpointType
<1> QED BY <1>1, <1>2 DEF LogRecord, Record, Kinds

\* The parts of the invariant, one by one.
LEMMA InvParts ==
  Inv <=> /\ Typed /\ LogShape /\ MasterExact
          /\ AttExact /\ Linked /\ CheckpointAttExact /\ MasterAttComplete
          /\ PageInv
BY DEF Inv, AttInv

\* Begin, with its BEGIN record or, when att_ has the identifier, without.
LEMMA BeginInv ==
  ASSUME Inv, Begin
  PROVE  Inv' /\ disk_log \subseteq disk_log'
<1> DEFINE x == next_xid_
           rec == LogRecord("BEGIN", next_lsn_, x, NULL_LSN, NULL_PAGE)
<1>1. /\ Typed /\ LogShape /\ MasterExact /\ PageInv
      /\ AttExact /\ Linked /\ CheckpointAttExact /\ MasterAttComplete
  BY InvParts
<1>2. /\ next_lsn_ \in Nat /\ next_lsn_ + 1 <= MaxLsn + 1 /\ MaxLsn \in Nat /\ MaxXid \in Nat
      /\ next_lsn_ \in Lsn /\ next_lsn_ + 1 \in Lsn /\ next_lsn_ # NULL_LSN
      /\ NULL_LSN \in LsnOrNull
      /\ x \in Xid /\ x + 1 \in 1 .. MaxXid + 1 /\ att_ \in Att
      /\ pending = NULL_LSN /\ running \subseteq Xid
  BY <1>1, LogFacts DEF Begin, Room, Lsn, LsnOrNull, FIRST_LSN, NULL_LSN, Xid, Typed, TypeOK
<1>3. /\ next_xid_' = x + 1 /\ running' = running \cup {x}
      /\ UNCHANGED <<dpt_, master_record, control_xid, pending, pageVars>>
  BY DEF Begin
<1>4. CASE att_[x] = NULL_LSN
  <2>1. /\ Append(rec) /\ att_' = [att_ EXCEPT ![x] = next_lsn_]
    BY <1>4 DEF Begin
  <2>2. /\ rec \in Record /\ Kinds({rec}) /\ rec.type = "BEGIN" /\ rec.lsn = next_lsn_
        /\ rec.xid = x
    <3>1. "BEGIN" \notin DataType
      BY DEF DataType
    <3> QED BY <1>2, <3>1, NewRecord
  <2> HIDE DEF rec
  <2>3. Grown({rec}, next_lsn_ + 1)
    BY <1>1, <1>2, <2>1, <2>2, AppendGrows
  <2>4. /\ att_' \in Att /\ att_'[x] = next_lsn_
        /\ \A y \in Xid : y # x => att_'[y] = att_[y]
    BY <1>2, <2>1 DEF Att, LsnOrNull
  <2>5. RestTyped'
    BY <1>1, <1>2, <1>3, <2>4 DEF RestTyped, Typed, TypeOK, pageVars, Att, Dpt
  <2>6. Follows({rec})
    BY <2>2 DEF Follows, DataType, EndType
  <2>7. AttFollows({rec})
    <3>1. rec.type \notin EndType
      BY <2>2 DEF EndType
    <3>2. \A y \in running : att_[y] # NULL_LSN
      BY <1>1, <1>2 DEF AttExact
    <3> QED BY <1>2, <1>3, <2>2, <2>4, <3>1, <3>2 DEF AttFollows
  <2>8. Typed'
    BY <1>1, <1>2, <2>2, <2>3, <2>5, GrownTyped
  <2>9. MasterExact'
    BY <1>1, <1>2, <1>3, <2>3, GrownMaster
  <2>10. AttExact' /\ Linked' /\ CheckpointAttExact'
    BY <1>1, <1>2, <2>2, <2>3, <2>6, <2>7, GrownAtt
  <2>11. MasterAttComplete'
    BY <1>1, <1>2, <1>3, <2>2, <2>3, <2>6, <2>7, GrownMasterAtt
  <2>12. PageInv'
    <3>1. rec.type \notin DataType
      BY <2>2 DEF DataType
    <3> QED BY <1>1, <1>2, <1>3, <2>2, <2>3, <3>1, GrownPage
  <2> QED BY <2>3, <2>8, <2>9, <2>10, <2>11, <2>12 DEF Grown, Inv, AttInv
<1>5. CASE att_[x] # NULL_LSN
  <2>1. UNCHANGED logVars /\ att_' = att_
    BY <1>5 DEF Begin
  <2>2. Grown({}, next_lsn_)
    BY <1>1, <2>1, StillGrows
  <2>3. RestTyped'
    BY <1>1, <1>2, <1>3, <2>1 DEF RestTyped, Typed, TypeOK, pageVars, Att, Dpt
  <2>4. Follows({}) /\ AttFollows({}) /\ Kinds({})
    BY <1>1, <1>3, <1>5, <2>1 DEF Follows, AttFollows, AttExact, Kinds
  <2>5. Typed'
    BY <1>1, <1>2, <2>2, <2>3, <2>4, GrownTyped
  <2>6. MasterExact'
    BY <1>1, <1>2, <1>3, <2>2, GrownMaster
  <2>7. AttExact' /\ Linked' /\ CheckpointAttExact'
    BY <1>1, <1>2, <2>2, <2>4, GrownAtt
  <2>8. MasterAttComplete'
    BY <1>1, <1>2, <1>3, <2>2, <2>4, GrownMasterAtt
  <2>9. PageInv'
    BY <1>1, <1>2, <1>3, <2>2, GrownPage
  <2> QED BY <2>2, <2>5, <2>6, <2>7, <2>8, <2>9 DEF Grown, Inv, AttInv
<1> QED BY <1>4, <1>5

\* A change of a page is logged, and the page and perhaps others become dirty.
LEMMA DataInv ==
  ASSUME Inv, NEW type \in DataType, NEW xid \in Xid, NEW page \in Page,
         NEW pages, page \in pages,
         Room(1), xid \in running, att_[xid] # NULL_LSN,
         Append(LogRecord(type, next_lsn_, xid, att_[xid], page)),
         att_' = [att_ EXCEPT ![xid] = next_lsn_],
         dpt_' = Dirtied(pages),
         pageLsn' = [pageLsn EXCEPT ![page] = next_lsn_],
         UNCHANGED <<master_record, control_xid, pending, xactVars, fileVars>>
  PROVE  Inv' /\ disk_log \subseteq disk_log'
<1> DEFINE rec == LogRecord(type, next_lsn_, xid, att_[xid], page)
<1>1. /\ Typed /\ LogShape /\ MasterExact /\ PageInv
      /\ AttExact /\ Linked /\ CheckpointAttExact /\ MasterAttComplete
  BY InvParts
<1>2. /\ next_lsn_ \in Nat /\ next_lsn_ + 1 <= MaxLsn + 1 /\ MaxLsn \in Nat
      /\ next_lsn_ \in Lsn /\ next_lsn_ + 1 \in Lsn /\ next_lsn_ # NULL_LSN
      /\ att_ \in Att /\ pending = NULL_LSN
  BY <1>1, LogFacts DEF Room, Lsn, LsnOrNull, FIRST_LSN, NULL_LSN, Typed, TypeOK
<1>3. next_lsn_ >= 1
  BY <1>1, <1>2, LogFacts DEF AttExact, LastOpen
<1>4. /\ rec \in Record /\ Kinds({rec}) /\ rec.type = type /\ rec.lsn = next_lsn_
      /\ rec.xid = xid /\ rec.prev = att_[xid] /\ rec.page = page
  <2>1. att_[xid] \in LsnOrNull
    BY <1>2 DEF Att
  <2>2. type \in DataType \cup EndType \cup {"BEGIN"} /\ page \in Page \cup {NULL_PAGE}
    OBVIOUS
  <2>3. next_lsn_ \in Lsn
    BY <1>2
  <2>4. rec \in Record /\ Kinds({rec})
    BY <2>1, <2>2, <2>3, NewRecord
  <2>5. /\ rec.type = type /\ rec.lsn = next_lsn_
        /\ rec.xid = xid /\ rec.prev = att_[xid] /\ rec.page = page
    BY DEF LogRecord
  <2> QED BY <2>4, <2>5
<1>5. Append(rec)
  OBVIOUS
<1> HIDE DEF rec
<1>6. Grown({rec}, next_lsn_ + 1)
  BY <1>1, <1>2, <1>4, <1>5, AppendGrows
<1>7. /\ att_' \in Att /\ att_'[xid] = next_lsn_
      /\ \A y \in Xid : y # xid => att_'[y] = att_[y]
  BY <1>2 DEF Att, LsnOrNull
<1>8. \A p \in Page : dpt_'[p] = IF p \in pages /\ dpt_[p] = NULL_LSN THEN next_lsn_ ELSE dpt_[p]
  BY DEF Dirtied
<1>9. RestTyped'
  <2>1. dpt_' \in Dpt
    BY <1>1, <1>2 DEF Dirtied, Typed, TypeOK, Dpt, LsnOrNull
  <2>2. pageLsn' \in [Page -> Lsn]
    BY <1>1, <1>2 DEF Typed, TypeOK
  <2> QED BY <1>1, <1>2, <1>7, <2>1, <2>2 DEF RestTyped, Typed, TypeOK, fileVars, xactVars, Att, Dpt
<1>10. Follows({rec})
  <2>1. type # "END_CHECKPOINT"
    BY DEF DataType
  <2> QED BY <1>4, <2>1 DEF Follows
<1>11. AttFollows({rec})
  <2>1. rec.type \notin EndType
    BY <1>4 DEF EndType, DataType
  <2>2. running' = running
    BY DEF xactVars
  <2>3. \A y \in running : y \in Xid /\ att_[y] # NULL_LSN
    BY <1>1 DEF AttExact, Typed, TypeOK
  <2> QED BY <1>2, <1>4, <1>7, <2>1, <2>2, <2>3 DEF AttFollows
<1>12. Typed'
  BY <1>1, <1>2, <1>4, <1>6, <1>9, GrownTyped
<1>13. MasterExact'
  BY <1>1, <1>2, <1>6, GrownMaster
<1>14. AttExact' /\ Linked' /\ CheckpointAttExact'
  BY <1>1, <1>2, <1>4, <1>6, <1>10, <1>11, GrownAtt
<1>15. MasterAttComplete'
  BY <1>1, <1>2, <1>4, <1>6, <1>10, <1>11, GrownMasterAtt
<1>16. /\ NULL_LSN' = NULL_LSN /\ Page' = Page /\ DataType' = DataType
       /\ diskLsn' = diskLsn /\ stored' = stored /\ skipped' = skipped
       /\ next_lsn_' = next_lsn_ + 1 /\ next_lsn_file' = next_lsn_file
       /\ disk_log' = disk_log /\ log_buffer_' = log_buffer_ \cup {rec}
       /\ Log' = Log \cup {rec}
       /\ \A r \in Log : r.lsn \in Nat /\ r.lsn < next_lsn_
       /\ \A p \in Page : pageLsn[p] \in Nat /\ diskLsn[p] \in Nat /\ dpt_[p] \in Nat
       /\ next_lsn_file \in Nat /\ next_lsn_file <= next_lsn_
       /\ \A p \in Page : pageLsn'[p] = IF p = page THEN next_lsn_ ELSE pageLsn[p]
  <2>1. \A p \in Page : pageLsn[p] \in Nat /\ diskLsn[p] \in Nat /\ dpt_[p] \in Nat
    BY <1>1, <1>2, LogBounds DEF Typed, TypeOK, Lsn, FIRST_LSN, Dpt, LsnOrNull, NULL_LSN
  <2>2. \A p \in Page : pageLsn'[p] = IF p = page THEN next_lsn_ ELSE pageLsn[p]
    BY <1>1 DEF Typed, TypeOK
  <2> QED BY <1>1, <1>5, <2>1, <2>2, LogFacts
          DEF Append, Log, NULL_LSN, Page, DataType, fileVars
<1>17. PageExact'
  <2> SUFFICES ASSUME NEW p \in Page
               PROVE  /\ pageLsn'[p] = 0 \/ pageLsn'[p] < next_lsn_ + 1
                      /\ diskLsn[p] = 0 \/ diskLsn[p] < next_lsn_file
                      /\ dpt_'[p] # NULL_LSN => dpt_'[p] < next_lsn_ + 1
                      /\ \A r \in log_buffer_' : r.type \in DataType /\ r.page = p =>
                           r.lsn <= pageLsn'[p]
    BY <1>16 DEF PageExact
  <2>1. /\ pageLsn[p] = 0 \/ pageLsn[p] < next_lsn_
        /\ diskLsn[p] = 0 \/ diskLsn[p] < next_lsn_file
        /\ dpt_[p] # NULL_LSN => dpt_[p] < next_lsn_
        /\ \A r \in log_buffer_ : r.type \in DataType /\ r.page = p => r.lsn <= pageLsn[p]
    BY <1>1 DEF PageInv, PageExact
  <2>2. \A r \in log_buffer_' : r.type \in DataType /\ r.page = p => r.lsn <= pageLsn'[p]
    <3>1. \A r \in log_buffer_ : r.lsn <= next_lsn_
      BY <1>16, <1>2 DEF Log
    <3> QED BY <2>1, <3>1, <1>2, <1>4, <1>16
  <2>3. pageLsn'[p] = 0 \/ pageLsn'[p] < next_lsn_ + 1
    BY <2>1, <1>2, <1>16
  <2>4. dpt_'[p] # NULL_LSN => dpt_'[p] < next_lsn_ + 1
    BY <2>1, <1>2, <1>8, <1>16
  <2> QED BY <2>1, <2>2, <2>3, <2>4
<1>18. WriteAhead'
  BY <1>1, <1>16 DEF PageInv, WriteAhead, Lsns
<1>19. MissingCovered'
  <2> SUFFICES ASSUME NEW r \in Log', r.type \in DataType, r.lsn \notin stored[r.page] \cup skipped[r.page]
               PROVE  /\ dpt_'[r.page] # NULL_LSN /\ dpt_'[r.page] <= r.lsn
                      /\ r.type = "NEW_PAGE" \/ r.lsn > diskLsn[r.page]
    BY <1>16 DEF MissingCovered, InRedoRange
  <2>1. CASE r \in Log
    <3>1. r.page \in Page
      BY <1>1, <2>1 DEF Typed, Kinds
    <3>2. /\ dpt_[r.page] # NULL_LSN /\ dpt_[r.page] <= r.lsn
          /\ r.type = "NEW_PAGE" \/ r.lsn > diskLsn[r.page]
      BY <1>1, <2>1 DEF PageInv, MissingCovered, InRedoRange
    <3> QED BY <3>1, <3>2, <1>8
  <2>2. CASE r = rec
    <3>1. /\ dpt_[page] # NULL_LSN => dpt_[page] < next_lsn_
          /\ diskLsn[page] = 0 \/ diskLsn[page] < next_lsn_file
      BY <1>1 DEF PageInv, PageExact
    <3>2. r.lsn = next_lsn_ /\ r.page = page
      BY <2>2, <1>4
    <3> QED BY <3>1, <3>2, <1>2, <1>3, <1>8, <1>16
  <2> QED BY <2>1, <2>2, <1>16
<1>20. CheckpointDptCovers'
  <2> SUFFICES ASSUME NEW c \in Log', c.type = "END_CHECKPOINT"
               PROVE  /\ \A p \in Page : c.dpt[p] # NULL_LSN => c.dpt[p] < c.lsn
                      /\ \A r \in Log' : r.lsn < c.lsn /\ r.type \in DataType
                                         /\ r.lsn \notin stored[r.page] \cup skipped[r.page] =>
                           c.dpt[r.page] # NULL_LSN /\ c.dpt[r.page] <= r.lsn
    BY <1>16 DEF CheckpointDptCovers, UpTo
  <2>1. c \in Log
    BY <1>4, <1>16 DEF DataType
  <2>2. \A r \in Log' : r.lsn < c.lsn => r \in Log
    BY <2>1, <1>2, <1>4, <1>16
  <2> QED BY <1>1, <2>1, <2>2 DEF PageInv, CheckpointDptCovers, UpTo
<1> QED BY <1>6, <1>12, <1>13, <1>14, <1>15, <1>17, <1>18, <1>19, <1>20
        DEF Grown, Inv, AttInv, PageInv

\* The end of a transaction, which leaves nothing of the log unwritten.
LEMMA EndInv ==
  ASSUME Inv, NEW type \in EndType, NEW xid \in Xid, End(type, xid)
  PROVE  /\ Inv' /\ disk_log \subseteq disk_log'
         /\ next_lsn_file' = next_lsn_'
<1> DEFINE rec == LogRecord(type, next_lsn_, xid, att_[xid], NULL_PAGE)
<1>1. /\ Typed /\ LogShape /\ MasterExact /\ PageInv
      /\ AttExact /\ Linked /\ CheckpointAttExact /\ MasterAttComplete
  BY InvParts
<1>2. /\ next_lsn_ \in Nat /\ next_lsn_ + 1 <= MaxLsn + 1 /\ MaxLsn \in Nat
      /\ next_lsn_ \in Lsn /\ next_lsn_ + 1 \in Lsn /\ next_lsn_ \in LsnOrNull
      /\ NULL_LSN \in LsnOrNull /\ att_ \in Att /\ pending = NULL_LSN /\ att_[xid] # NULL_LSN
  BY <1>1, LogFacts DEF End, Room, Lsn, LsnOrNull, FIRST_LSN, NULL_LSN, Typed, TypeOK
<1>3. /\ rec \in Record /\ Kinds({rec}) /\ rec.type = type /\ rec.lsn = next_lsn_
      /\ rec.xid = xid /\ rec.prev = att_[xid]
  <2>1. att_[xid] \in LsnOrNull
    BY <1>2 DEF Att
  <2>2. type \in DataType \cup EndType \cup {"BEGIN"} /\ type \notin DataType
    BY DEF DataType, EndType
  <2>3. next_lsn_ \in Lsn /\ NULL_PAGE \in Page \cup {NULL_PAGE}
    BY <1>2
  <2>4. rec \in Record /\ Kinds({rec})
    BY <2>1, <2>2, <2>3, NewRecord
  <2>5. rec.type = type /\ rec.lsn = next_lsn_ /\ rec.xid = xid /\ rec.prev = att_[xid]
    BY DEF LogRecord
  <2> QED BY <2>4, <2>5
<1>4. /\ next_lsn_' = next_lsn_ + 1
      /\ Flush(log_buffer_ \cup {rec}, next_lsn_)
      /\ att_' = [att_ EXCEPT ![xid] = NULL_LSN]
      /\ running' = running \ {xid}
      /\ UNCHANGED <<dpt_, master_record, control_xid, pending, next_xid_, pageVars>>
  BY DEF End
<1> HIDE DEF rec
<1>5. Fits({rec}, next_lsn_ + 1)
  BY <1>2, <1>3 DEF Fits
<1>6. Grown({rec}, next_lsn_ + 1) /\ next_lsn_file' = next_lsn_ + 1
  BY <1>1, <1>2, <1>4, <1>5, FlushGrows
<1>7. /\ att_' \in Att /\ att_'[xid] = NULL_LSN
      /\ \A y \in Xid : y # xid => att_'[y] = att_[y]
  BY <1>2, <1>4 DEF Att
<1>8. RestTyped'
  BY <1>1, <1>2, <1>4, <1>7 DEF RestTyped, Typed, TypeOK, pageVars, Att, Dpt
<1>9. Follows({rec})
  <2>1. type # "END_CHECKPOINT"
    BY DEF EndType
  <2> QED BY <1>2, <1>3, <2>1 DEF Follows
<1>10. AttFollows({rec})
  <2>1. \A y \in running : y \in Xid /\ att_[y] # NULL_LSN
    BY <1>1 DEF AttExact, Typed, TypeOK
  <2> QED BY <1>3, <1>4, <1>7, <2>1 DEF AttFollows
<1>11. Typed'
  BY <1>1, <1>2, <1>3, <1>6, <1>8, GrownTyped
<1>12. MasterExact'
  BY <1>1, <1>2, <1>4, <1>6, GrownMaster
<1>13. AttExact' /\ Linked' /\ CheckpointAttExact'
  BY <1>1, <1>2, <1>3, <1>6, <1>9, <1>10, GrownAtt
<1>14. MasterAttComplete'
  BY <1>1, <1>2, <1>3, <1>4, <1>6, <1>9, <1>10, GrownMasterAtt
<1>15. PageInv'
  <2>1. rec.type \notin DataType /\ rec.type # "END_CHECKPOINT"
    BY <1>3 DEF DataType, EndType
  <2> QED BY <1>1, <1>2, <1>3, <1>4, <1>6, <2>1, GrownPage
<1> QED BY <1>4, <1>6, <1>11, <1>12, <1>13, <1>14, <1>15 DEF Grown, Inv, AttInv

\* A page is written after the log up to its page lsn.
LEMMA FlushPageInv ==
  ASSUME Inv, NEW page \in Page, FlushPage(page)
  PROVE  Inv' /\ disk_log \subseteq disk_log'
<1>1. /\ Typed /\ LogShape /\ MasterExact /\ PageInv
      /\ AttExact /\ Linked /\ CheckpointAttExact /\ MasterAttComplete
  BY InvParts
<1>2. /\ next_lsn_ \in Nat /\ next_lsn_ \in Lsn /\ next_lsn_ <= MaxLsn + 1 /\ MaxLsn \in Nat
      /\ pageLsn[page] \in Lsn /\ pageLsn[page] \in LsnOrNull /\ pageLsn[page] \in Nat
      /\ next_lsn_file \in Nat
  BY <1>1, LogFacts DEF Lsn, LsnOrNull, FIRST_LSN, Typed, TypeOK
<1>3. /\ Flush(log_buffer_, pageLsn[page]) /\ pending = NULL_LSN
      /\ dpt_' = [dpt_ EXCEPT ![page] = NULL_LSN]
      /\ stored' = [stored EXCEPT ![page] = ChangesOf(page) \ skipped[page]]
      /\ diskLsn' = [diskLsn EXCEPT ![page] = pageLsn[page]]
      /\ UNCHANGED <<next_lsn_, att_, master_record, control_xid, pending, xactVars, pageLsn,
                     skipped>>
  BY DEF FlushPage
<1>4. Fits({}, next_lsn_) /\ log_buffer_ \cup {} = log_buffer_
  BY <1>2 DEF Fits
<1>5. Grown({}, next_lsn_) /\ (pageLsn[page] < next_lsn_ => pageLsn[page] < next_lsn_file')
  <2>1. Flush(log_buffer_ \cup {}, pageLsn[page]) /\ next_lsn_' = next_lsn_
    BY <1>3, <1>4
  <2> QED BY <1>1, <1>2, <1>4, <2>1, FlushGrows
<1>6. /\ \A p \in Page : dpt_'[p] = IF p = page THEN NULL_LSN ELSE dpt_[p]
      /\ \A p \in Page : stored'[p] = IF p = page THEN ChangesOf(page) \ skipped[page] ELSE stored[p]
      /\ skipped' = skipped
      /\ \A p \in Page : diskLsn'[p] = IF p = page THEN pageLsn[page] ELSE diskLsn[p]
  BY <1>1, <1>3 DEF Typed, TypeOK, Dpt
<1>7. RestTyped'
  <2>1. dpt_' \in Dpt
    BY <1>1, <1>3 DEF Typed, TypeOK, Dpt, LsnOrNull
  <2>2. ChangesOf(page) \ skipped[page] \in SUBSET Lsn
    BY <1>1 DEF ChangesOf, Lsns, Typed, TypeOK
  <2>3. stored' \in [Page -> SUBSET Lsn]
    BY <1>1, <1>3, <2>2 DEF Typed, TypeOK
  <2>4. diskLsn' \in [Page -> Lsn]
    BY <1>1, <1>2, <1>3 DEF Typed, TypeOK
  <2> QED BY <1>1, <1>3, <2>1, <2>3, <2>4 DEF RestTyped, Typed, TypeOK, xactVars, Att
<1>8. Follows({}) /\ AttFollows({}) /\ Kinds({})
  BY <1>1, <1>3 DEF Follows, AttFollows, AttExact, Kinds, xactVars
<1>9. Typed'
  BY <1>1, <1>2, <1>5, <1>7, <1>8, GrownTyped
<1>10. MasterExact'
  BY <1>1, <1>3, <1>5, GrownMaster
<1>11. AttExact' /\ Linked' /\ CheckpointAttExact'
  BY <1>1, <1>2, <1>5, <1>8, GrownAtt
<1>12. MasterAttComplete'
  BY <1>1, <1>2, <1>3, <1>5, <1>8, GrownMasterAtt
<1>13. /\ NULL_LSN' = NULL_LSN /\ Page' = Page /\ DataType' = DataType
       /\ pageLsn' = pageLsn /\ next_lsn_' = next_lsn_ /\ Log' = Log
       /\ next_lsn_file' \in Nat /\ next_lsn_file <= next_lsn_file'
       /\ \A r \in Log : r.lsn \in Nat
       /\ disk_log \subseteq disk_log'
       /\ \A r \in Log' : r \in log_buffer_' \/ r \in disk_log'
       /\ \A r \in log_buffer_' : r \in Log' /\ next_lsn_file' <= r.lsn
       /\ \A p \in Page : pageLsn[p] \in Nat /\ diskLsn[p] \in Nat /\ dpt_[p] \in Nat
  <2>1. \A p \in Page : pageLsn[p] \in Nat /\ diskLsn[p] \in Nat /\ dpt_[p] \in Nat
    BY <1>1, <1>2, LogBounds DEF Typed, TypeOK, Lsn, FIRST_LSN, Dpt, LsnOrNull, NULL_LSN
  <2>2. next_lsn_file' \in Nat
    BY <1>5, LogBounds DEF Grown, Lsn, FIRST_LSN
  <2>3. /\ \A r \in Log' : r \in log_buffer_' \/ r \in disk_log'
        /\ \A r \in log_buffer_' : r \in Log' /\ next_lsn_file' <= r.lsn
    BY <1>5 DEF Grown, LogShape, Log
  <2> QED BY <1>1, <1>3, <1>5, <2>1, <2>2, <2>3, LogFacts DEF Grown, NULL_LSN, Page, DataType
<1>14. \A r \in log_buffer_' : r \in log_buffer_
  BY <1>1, <1>2, <1>13, LogFacts
<1>15. /\ \A p \in Page : pageLsn[p] = 0 \/ pageLsn[p] < next_lsn_
       /\ \A p \in Page : diskLsn[p] = 0 \/ diskLsn[p] < next_lsn_file
       /\ \A p \in Page : dpt_[p] # NULL_LSN => dpt_[p] < next_lsn_
       /\ \A r \in log_buffer_ : r.type \in DataType /\ r.page \in Page =>
            r.lsn <= pageLsn[r.page]
  BY <1>1 DEF PageInv, PageExact
<1>16. PageExact'
  <2> SUFFICES ASSUME NEW p \in Page
               PROVE  /\ pageLsn[p] = 0 \/ pageLsn[p] < next_lsn_
                      /\ diskLsn'[p] = 0 \/ diskLsn'[p] < next_lsn_file'
                      /\ dpt_'[p] # NULL_LSN => dpt_'[p] < next_lsn_
                      /\ \A r \in log_buffer_' : r.type \in DataType /\ r.page = p =>
                           r.lsn <= pageLsn[p]
    BY <1>13 DEF PageExact
  <2>1. diskLsn'[p] = 0 \/ diskLsn'[p] < next_lsn_file'
    BY <1>2, <1>5, <1>6, <1>13, <1>15
  <2> QED BY <1>6, <1>14, <1>15, <2>1
<1>17. WriteAhead'
  <2> SUFFICES ASSUME NEW p \in Page, NEW l \in stored'[p]
               PROVE  \E r \in disk_log' : r.lsn = l
    BY <1>13 DEF WriteAhead, Lsns
  <2>1. CASE p # page
    <3>1. \E r \in disk_log : r.lsn = l
      BY <1>1, <1>6, <2>1 DEF PageInv, WriteAhead, Lsns
    <3> QED BY <3>1, <1>13
  <2>2. CASE p = page
    <3>0. l \in ChangesOf(page)
      BY <1>6, <2>2
    <3>1. PICK r \in Log : r.type \in DataType /\ r.page = page /\ r.lsn = l
      BY <3>0 DEF ChangesOf, Lsns
    <3>2. CASE r \in disk_log
      BY <3>1, <3>2, <1>13
    <3>3. CASE r \in log_buffer_
      <4>1. r.lsn <= pageLsn[page] /\ r.lsn < next_lsn_
        BY <3>1, <3>3, <1>1, <1>15, LogFacts
      <4>2. r.lsn < next_lsn_file'
        BY <3>1, <4>1, <1>2, <1>5, <1>13, <1>15
      <4>3. r \in disk_log'
        BY <3>1, <4>2, <1>13
      <4> QED BY <3>1, <4>3
    <3> QED BY <3>1, <3>2, <3>3 DEF Log
  <2> QED BY <2>1, <2>2
<1>18. \A r \in Log : r.type \in DataType =>
         /\ r.page \in Page
         /\ r.lsn \notin stored'[r.page] \cup skipped'[r.page] =>
              r.page # page /\ r.lsn \notin stored[r.page] \cup skipped[r.page]
  BY <1>1, <1>6 DEF ChangesOf, Lsns, Typed, Kinds
<1>19. MissingCovered'
  <2> SUFFICES ASSUME NEW r \in Log, r.type \in DataType, r.lsn \notin stored'[r.page] \cup skipped'[r.page]
               PROVE  /\ dpt_'[r.page] # NULL_LSN /\ dpt_'[r.page] <= r.lsn
                      /\ r.type = "NEW_PAGE" \/ r.lsn > diskLsn'[r.page]
    BY <1>13 DEF MissingCovered, InRedoRange
  <2>1. r.page # page /\ r.page \in Page /\ r.lsn \notin stored[r.page] \cup skipped[r.page]
    BY <1>18
  <2> QED BY <1>1, <1>6, <2>1 DEF PageInv, MissingCovered, InRedoRange
<1>20. CheckpointDptCovers'
  <2> SUFFICES ASSUME NEW c \in Log, c.type = "END_CHECKPOINT"
               PROVE  /\ \A p \in Page : c.dpt[p] # NULL_LSN => c.dpt[p] < c.lsn
                      /\ \A r \in Log : r.lsn < c.lsn /\ r.type \in DataType
                                        /\ r.lsn \notin stored'[r.page] \cup skipped'[r.page] =>
                           c.dpt[r.page] # NULL_LSN /\ c.dpt[r.page] <= r.lsn
    BY <1>13 DEF CheckpointDptCovers, UpTo
  <2> QED BY <1>1, <1>18 DEF PageInv, CheckpointDptCovers, UpTo
<1> QED BY <1>5, <1>9, <1>10, <1>11, <1>12, <1>16, <1>17, <1>19, <1>20
        DEF Grown, Inv, AttInv, PageInv

\* The two records of a checkpoint.
LEMMA NewCheckpoint ==
  ASSUME NEW lsn \in Nat, lsn + 2 <= MaxLsn + 1, lsn = next_lsn_, NEW att \in Att, NEW dpt \in Dpt
  PROVE  LET new == CheckpointLogs(lsn, att, dpt) IN
         /\ new \subseteq Record /\ Kinds(new) /\ Fits(new, lsn + 2)
         /\ \A r \in new : /\ r.lsn \in Nat /\ r.type \notin DataType \cup EndType
                           /\ r.xid \notin Xid
                           /\ r.type = "END_CHECKPOINT" =>
                                r.lsn = lsn + 1 /\ r.att = att /\ r.dpt = dpt
         /\ \E r \in new : r.type = "END_CHECKPOINT" /\ r.lsn = lsn + 1
<1> DEFINE b == LogRecord("BEGIN_CHECKPOINT", lsn, NULL_XID, NULL_LSN, NULL_PAGE)
           e == EndCheckpointLog(lsn + 1, att, dpt)
<1>1. CheckpointLogs(lsn, att, dpt) = {b, e}
  BY DEF CheckpointLogs
<1>2. /\ EmptyAtt \in Att /\ EmptyDpt \in Dpt /\ NULL_LSN \in LsnOrNull
      /\ lsn \in Lsn /\ lsn + 1 \in Lsn /\ MaxLsn \in Nat
  BY LogBounds DEF EmptyAtt, EmptyDpt, Att, Dpt, LsnOrNull, Lsn, FIRST_LSN
<1>3. /\ b.type = "BEGIN_CHECKPOINT" /\ b.lsn = lsn /\ b.xid = NULL_XID
      /\ e.type = "END_CHECKPOINT" /\ e.lsn = lsn + 1 /\ e.xid = NULL_XID /\ e.att = att
      /\ e.dpt = dpt
  BY DEF LogRecord, EndCheckpointLog
<1>4. b \in Record
  BY <1>2 DEF LogRecord, Record, CheckpointType
<1>5. e \in Record
  BY <1>2 DEF EndCheckpointLog, Record, CheckpointType
<1>6. NULL_XID \notin Xid
  BY LogBounds DEF NULL_XID, Xid
<1>7. /\ b.type \notin DataType \cup EndType /\ e.type \notin DataType \cup EndType
      /\ b.type \in CheckpointType /\ e.type \in CheckpointType
      /\ b.type # "END_CHECKPOINT"
  BY <1>3 DEF DataType, EndType, CheckpointType
<1> HIDE DEF b, e
<1>8. Fits({b, e}, lsn + 2)
  <2>1. lsn + 2 \in lsn .. MaxLsn + 1
    BY <1>2
  <2>2. \A r \in {b, e} : r.lsn \in lsn .. (lsn + 2) - 1
    BY <1>3
  <2>3. \A l \in lsn .. (lsn + 2) - 1 : l = lsn \/ l = lsn + 1
    OBVIOUS
  <2>4. b.lsn # e.lsn
    BY <1>3
  <2> QED BY <1>3, <2>1, <2>2, <2>3, <2>4 DEF Fits
<1>9. Kinds({b, e})
  BY <1>3, <1>6, <1>7 DEF Kinds
<1> QED BY <1>1, <1>3, <1>4, <1>5, <1>6, <1>7, <1>8, <1>9

\* A checkpoint is in the file, and its tables are those of now.
LEMMA CheckpointInv ==
  ASSUME Inv, Checkpoint
  PROVE  Inv' /\ disk_log \subseteq disk_log'
<1> DEFINE new == CheckpointLogs(next_lsn_, att_, dpt_)
<1>1. /\ Typed /\ LogShape /\ MasterExact /\ PageInv
      /\ AttExact /\ Linked /\ CheckpointAttExact /\ MasterAttComplete
  BY InvParts
<1>2. /\ next_lsn_ \in Nat /\ next_lsn_ + 2 <= MaxLsn + 1 /\ MaxLsn \in Nat
      /\ next_lsn_ \in LsnOrNull /\ next_lsn_ + 2 \in Lsn /\ next_lsn_ + 1 \in LsnOrNull
      /\ next_lsn_ + 2 \in Nat /\ next_lsn_ + 2 <= (next_lsn_ + 1) + 1
      /\ att_ \in Att /\ dpt_ \in Dpt
  BY <1>1, LogFacts DEF Checkpoint, Room, Lsn, LsnOrNull, FIRST_LSN, Typed, TypeOK
<1>3. /\ next_lsn_' = next_lsn_ + 2 /\ Flush(log_buffer_ \cup new, next_lsn_ + 1)
      /\ pending' = next_lsn_
      /\ UNCHANGED <<att_, dpt_, master_record, control_xid, xactVars, pageVars>>
  BY DEF Checkpoint
<1>4. /\ new \subseteq Record /\ Kinds(new) /\ Fits(new, next_lsn_ + 2)
      /\ \A r \in new : /\ r.lsn \in Nat /\ r.type \notin DataType \cup EndType
                        /\ r.xid \notin Xid
                        /\ r.type = "END_CHECKPOINT" =>
                             r.lsn = next_lsn_ + 1 /\ r.att = att_ /\ r.dpt = dpt_
      /\ \E r \in new : r.type = "END_CHECKPOINT" /\ r.lsn = next_lsn_ + 1
  BY <1>2, NewCheckpoint
<1> HIDE DEF new
<1>5. Grown(new, next_lsn_ + 2) /\ next_lsn_file' = next_lsn_ + 2
  BY <1>1, <1>2, <1>3, <1>4, FlushGrows
<1>6. RestTyped'
  BY <1>1, <1>2, <1>3 DEF RestTyped, Typed, TypeOK, pageVars, xactVars, Att, Dpt
<1>7. Follows(new)
  BY <1>4 DEF Follows
<1>8. AttFollows(new)
  BY <1>1, <1>3, <1>4 DEF AttFollows, AttExact, xactVars
<1>9. Typed'
  BY <1>1, <1>2, <1>4, <1>5, <1>6, GrownTyped
<1>10. MasterExact'
  <2>1. PICK e \in new : e.type = "END_CHECKPOINT" /\ e.lsn = next_lsn_ + 1
    BY <1>4
  <2>2. e \in disk_log' /\ e.att = att_' /\ e.lsn = pending' + 1
    <3>1. e \in Log' /\ e.lsn < next_lsn_file'
      BY <1>2, <1>5, <2>1 DEF Grown
    <3>2. \A r \in log_buffer_' : next_lsn_file' <= r.lsn
      BY <1>5 DEF Grown, LogShape
    <3>3. e \notin log_buffer_'
      BY <1>2, <1>5, <2>1, <3>2
    <3> QED BY <1>3, <1>4, <2>1, <3>1, <3>3 DEF Log
  <2>3. master_record # NULL_LSN =>
          \E c \in disk_log' : c.type = "END_CHECKPOINT" /\ c.lsn = master_record + 1
    BY <1>1, <1>5 DEF MasterExact, Grown
  <2>4. NULL_LSN' = NULL_LSN /\ next_lsn_' = pending' + 2 /\ master_record' = master_record
    BY <1>3 DEF NULL_LSN
  <2> QED BY <2>1, <2>2, <2>3, <2>4 DEF MasterExact
<1>11. AttExact' /\ Linked' /\ CheckpointAttExact'
  BY <1>1, <1>2, <1>4, <1>5, <1>7, <1>8, GrownAtt
<1>12. MasterAttComplete'
  BY <1>1, <1>2, <1>3, <1>4, <1>5, <1>7, <1>8, GrownMasterAtt
<1>13. PageInv'
  BY <1>1, <1>2, <1>3, <1>4, <1>5, GrownPage
<1> QED BY <1>5, <1>9, <1>10, <1>11, <1>12, <1>13 DEF Grown, Inv, AttInv

\* The master record moves on to the checkpoint just written.
LEMMA WriteMasterInv ==
  ASSUME Inv, WriteMasterRecord
  PROVE  Inv' /\ disk_log \subseteq disk_log'
<1>1. /\ Typed /\ LogShape /\ MasterExact /\ PageInv
      /\ AttExact /\ Linked /\ CheckpointAttExact /\ MasterAttComplete
  BY InvParts
<1>2. /\ next_lsn_ \in Nat /\ next_lsn_ \in Lsn /\ NULL_LSN \in LsnOrNull /\ NULL_LSN' = NULL_LSN
  BY <1>1, LogFacts DEF Typed, TypeOK, LsnOrNull, NULL_LSN
<1>3. /\ pending # NULL_LSN /\ master_record' = pending /\ pending' = NULL_LSN
      /\ UNCHANGED <<logVars, att_, dpt_, control_xid, xactVars, pageVars>>
  BY DEF WriteMasterRecord
<1>4. Grown({}, next_lsn_)
  BY <1>1, <1>3, StillGrows
<1>5. RestTyped'
  BY <1>1, <1>2, <1>3 DEF RestTyped, Typed, TypeOK, pageVars, xactVars, Att, Dpt
<1>6. Follows({}) /\ AttFollows({}) /\ Kinds({})
  BY <1>1, <1>3 DEF Follows, AttFollows, AttExact, Kinds, xactVars
<1>7. Typed'
  BY <1>1, <1>2, <1>4, <1>5, <1>6, GrownTyped
<1>8. AttExact' /\ Linked' /\ CheckpointAttExact'
  BY <1>1, <1>2, <1>4, <1>6, GrownAtt
<1>9. PageInv'
  BY <1>1, <1>2, <1>3, <1>4, GrownPage
<1>10. PICK e \in disk_log : e.type = "END_CHECKPOINT" /\ e.lsn = pending + 1 /\ e.att = att_
  BY <1>1, <1>3 DEF MasterExact
<1>11. MasterExact'
  BY <1>2, <1>3, <1>10 DEF MasterExact, logVars
<1>12. MasterAttComplete'
  <2>1. /\ Log' = Log /\ att_' = att_ /\ Xid' = Xid /\ DataType' = DataType /\ EndType' = EndType
        /\ next_lsn_ = pending + 2
    BY <1>1, <1>3 DEF MasterExact, logVars, Log, Xid, DataType, EndType
  <2>2. \A c \in Log : c.lsn = pending + 1 => c = e
    BY <1>1, <1>10 DEF LogShape, Log
  <2>3. \A q \in Log : ~(e.lsn < q.lsn)
    <3>1. \A q \in Log : q.lsn \in Nat /\ q.lsn < next_lsn_
      BY <1>1, LogFacts
    <3>2. pending \in Nat
      BY <1>1, LogBounds DEF Typed, TypeOK, LsnOrNull, Lsn, FIRST_LSN, NULL_LSN
    <3> QED BY <1>10, <2>1, <3>1, <3>2
  <2> QED BY <1>2, <1>3, <1>10, <2>1, <2>2, <2>3 DEF MasterAttComplete
<1> QED BY <1>4, <1>7, <1>8, <1>9, <1>11, <1>12 DEF Grown, Inv, AttInv

\* A clean shutdown writes every change, so that the empty tables of the next
\* start miss nothing.
LEMMA RestartInv ==
  ASSUME Inv, Restart
  PROVE  Inv' /\ disk_log \subseteq disk_log'
<1>1. /\ Typed /\ LogShape /\ MasterExact /\ PageInv
      /\ AttExact /\ Linked /\ CheckpointAttExact /\ MasterAttComplete
  BY InvParts
<1>2. PICK dirty \in SUBSET Page :
        LET left == [p \in Page |-> IF p \in dirty THEN NULL_LSN ELSE dpt_[p]] IN
        /\ \A p \in Page \ dirty : ChangesOf(p) \ skipped[p] \subseteq stored[p]
        /\ Flush(log_buffer_ \cup CheckpointLogs(next_lsn_, att_, left), NULL_LSN)
        /\ stored' = [p \in Page |-> IF p \in dirty THEN ChangesOf(p) \ skipped[p] ELSE stored[p]]
        /\ diskLsn' = [p \in Page |-> IF p \in dirty THEN pageLsn[p] ELSE diskLsn[p]]
        /\ pageLsn' = diskLsn'
  BY DEF Restart
<1> DEFINE left == [p \in Page |-> IF p \in dirty THEN NULL_LSN ELSE dpt_[p]]
           new == CheckpointLogs(next_lsn_, att_, left)
<1>3. /\ next_lsn_ \in Nat /\ next_lsn_ + 2 <= MaxLsn + 1 /\ MaxLsn \in Nat
      /\ next_lsn_ \in LsnOrNull /\ next_lsn_ + 2 \in Lsn /\ NULL_LSN \in LsnOrNull
      /\ next_lsn_ + 2 \in Nat /\ att_ \in Att /\ dpt_ \in Dpt /\ pending = NULL_LSN
      /\ next_lsn_ # NULL_LSN
  BY <1>1, LogFacts DEF Restart, Room, Lsn, LsnOrNull, FIRST_LSN, NULL_LSN, Typed, TypeOK
<1>4. left \in Dpt
  BY <1>3 DEF Dpt
<1>5. /\ \A p \in Page \ dirty : ChangesOf(p) \ skipped[p] \subseteq stored[p]
      /\ Flush(log_buffer_ \cup new, NULL_LSN)
      /\ stored' = [p \in Page |-> IF p \in dirty THEN ChangesOf(p) \ skipped[p] ELSE stored[p]]
      /\ diskLsn' = [p \in Page |-> IF p \in dirty THEN pageLsn[p] ELSE diskLsn[p]]
      /\ pageLsn' = diskLsn'
  BY <1>2
<1>6. /\ next_lsn_' = next_lsn_ + 2 /\ master_record' = next_lsn_ /\ control_xid' = next_xid_
      /\ att_' = EmptyAtt /\ dpt_' = EmptyDpt /\ running' = {}
      /\ pending' = pending /\ next_xid_' = next_xid_ /\ skipped' = skipped
  BY DEF Restart
<1>7. /\ new \subseteq Record /\ Kinds(new) /\ Fits(new, next_lsn_ + 2)
      /\ \A r \in new : /\ r.lsn \in Nat /\ r.type \notin DataType \cup EndType
                        /\ r.xid \notin Xid
                        /\ r.type = "END_CHECKPOINT" =>
                             r.lsn = next_lsn_ + 1 /\ r.att = att_ /\ r.dpt = left
      /\ \E r \in new : r.type = "END_CHECKPOINT" /\ r.lsn = next_lsn_ + 1
  <2> HIDE DEF left
  <2> QED BY <1>3, <1>4, NewCheckpoint
<1>8. \A p \in Page : left[p] = IF p \in dirty THEN NULL_LSN ELSE dpt_[p]
  OBVIOUS
<1> HIDE DEF left, new
<1>9. Grown(new, next_lsn_ + 2) /\ next_lsn_file' = next_lsn_ + 2
  BY <1>1, <1>3, <1>5, <1>6, <1>7, FlushGrows
<1>10. /\ EmptyAtt \in Att /\ EmptyDpt \in Dpt
       /\ \A x \in Xid : EmptyAtt[x] = NULL_LSN
       /\ \A p \in Page : EmptyDpt[p] = NULL_LSN
  BY <1>3 DEF EmptyAtt, EmptyDpt, Att, Dpt
<1>11. RestTyped'
  <2>1. diskLsn' \in [Page -> Lsn]
    BY <1>1, <1>5 DEF Typed, TypeOK
  <2>2. \A p \in Page : ChangesOf(p) \in SUBSET Lsn
    BY <1>1 DEF ChangesOf, Lsns, Typed, TypeOK
  <2>3. stored' \in [Page -> SUBSET Lsn]
    BY <1>1, <1>5, <2>2 DEF Typed, TypeOK
  <2> QED BY <1>1, <1>3, <1>5, <1>6, <1>10, <2>1, <2>3 DEF RestTyped, Typed, TypeOK, Att, Dpt
<1>12. Follows(new)
  BY <1>7 DEF Follows
<1>13. AttFollows(new)
  BY <1>6, <1>10 DEF AttFollows
<1>14. Typed'
  BY <1>1, <1>3, <1>7, <1>9, <1>11, GrownTyped
<1>15. AttExact' /\ Linked' /\ CheckpointAttExact'
  BY <1>1, <1>3, <1>7, <1>9, <1>12, <1>13, GrownAtt
<1>16. /\ \A r \in Log' : r \in disk_log' /\ r.lsn \in Nat /\ r.lsn < next_lsn_ + 2
       /\ log_buffer_' = {}
       /\ disk_log \subseteq disk_log' /\ Log' = Log \cup new
       /\ \A r \in Log : r \in Log' /\ r.lsn \in Nat
  <2>1. \A r \in log_buffer_' : next_lsn_ + 2 <= r.lsn /\ r.lsn < next_lsn_ + 2 /\ r.lsn \in Nat
    BY <1>6, <1>9, <1>14, LogBounds DEF Grown, LogShape, Typed, TypeOK, Log, Lsn, FIRST_LSN
  <2>2. log_buffer_' = {}
    BY <1>3, <2>1
  <2>3. \A r \in Log' : r \in disk_log' /\ r.lsn \in Nat
    BY <2>2, <1>14, LogBounds DEF Log, Typed, TypeOK, Lsn, FIRST_LSN
  <2>4. \A r \in disk_log' : r.lsn < next_lsn_ + 2
    BY <1>9 DEF Grown, LogShape
  <2> QED BY <2>2, <2>3, <2>4, <1>9 DEF Grown
<1>17. MasterExact'
  <2>1. PICK e \in new : e.type = "END_CHECKPOINT" /\ e.lsn = next_lsn_ + 1
    BY <1>7
  <2>2. e \in disk_log'
    BY <1>16
  <2>3. NULL_LSN' = NULL_LSN
    BY DEF NULL_LSN
  <2> QED BY <1>3, <1>6, <2>1, <2>2, <2>3 DEF MasterExact
<1>18. MasterAttComplete'
  <2>1. Xid' = Xid /\ NULL_LSN' = NULL_LSN
    BY DEF Xid, NULL_LSN
  <2>2. \A c, b \in Log' : c.lsn = master_record' + 1 => ~(c.lsn < b.lsn)
    BY <1>3, <1>6, <1>16
  <2> QED BY <1>6, <1>10, <2>1, <2>2 DEF MasterAttComplete
<1>19. /\ NULL_LSN' = NULL_LSN /\ Page' = Page /\ DataType' = DataType
       /\ \A p \in Page : pageLsn[p] \in Nat /\ diskLsn[p] \in Nat /\ dpt_[p] \in Nat
       /\ next_lsn_file \in Nat /\ next_lsn_file <= next_lsn_
  BY <1>1, <1>3, LogFacts, LogBounds
     DEF Typed, TypeOK, Lsn, FIRST_LSN, Dpt, LsnOrNull, NULL_LSN, Page, DataType
<1>20. /\ \A p \in Page : pageLsn[p] = 0 \/ pageLsn[p] < next_lsn_
       /\ \A p \in Page : diskLsn[p] = 0 \/ diskLsn[p] < next_lsn_file
       /\ \A p \in Page : dpt_[p] # NULL_LSN => dpt_[p] < next_lsn_
  BY <1>1 DEF PageInv, PageExact
<1>21. PageExact'
  <2> SUFFICES ASSUME NEW p \in Page
               PROVE  diskLsn'[p] = 0 \/ diskLsn'[p] < next_lsn_ + 2
    BY <1>5, <1>6, <1>9, <1>10, <1>16, <1>19 DEF PageExact
  <2>1. diskLsn'[p] = pageLsn[p] \/ diskLsn'[p] = diskLsn[p]
    BY <1>5
  <2> QED BY <2>1, <1>3, <1>19, <1>20
<1>22. WriteAhead'
  <2> SUFFICES ASSUME NEW p \in Page, NEW l \in stored'[p]
               PROVE  \E r \in disk_log' : r.lsn = l
    BY <1>19 DEF WriteAhead, Lsns
  <2>1. CASE p \in dirty
    <3>1. l \in ChangesOf(p)
      BY <1>5, <2>1
    <3>2. PICK r \in Log : r.lsn = l
      BY <3>1 DEF ChangesOf, Lsns
    <3> QED BY <3>2, <1>16
  <2>2. CASE p \notin dirty
    <3>1. l \in stored[p]
      BY <1>5, <2>2
    <3>2. \E r \in disk_log : r.lsn = l
      BY <3>1, <1>1 DEF PageInv, WriteAhead, Lsns
    <3> QED BY <3>2, <1>16
  <2> QED BY <2>1, <2>2
<1>23. ASSUME NEW r \in Log', r.type \in DataType
       PROVE  r.lsn \in stored'[r.page] \cup skipped'[r.page]
  <2>1. r \in Log
    BY <1>7, <1>16, <1>23
  <2>2. r.page \in Page
    BY <1>1, <1>23, <2>1 DEF Typed, Kinds
  <2>3. r.lsn \in ChangesOf(r.page)
    BY <1>23, <2>1 DEF ChangesOf, Lsns
  <2> QED BY <1>5, <1>6, <2>2, <2>3
<1>24. MissingCovered'
  BY <1>19, <1>23 DEF MissingCovered
<1>25. CheckpointDptCovers'
  <2> SUFFICES ASSUME NEW c \in Log', c.type = "END_CHECKPOINT", NEW p \in Page,
                      c.dpt[p] # NULL_LSN
               PROVE  c.dpt[p] < c.lsn
    BY <1>19, <1>23 DEF CheckpointDptCovers, UpTo
  <2>1. CASE c \in Log
    BY <1>1, <2>1 DEF PageInv, CheckpointDptCovers
  <2>2. CASE c \in new
    <3>1. c.dpt[p] = dpt_[p] /\ c.lsn = next_lsn_ + 1
      BY <1>7, <1>8, <2>2
    <3> QED BY <3>1, <1>3, <1>19, <1>20
  <2> QED BY <2>1, <2>2, <1>16
<1> QED BY <1>9, <1>14, <1>15, <1>17, <1>18, <1>21, <1>22, <1>24, <1>25
        DEF Grown, Inv, AttInv, PageInv

----------------------------------------------------------------------------
(* Recovery.                                                               *)

\* What Analyze makes of att_, when the log file ends in the middle of
\* anything: for each transaction the last record it finds.
LEMMA AnalyzeAtt ==
  ASSUME Inv, master_record # NULL_LSN, NEW x \in Xid
  PROVE  /\ CheckpointEnd \in disk_log /\ CheckpointEnd.type = "END_CHECKPOINT"
         /\ CheckpointEnd.lsn = master_record + 1 /\ CheckpointEnd.lsn \in Nat
         /\ (\A r \in disk_log : r.xid = x => r.lsn < CheckpointEnd.lsn) =>
              AnalyzedAtt[x] = CheckpointEnd.att[x]
         /\ \A r \in disk_log :
              r.xid = x /\ CheckpointEnd.lsn < r.lsn
                /\ (\A q \in disk_log : q.xid = x => q.lsn <= r.lsn) =>
                AnalyzedAtt[x] = IF r.type \in EndType THEN NULL_LSN ELSE r.lsn
         /\ \A r \in disk_log : r.xid = x => r.lsn < CheckpointEnd.lsn \/ CheckpointEnd.lsn < r.lsn
<1> DEFINE C == CheckpointEnd
           later == {r \in AfterCheckpoint : r.xid = x}
           last == CHOOSE r \in later : r.lsn = Greatest(Lsns(later))
<1>1. Typed /\ LogShape /\ MasterExact
  BY InvParts
<1>2. /\ C \in disk_log /\ C.lsn = master_record + 1 /\ C.type = "END_CHECKPOINT"
  <2>1. PICK c \in disk_log : c.type = "END_CHECKPOINT" /\ c.lsn = master_record + 1
    BY <1>1 DEF MasterExact
  <2>2. C \in disk_log /\ C.lsn = master_record + 1
    BY <2>1 DEF CheckpointEnd
  <2>3. C = c
    BY <1>1, <2>1, <2>2 DEF LogShape, Log
  <2> QED BY <2>1, <2>2, <2>3
<1>3. /\ C.lsn \in Nat /\ \A r \in disk_log : r \in Log /\ r.lsn \in Nat /\ r.lsn < next_lsn_file
      /\ next_lsn_file \in Nat
  BY <1>1, <1>2, LogFacts
<1>4. ASSUME NEW r \in disk_log, r.xid = x
      PROVE  r.lsn < C.lsn \/ C.lsn < r.lsn
  <2>1. C.xid \notin Xid
    BY <1>1, <1>2, <1>3 DEF Typed, Kinds, CheckpointType
  <2>2. C.lsn # r.lsn
    BY <1>1, <1>2, <1>4, <2>1 DEF LogShape, Log
  <2> QED BY <1>3, <2>2
<1>5. later = {r \in disk_log : r.xid = x /\ C.lsn < r.lsn}
  BY <1>2, <1>3 DEF AfterCheckpoint
<1>6. AnalyzedAtt[x] = IF later = {} THEN C.att[x]
                       ELSE IF last.type \in EndType THEN NULL_LSN ELSE last.lsn
  BY DEF AnalyzedAtt
<1> HIDE DEF later, C
<1>7. ASSUME \A r \in disk_log : r.xid = x => r.lsn < C.lsn
      PROVE  AnalyzedAtt[x] = C.att[x]
  <2>1. later = {}
    BY <1>3, <1>5, <1>7
  <2> QED BY <2>1, <1>6
<1>8. ASSUME NEW r \in disk_log, r.xid = x, C.lsn < r.lsn,
             \A q \in disk_log : q.xid = x => q.lsn <= r.lsn
      PROVE  AnalyzedAtt[x] = IF r.type \in EndType THEN NULL_LSN ELSE r.lsn
  <2>1. r \in later /\ later \subseteq disk_log
    BY <1>5, <1>8
  <2>2. r.lsn \in Lsns(later) /\ \A n \in Lsns(later) : n <= r.lsn /\ n \in Nat
    BY <1>3, <1>5, <1>8, <2>1 DEF Lsns
  <2>3. Greatest(Lsns(later)) = r.lsn
    <3>1. \A m \in Lsns(later) : (\A n \in Lsns(later) : n <= m) => m = r.lsn
      BY <2>2
    <3> QED BY <2>2, <3>1 DEF Greatest
  <2>4. \A q \in later : q.lsn = r.lsn => q = r
    BY <1>1, <2>1 DEF LogShape, Log
  <2>5. last = r
    BY <2>1, <2>3, <2>4
  <2> QED BY <1>6, <2>1, <2>5
<1> QED BY <1>2, <1>3, <1>4, <1>7, <1>8 DEF C

\* A transaction with records in the log file has a last one.
LEMMA LastDurable ==
  ASSUME Typed, LogShape, NEW x, NEW q \in disk_log, q.xid = x
  PROVE  \E r \in disk_log : r.xid = x /\ \A s \in disk_log : s.xid = x => s.lsn <= r.lsn
<1> DEFINE S == {r.lsn : r \in {s \in disk_log : s.xid = x}}
<1>1. S # {} /\ S \subseteq 0 .. MaxLsn + 1 /\ MaxLsn + 1 \in Nat
  <2>1. \A r \in disk_log : r.lsn \in 0 .. MaxLsn + 1
    BY DEF Typed, TypeOK, Log, Lsn, FIRST_LSN
  <2> QED BY <2>1, LogBounds
<1>2. PICK m \in S : \A n \in S : n <= m
  <2> HIDE DEF S
  <2> QED BY <1>1, GreatestExists
<1>3. PICK r \in disk_log : r.xid = x /\ r.lsn = m
  BY <1>2
<1>4. \A s \in disk_log : s.xid = x => s.lsn <= r.lsn
  BY <1>2, <1>3
<1> QED BY <1>3, <1>4

\* What Analyze computes is in range, also the transaction counter.
LEMMA AnalyzeTypes ==
  ASSUME Inv, master_record # NULL_LSN
  PROVE  /\ AnalyzedAtt \in Att
         /\ AnalyzedDpt \in Dpt
         /\ AnalyzedXid \in 0 .. MaxXid + 1
<1>1. Typed /\ LogShape /\ MasterExact
  BY InvParts
<1>2. CheckpointEnd \in disk_log
  <2>1. PICK c \in disk_log : c.lsn = master_record + 1
    BY <1>1 DEF MasterExact
  <2> QED BY <2>1 DEF CheckpointEnd
<1>3. CheckpointEnd.att \in Att /\ CheckpointEnd.dpt \in Dpt
  BY <1>1, <1>2 DEF Typed, Log, Record
<1>4. \A r \in AfterCheckpoint : r.lsn \in 0 .. MaxLsn + 1 /\ r.xid \in Xid \cup {NULL_XID}
  BY <1>1 DEF AfterCheckpoint, Typed, TypeOK, Log, Lsn, FIRST_LSN
<1>5. MaxLsn + 1 \in Nat /\ MaxXid \in Nat
  BY LogBounds
<1>6. ASSUME NEW x \in Xid \cup {NULL_XID}
      PROVE  AnalyzedAtt[x] \in LsnOrNull
  <2> DEFINE later == {r \in AfterCheckpoint : r.xid = x}
             last == CHOOSE r \in later : r.lsn = Greatest(Lsns(later))
  <2>1. AnalyzedAtt[x] = IF later = {} THEN CheckpointEnd.att[x]
                         ELSE IF last.type \in EndType THEN NULL_LSN ELSE last.lsn
    BY DEF AnalyzedAtt
  <2>2. \A r \in later : r.lsn \in 0 .. MaxLsn + 1
    BY <1>4
  <2> HIDE DEF later
  <2>3. ASSUME later # {} PROVE last.lsn \in Lsn
    <3>1. Lsns(later) # {} /\ Lsns(later) \subseteq 0 .. MaxLsn + 1
      BY <2>2, <2>3 DEF Lsns
    <3>2. Greatest(Lsns(later)) \in Lsns(later)
      BY <1>5, <3>1, GreatestExists
    <3>3. last \in later
      BY <3>2 DEF Lsns
    <3> QED BY <3>3, <2>2 DEF Lsn, FIRST_LSN
  <2>4. CheckpointEnd.att[x] \in LsnOrNull
    BY <1>3 DEF Att
  <2> HIDE DEF last
  <2> QED BY <2>1, <2>3, <2>4 DEF LsnOrNull
<1>7. ASSUME NEW p \in Page
      PROVE  AnalyzedDpt[p] \in LsnOrNull
  <2> DEFINE later == {r \in AfterCheckpoint : r.type \in DataType /\ r.page = p}
  <2>1. AnalyzedDpt[p] = IF CheckpointEnd.dpt[p] # NULL_LSN \/ later = {} THEN CheckpointEnd.dpt[p]
                         ELSE Least(Lsns(later))
    BY DEF AnalyzedDpt
  <2>2. \A r \in later : r.lsn \in 0 .. MaxLsn + 1
    BY <1>4
  <2> HIDE DEF later
  <2>3. ASSUME later # {} PROVE Least(Lsns(later)) \in Lsn
    <3>1. Lsns(later) # {} /\ Lsns(later) \subseteq 0 .. MaxLsn + 1
      BY <2>2, <2>3 DEF Lsns
    <3>2. Lsns(later) \subseteq Nat
      BY <3>1
    <3>3. Least(Lsns(later)) \in Lsns(later)
      BY <3>1, <3>2, LeastExists
    <3> QED BY <3>1, <3>3 DEF Lsn, FIRST_LSN
  <2>4. CheckpointEnd.dpt[p] \in LsnOrNull
    BY <1>3 DEF Dpt
  <2> QED BY <2>1, <2>3, <2>4 DEF LsnOrNull
<1>8. AnalyzedXid \in 0 .. MaxXid + 1
  <2> DEFINE xids == {r.xid : r \in AfterCheckpoint}
  <2>1. AnalyzedXid = IF xids = {} THEN 1 ELSE IF NULL_XID \in xids THEN 0 ELSE Greatest(xids) + 1
    BY DEF AnalyzedXid
  <2>2. xids \subseteq Xid \cup {NULL_XID}
    BY <1>4
  <2> HIDE DEF xids
  <2>3. ASSUME xids # {}, NULL_XID \notin xids PROVE Greatest(xids) + 1 \in 0 .. MaxXid + 1
    <3>1. xids \subseteq 0 .. MaxXid
      BY <1>5, <2>2, <2>3 DEF Xid
    <3>2. Greatest(xids) \in xids
      BY <1>5, <2>3, <3>1, GreatestExists
    <3>3. Greatest(xids) \in 0 .. MaxXid
      BY <3>1, <3>2
    <3> QED BY <1>5, <3>3
  <2> QED BY <1>5, <2>1, <2>3
<1>9. AnalyzedAtt \in Att
  BY <1>6 DEF Att, AnalyzedAtt
<1>10. AnalyzedDpt \in Dpt
  BY <1>7 DEF Dpt, AnalyzedDpt
<1> QED BY <1>8, <1>9, <1>10

\* What Analyze makes of dpt_: the first change of the page that redo may need.
LEMMA AnalyzeDpt ==
  ASSUME Inv, master_record # NULL_LSN, NEW p \in Page
  PROVE  /\ AnalyzedDpt[p] # NULL_LSN => AnalyzedDpt[p] < next_lsn_file
         /\ \A r \in disk_log : r.type \in DataType /\ r.page = p /\ r.lsn \notin stored[p] \cup skipped[p] =>
              AnalyzedDpt[p] # NULL_LSN /\ AnalyzedDpt[p] <= r.lsn
<1> DEFINE C == CheckpointEnd
           later == {r \in AfterCheckpoint : r.type \in DataType /\ r.page = p}
<1>1. Typed /\ LogShape /\ MasterExact /\ PageInv
  BY InvParts
<1>2. C \in disk_log /\ C.lsn = master_record + 1 /\ C.type = "END_CHECKPOINT"
  <2>1. PICK c \in disk_log : c.type = "END_CHECKPOINT" /\ c.lsn = master_record + 1
    BY <1>1 DEF MasterExact
  <2>2. C \in disk_log /\ C.lsn = master_record + 1
    BY <2>1 DEF CheckpointEnd
  <2>3. C = c
    BY <1>1, <2>1, <2>2 DEF LogShape, Log
  <2> QED BY <2>1, <2>2, <2>3
<1>3. /\ C.lsn \in Nat /\ \A r \in disk_log : r \in Log /\ r.lsn \in Nat /\ r.lsn < next_lsn_file
      /\ next_lsn_file \in Nat /\ next_lsn_file <= MaxLsn + 1 /\ MaxLsn \in Nat
  BY <1>1, <1>2, LogFacts
<1>4. C.dpt[p] \in Nat
  <2>1. C \in Record
    BY <1>1, <1>2 DEF Typed, Log
  <2> QED BY <2>1, <1>3 DEF Record, Dpt, LsnOrNull, Lsn, FIRST_LSN, NULL_LSN
<1>5. AnalyzedDpt[p] = IF C.dpt[p] # NULL_LSN \/ later = {} THEN C.dpt[p] ELSE Least(Lsns(later))
  BY DEF AnalyzedDpt
<1>6. later = {r \in disk_log : r.type \in DataType /\ r.page = p /\ C.lsn < r.lsn}
  BY <1>2, <1>3 DEF AfterCheckpoint
<1>7. /\ C.dpt[p] # NULL_LSN => C.dpt[p] < C.lsn
      /\ \A r \in disk_log : r.lsn < C.lsn /\ r.type \in DataType /\ r.page = p
                             /\ r.lsn \notin stored[p] \cup skipped[p] =>
           C.dpt[p] # NULL_LSN /\ C.dpt[p] <= r.lsn
  BY <1>1, <1>2, <1>3 DEF PageInv, CheckpointDptCovers, UpTo
<1> HIDE DEF C, later
<1>8. \A r \in later : r \in disk_log /\ C.lsn < r.lsn
  BY <1>6
<1>9. ASSUME later # {}
      PROVE  /\ Least(Lsns(later)) < next_lsn_file
             /\ Least(Lsns(later)) # NULL_LSN
             /\ \A r \in later : Least(Lsns(later)) <= r.lsn
  <2>1. Lsns(later) # {} /\ \A n \in Lsns(later) : n \in Nat /\ n < next_lsn_file
    BY <1>3, <1>8, <1>9 DEF Lsns
  <2>2. Lsns(later) \subseteq Nat
    BY <2>1
  <2>3. Least(Lsns(later)) \in Lsns(later) /\ \A n \in Lsns(later) : Least(Lsns(later)) <= n
    BY <2>1, <2>2, LeastExists
  <2>4. \A r \in later : r.lsn \in Lsns(later)
    BY DEF Lsns
  <2>5. \A n \in Nat : n < next_lsn_file => n # NULL_LSN
    BY <1>3 DEF NULL_LSN
  <2> QED BY <2>1, <2>3, <2>4, <2>5
<1>10. AnalyzedDpt[p] # NULL_LSN => AnalyzedDpt[p] < next_lsn_file
  <2>1. C.dpt[p] # NULL_LSN => C.dpt[p] < next_lsn_file
    BY <1>2, <1>3, <1>4, <1>7 DEF C
  <2> QED BY <2>1, <1>5, <1>9
<1>11. ASSUME NEW r \in disk_log, r.type \in DataType, r.page = p, r.lsn \notin stored[p] \cup skipped[p]
       PROVE  AnalyzedDpt[p] # NULL_LSN /\ AnalyzedDpt[p] <= r.lsn
  <2>1. CASE r.lsn < C.lsn
    BY <2>1, <1>5, <1>7, <1>11
  <2>2. CASE C.lsn < r.lsn
    <3>1. r \in later
      BY <2>2, <1>6, <1>11
    <3>2. C.dpt[p] # NULL_LSN => C.dpt[p] <= r.lsn
      BY <2>2, <1>3, <1>4, <1>7
    <3> QED BY <3>1, <3>2, <1>5, <1>9
  <2>3. CASE r.lsn = C.lsn
    <3>1. r = C
      BY <1>1, <1>2, <2>3 DEF LogShape, Log, C
    <3> QED BY <3>1, <1>2, <1>11 DEF C, DataType
  <2> QED BY <2>1, <2>2, <2>3, <1>3
<1> QED BY <1>10, <1>11

\* What redo leaves of dpt_ and of the pages: a change that is in no file image
\* and was never passed over is one the next redo comes to.
RedoneTo(cut) ==
  /\ dpt_' \in Dpt /\ pageLsn' \in [Page -> Lsn] /\ diskLsn' \in [Page -> Lsn]
  /\ stored' \in [Page -> SUBSET Lsn] /\ skipped' \in [Page -> SUBSET Lsn]
  /\ \A p \in Page : /\ pageLsn'[p] = 0 \/ pageLsn'[p] < next_lsn_file
                     /\ diskLsn'[p] = 0 \/ diskLsn'[p] < next_lsn_file
                     /\ dpt_'[p] # NULL_LSN => dpt_'[p] < next_lsn_file
                     /\ \A l \in stored'[p] : \E r \in disk_log : r.lsn = l
  /\ \A r \in disk_log : r.type \in DataType
                            /\ r.lsn \notin stored'[r.page] \cup skipped'[r.page] =>
       /\ r.lsn \notin stored[r.page] \cup skipped[r.page]
       /\ dpt_'[r.page] # NULL_LSN /\ dpt_'[r.page] <= r.lsn
       /\ r.type = "NEW_PAGE" \/ r.lsn > diskLsn'[r.page]

LEMMA RedoImages ==
  ASSUME Inv, master_record # NULL_LSN,
         NEW cut \in [Page -> Lsns({r \in disk_log : r.type \in DataType}) \cup {NULL_LSN}],
         Redo(AnalyzedDpt, cut)
  PROVE  RedoneTo(cut)
<1> DEFINE D == AnalyzedDpt
           reached(p) == ReachedOf(p, D, cut)
           kept(p) == Kept(p, D, cut)
           late(p) == Lsns({r \in disk_log : /\ r.type \in DataType /\ r.page = p /\ r.lsn >= cut[p]
                                             /\ r.lsn \notin kept(p)})
<1>1. Typed /\ LogShape /\ PageInv
  BY InvParts
<1>2. /\ next_lsn_file \in Nat /\ MaxLsn \in Nat /\ next_lsn_file <= MaxLsn + 1
      /\ \A r \in disk_log : r \in Log /\ r.lsn \in Lsn /\ r.lsn \in Nat /\ r.lsn < next_lsn_file
      /\ \A r \in disk_log : r.type \in DataType => r.page \in Page
  <2>1. \A r \in disk_log : r \in Log /\ r.lsn \in Lsn /\ (r.type \in DataType => r.page \in Page)
    BY <1>1 DEF Typed, TypeOK, Kinds, Log
  <2> QED BY <1>1, <2>1, LogFacts
<1>3. \A p \in Page : cut[p] = NULL_LSN \/ (cut[p] \in Nat /\ cut[p] < NULL_LSN)
  BY <1>2 DEF Lsns, NULL_LSN
<1>4. D \in Dpt
  BY AnalyzeTypes
<1>5. /\ dpt_' = [p \in Page |-> IF cut[p] # NULL_LSN THEN NULL_LSN ELSE D[p]]
      /\ pageLsn' = [p \in Page |-> IF Reinit(p, D, cut) THEN 0 ELSE diskLsn[p]]
      /\ diskLsn' = [p \in Page |-> IF cut[p] # NULL_LSN THEN pageLsn'[p] ELSE diskLsn[p]]
      /\ stored' = [p \in Page |->
            IF cut[p] # NULL_LSN THEN kept(p) \cup (Lsns(reached(p)) \ skipped[p]) ELSE stored[p]]
      /\ skipped' = [p \in Page |-> skipped[p] \cup late(p)]
  BY DEF Redo
<1>6. \A p \in Page : /\ kept(p) \subseteq stored[p]
                      /\ \A l \in stored[p] : l \notin kept(p) => ~(l < cut[p])
  BY DEF Kept
<1>7. \A p \in Page : /\ \A l \in Lsns(reached(p)) : \E r \in disk_log : r.lsn = l
                      /\ \A l \in late(p) : \E r \in disk_log : r.lsn = l
  BY DEF Lsns, ReachedOf
<1>8. \A r \in disk_log : r.type \in DataType =>
         /\ r.lsn >= cut[r.page] /\ r.lsn \notin kept(r.page) => r.lsn \in late(r.page)
         /\ D[r.page] # NULL_LSN /\ D[r.page] <= r.lsn /\ r.lsn < cut[r.page] =>
              r.lsn \in Lsns(reached(r.page))
  BY DEF Lsns, ReachedOf, Reached
<1>9. \A p \in Page : /\ diskLsn[p] \in Lsn /\ stored[p] \subseteq Lsn /\ skipped[p] \subseteq Lsn
                      /\ diskLsn[p] = 0 \/ diskLsn[p] < next_lsn_file
                      /\ \A l \in stored[p] : \E r \in disk_log : r.lsn = l
  BY <1>1 DEF Typed, TypeOK, PageInv, PageExact, WriteAhead, Lsns
<1>10. 0 \in Lsn /\ NULL_LSN \in LsnOrNull
  BY <1>2 DEF Lsn, FIRST_LSN, LsnOrNull
<1>11. \A p \in Page :
         /\ D[p] # NULL_LSN => D[p] < next_lsn_file
         /\ \A r \in disk_log : r.type \in DataType /\ r.page = p
                /\ r.lsn \notin stored[p] \cup skipped[p] => D[p] # NULL_LSN /\ D[p] <= r.lsn
  BY AnalyzeDpt
<1>12. \A r \in disk_log : r.type \in DataType
              /\ r.lsn \notin stored[r.page] \cup skipped[r.page] =>
         r.type = "NEW_PAGE" \/ r.lsn > diskLsn[r.page]
  BY <1>1, <1>2 DEF PageInv, MissingCovered
<1> HIDE DEF D, reached, kept, late
<1>13. dpt_' \in Dpt
  BY <1>4, <1>5, <1>10 DEF Dpt
<1>14. pageLsn' \in [Page -> Lsn]
  BY <1>5, <1>9, <1>10
<1>15. diskLsn' \in [Page -> Lsn]
  BY <1>5, <1>9, <1>14
<1>16. stored' \in [Page -> SUBSET Lsn] /\ skipped' \in [Page -> SUBSET Lsn]
  <2>1. \A p \in Page : Lsns(reached(p)) \subseteq Lsn /\ late(p) \subseteq Lsn
    BY <1>2, <1>7
  <2> QED BY <2>1, <1>5, <1>6, <1>9
<1>17. ASSUME NEW p \in Page
       PROVE  /\ pageLsn'[p] = 0 \/ pageLsn'[p] < next_lsn_file
              /\ diskLsn'[p] = 0 \/ diskLsn'[p] < next_lsn_file
              /\ dpt_'[p] # NULL_LSN => dpt_'[p] < next_lsn_file
              /\ \A l \in stored'[p] : \E r \in disk_log : r.lsn = l
  <2>1. pageLsn'[p] = 0 \/ pageLsn'[p] < next_lsn_file
    BY <1>5, <1>9
  <2>2. diskLsn'[p] = 0 \/ diskLsn'[p] < next_lsn_file
    BY <1>5, <1>9, <2>1
  <2>3. dpt_'[p] # NULL_LSN => dpt_'[p] < next_lsn_file
    BY <1>5, <1>11
  <2>4. \A l \in stored'[p] : \E r \in disk_log : r.lsn = l
    BY <1>5, <1>6, <1>7, <1>9
  <2> QED BY <2>1, <2>2, <2>3, <2>4
<1>18. ASSUME NEW r \in disk_log, r.type \in DataType,
              r.lsn \notin stored'[r.page] \cup skipped'[r.page]
       PROVE  /\ r.lsn \notin stored[r.page] \cup skipped[r.page]
              /\ dpt_'[r.page] # NULL_LSN /\ dpt_'[r.page] <= r.lsn
              /\ r.type = "NEW_PAGE" \/ r.lsn > diskLsn'[r.page]
  <2> DEFINE p == r.page
  <2>1. p \in Page /\ r.lsn \in Nat /\ r.lsn < NULL_LSN
    BY <1>2, <1>18 DEF NULL_LSN
  <2>2. r.lsn \notin skipped[p] /\ r.lsn \notin late(p)
    BY <1>5, <1>18, <2>1
  <2>3. CASE cut[p] = NULL_LSN
    <3>1. stored'[p] = stored[p] /\ dpt_'[p] = D[p] /\ diskLsn'[p] = diskLsn[p]
      BY <1>5, <2>1, <2>3
    <3>2. r.lsn \notin stored[p] \cup skipped[p]
      BY <3>1, <2>2, <1>18
    <3> QED BY <3>1, <3>2, <2>1, <1>11, <1>12, <1>18
  <2>4. CASE cut[p] # NULL_LSN
    <3>1. stored'[p] = kept(p) \cup (Lsns(reached(p)) \ skipped[p])
      BY <1>5, <2>1, <2>4
    <3>2. r.lsn \notin kept(p) /\ r.lsn \notin Lsns(reached(p))
      BY <3>1, <2>2, <1>18
    <3>3. r.lsn < cut[p]
      BY <1>3, <1>8, <1>18, <2>1, <2>2, <2>4, <3>2
    <3>4. r.lsn \notin stored[p]
      BY <1>6, <2>1, <3>2, <3>3
    <3>5. D[p] # NULL_LSN /\ D[p] <= r.lsn
      BY <1>11, <1>18, <2>1, <2>2, <3>4
    <3> QED BY <1>8, <1>18, <3>2, <3>3, <3>5
  <2> QED BY <2>3, <2>4
<1> QED BY <1>13, <1>14, <1>15, <1>16, <1>17, <1>18 DEF RedoneTo

\* A crash loses the buffer and nothing else, and Analyze rebuilds tables that
\* are exact for what the file holds.
LEMMA CrashInv ==
  ASSUME Inv, Crash
  PROVE  Inv' /\ disk_log \subseteq disk_log'
<1>1. /\ Typed /\ LogShape /\ MasterExact /\ PageInv
      /\ AttExact /\ Linked /\ CheckpointAttExact /\ MasterAttComplete
  BY InvParts
<1>2. /\ master_record # NULL_LSN
      /\ log_buffer_' = {} /\ next_lsn_' = next_lsn_file /\ flushed_lsn_' = next_lsn_file - 1
      /\ att_' = AnalyzedAtt
      /\ next_xid_' = IF AnalyzedXid > control_xid THEN AnalyzedXid ELSE control_xid
      /\ running' = {} /\ pending' = NULL_LSN
      /\ disk_log' = disk_log /\ next_lsn_file' = next_lsn_file
      /\ master_record' = master_record /\ control_xid' = control_xid
  BY DEF Crash
<1>3. /\ Log' = disk_log
      /\ NULL_LSN' = NULL_LSN /\ Xid' = Xid /\ Page' = Page
      /\ DataType' = DataType /\ EndType' = EndType
  BY <1>2 DEF Log, NULL_LSN, Xid, Page, DataType, EndType
<1>4. /\ next_lsn_file \in Nat /\ next_lsn_file <= next_lsn_ /\ next_lsn_ \in Nat
      /\ MaxLsn \in Nat /\ MaxXid \in Nat /\ next_lsn_ <= MaxLsn + 1
      /\ \A r \in disk_log : r \in Log /\ r.lsn \in Nat /\ r.lsn < next_lsn_file
      /\ \A r \in Log : r.lsn \in Nat /\ (r.lsn < next_lsn_file <=> r \in disk_log)
  BY <1>1, LogFacts
<1>5. next_lsn_file >= 1
  <2>1. PICK c \in disk_log : c.lsn = master_record + 1
    BY <1>1, <1>2 DEF MasterExact
  <2> QED BY <1>4, <2>1
<1> DEFINE read == Lsns({r \in disk_log : r.type \in DataType})
<1>51. PICK cut \in [Page -> read \cup {NULL_LSN}] : Redo(AnalyzedDpt, cut)
  BY DEF Crash
<1>52. RedoneTo(cut)
  BY <1>2, <1>51, RedoImages
<1> HIDE DEF read
<1>6. Typed'
  <2>1. AnalyzedAtt \in Att /\ AnalyzedDpt \in Dpt /\ AnalyzedXid \in 0 .. MaxXid + 1
    BY <1>2, AnalyzeTypes
  <2>2. next_lsn_' \in Lsn /\ next_lsn_file' \in Lsn /\ flushed_lsn_' \in LsnOrNull
    BY <1>2, <1>4, <1>5 DEF Lsn, FIRST_LSN, LsnOrNull
  <2>3. next_xid_' \in 1 .. MaxXid + 1
    <3>1. control_xid \in 1 .. MaxXid + 1
      BY <1>1 DEF Typed, TypeOK
    <3> QED BY <1>2, <1>4, <2>1, <3>1
  <2>4. Log' \subseteq Record /\ Kinds(Log)'
    BY <1>1, <1>3 DEF Typed, Log, Kinds
  <2>5. \A r \in Log' : /\ r.lsn \in Lsn /\ r.prev \in LsnOrNull
                        /\ r.xid \in Xid \cup {NULL_XID} /\ r.page \in Page \cup {NULL_PAGE}
    BY <2>4 DEF Record
  <2>6. pending' \in LsnOrNull
    BY <1>2 DEF LsnOrNull
  <2> QED BY <1>1, <1>2, <1>52, <2>1, <2>2, <2>3, <2>4, <2>5, <2>6
          DEF Typed, TypeOK, Att, RedoneTo
<1>7. LogShape'
  <2>1. ASSUME NEW l \in 0 .. next_lsn_file - 1 PROVE \E r \in disk_log : r.lsn = l
    <3>1. l \in 0 .. next_lsn_ - 1 /\ l < next_lsn_file
      BY <1>4
    <3>2. PICK r \in Log : r.lsn = l
      BY <1>1, <3>1 DEF LogShape, FIRST_LSN
    <3> QED BY <1>4, <3>1, <3>2
  <2>2. \A q, r \in disk_log : q.lsn = r.lsn => q = r
    BY <1>1 DEF LogShape, Log
  <2> QED BY <1>2, <1>3, <1>4, <1>5, <2>1, <2>2 DEF LogShape, FIRST_LSN
<1>8. MasterExact'
  BY <1>1, <1>2, <1>3 DEF MasterExact
<1>9. ASSUME NEW x \in Xid, AnalyzedAtt[x] # NULL_LSN
      PROVE  LastOpen(disk_log, x, AnalyzedAtt[x])
  <2>1. CASE \A r \in disk_log : r.xid = x => r.lsn < CheckpointEnd.lsn
    <3>1. AnalyzedAtt[x] = CheckpointEnd.att[x]
      BY <1>2, <2>1, AnalyzeAtt
    <3>2. /\ CheckpointEnd \in disk_log /\ CheckpointEnd.type = "END_CHECKPOINT"
          /\ CheckpointEnd.lsn \in Nat
      BY <1>2, AnalyzeAtt
    <3>3. LastOpen(UpTo(CheckpointEnd.lsn), x, CheckpointEnd.att[x])
      BY <1>1, <1>4, <1>9, <3>1, <3>2 DEF CheckpointAttExact
    <3>4. \A q \in UpTo(CheckpointEnd.lsn) : q \in disk_log
      BY <1>4, <3>2 DEF UpTo
    <3>5. \A q \in disk_log : q.xid = x => q \in UpTo(CheckpointEnd.lsn)
      BY <1>4, <2>1 DEF UpTo
    <3> QED BY <3>1, <3>3, <3>4, <3>5 DEF LastOpen
  <2>2. CASE \E q \in disk_log : q.xid = x /\ ~(q.lsn < CheckpointEnd.lsn)
    <3>1. PICK q \in disk_log : q.xid = x /\ ~(q.lsn < CheckpointEnd.lsn)
      BY <2>2
    <3>2. PICK r \in disk_log : r.xid = x /\ \A s \in disk_log : s.xid = x => s.lsn <= r.lsn
      BY <1>1, <3>1, LastDurable
    <3>3. CheckpointEnd.lsn < q.lsn /\ CheckpointEnd.lsn \in Nat
      BY <1>2, <3>1, AnalyzeAtt
    <3>4. CheckpointEnd.lsn < r.lsn
      BY <1>4, <3>1, <3>2, <3>3
    <3>5. AnalyzedAtt[x] = IF r.type \in EndType THEN NULL_LSN ELSE r.lsn
      BY <1>2, <3>2, <3>4, AnalyzeAtt
    <3> QED BY <1>9, <3>2, <3>5 DEF LastOpen
  <2> QED BY <2>1, <2>2
<1>10. AttExact'
  BY <1>2, <1>3, <1>9 DEF AttExact, LastOpen
<1>11. Linked'
  <2> SUFFICES ASSUME NEW r \in disk_log, r.type \in DataType \cup EndType
               PROVE  LastOpen({q \in disk_log : q.xid = r.xid /\ q.lsn < r.lsn}, r.xid, r.prev)
    BY <1>3 DEF Linked, LastOpen, Before
  <2>1. {q \in disk_log : q.xid = r.xid /\ q.lsn < r.lsn} = Before(r)
    BY <1>4 DEF Before
  <2> QED BY <1>1, <1>4, <2>1 DEF Linked
<1>12. CheckpointAttExact'
  <2> SUFFICES ASSUME NEW c \in disk_log, c.type = "END_CHECKPOINT", NEW x \in Xid,
                      c.att[x] # NULL_LSN
               PROVE  LastOpen({q \in disk_log : q.lsn < c.lsn}, x, c.att[x])
    BY <1>3 DEF CheckpointAttExact, LastOpen, UpTo
  <2>1. {q \in disk_log : q.lsn < c.lsn} = UpTo(c.lsn)
    BY <1>4 DEF UpTo
  <2> QED BY <1>1, <1>4, <2>1 DEF CheckpointAttExact
<1>13. MasterAttComplete'
  <2> SUFFICES ASSUME NEW c \in disk_log, c.lsn = master_record + 1, NEW x \in Xid
               PROVE  /\ AnalyzedAtt[x] # NULL_LSN
                           /\ (\A q \in disk_log : q.xid = x => q.lsn < c.lsn) =>
                           c.att[x] = AnalyzedAtt[x]
                      /\ \A b \in disk_log : b.xid = x /\ b.type \in DataType \cup EndType
                                               /\ c.lsn < b.lsn /\ b.prev < c.lsn =>
                           c.att[x] = b.prev
    BY <1>2, <1>3 DEF MasterAttComplete
  <2>1. c = CheckpointEnd
    BY <1>1, <1>2, AnalyzeAtt DEF LogShape, Log
  <2>2. (\A q \in disk_log : q.xid = x => q.lsn < c.lsn) => c.att[x] = AnalyzedAtt[x]
    BY <1>2, <2>1, AnalyzeAtt
  <2> QED BY <1>1, <1>4, <2>2 DEF MasterAttComplete
<1>14. PageExact'
  BY <1>2, <1>3, <1>52 DEF PageExact, RedoneTo
<1>15. WriteAhead'
  BY <1>2, <1>3, <1>52 DEF WriteAhead, Lsns, RedoneTo
<1>16. MissingCovered'
  BY <1>2, <1>3, <1>52 DEF MissingCovered, InRedoRange, RedoneTo
<1>17. CheckpointDptCovers'
  <2> SUFFICES ASSUME NEW c \in disk_log, c.type = "END_CHECKPOINT"
               PROVE  /\ \A p \in Page : c.dpt[p] # NULL_LSN => c.dpt[p] < c.lsn
                      /\ \A r \in disk_log : r.lsn < c.lsn /\ r.type \in DataType
                              /\ r.lsn \notin stored'[r.page] \cup skipped'[r.page] =>
                           c.dpt[r.page] # NULL_LSN /\ c.dpt[r.page] <= r.lsn
    BY <1>2, <1>3 DEF CheckpointDptCovers, UpTo
  <2>1. \A r \in disk_log : r.type \in DataType
              /\ r.lsn \notin stored'[r.page] \cup skipped'[r.page] =>
           r.lsn \notin stored[r.page] \cup skipped[r.page]
    BY <1>52 DEF RedoneTo
  <2> QED BY <1>1, <1>4, <2>1 DEF PageInv, CheckpointDptCovers, UpTo
<1> QED BY <1>2, <1>6, <1>7, <1>8, <1>10, <1>11, <1>12, <1>13, <1>14, <1>15, <1>16, <1>17
        DEF Inv, AttInv, PageInv

----------------------------------------------------------------------------
(* The invariant holds, and what follows from it.                          *)

\* Both kinds of start.
LEMMA InitInv ==
  ASSUME Init
  PROVE  Inv
<1>1. /\ NULL_LSN \in LsnOrNull /\ 0 \in Lsn /\ 1 \in 1 .. MaxXid + 1
      /\ EmptyAtt \in Att /\ EmptyDpt \in Dpt
      /\ MaxLsn \in Nat /\ NULL_LSN >= 2
      /\ \A x \in Xid : EmptyAtt[x] = NULL_LSN
      /\ \A p \in Page : EmptyDpt[p] = NULL_LSN
  BY LogBounds DEF EmptyAtt, EmptyDpt, Att, Dpt, LsnOrNull, Lsn, FIRST_LSN, NULL_LSN
<1>2. /\ log_buffer_ = {} /\ att_ = EmptyAtt /\ dpt_ = EmptyDpt /\ next_lsn_file = next_lsn_
      /\ control_xid = 1 /\ pending = NULL_LSN /\ next_xid_ = 1 /\ running = {}
      /\ pageLsn = [p \in Page |-> 0] /\ diskLsn = [p \in Page |-> 0]
      /\ stored = [p \in Page |-> {}] /\ skipped = [p \in Page |-> {}] /\ Log = disk_log
  BY DEF Init, Log
<1>3. CASE /\ next_lsn_ = FIRST_LSN /\ flushed_lsn_ = NULL_LSN
           /\ disk_log = {} /\ master_record = NULL_LSN
  <2>1. Typed
    BY <1>1, <1>2, <1>3 DEF Typed, TypeOK, Kinds, FIRST_LSN
  <2>2. LogShape
    BY <1>2, <1>3 DEF LogShape, FIRST_LSN
  <2>3. MasterExact /\ AttInv
    BY <1>1, <1>2, <1>3 DEF MasterExact, AttInv, AttExact, Linked, CheckpointAttExact, MasterAttComplete
  <2>4. PageInv
    BY <1>1, <1>2, <1>3 DEF PageInv, PageExact, WriteAhead, MissingCovered, CheckpointDptCovers
  <2> QED BY <2>1, <2>2, <2>3, <2>4 DEF Inv
<1>4. CASE /\ next_lsn_ = 2 /\ flushed_lsn_ = 1
           /\ disk_log = CheckpointLogs(0, EmptyAtt, EmptyDpt) /\ master_record = 0
  <2> DEFINE b == LogRecord("BEGIN_CHECKPOINT", 0, NULL_XID, NULL_LSN, NULL_PAGE)
             e == EndCheckpointLog(1, EmptyAtt, EmptyDpt)
  <2>1. disk_log = {b, e}
    BY <1>4 DEF CheckpointLogs
  <2>2. /\ b.type = "BEGIN_CHECKPOINT" /\ b.lsn = 0 /\ b.xid = NULL_XID
        /\ e.type = "END_CHECKPOINT" /\ e.lsn = 1 /\ e.xid = NULL_XID /\ e.att = EmptyAtt
        /\ e.dpt = EmptyDpt
    BY DEF LogRecord, EndCheckpointLog
  <2>3. 0 \in Lsn /\ 1 \in Lsn /\ 2 \in Lsn /\ NULL_LSN # 2 /\ NULL_LSN # 0
    BY LogBounds DEF Lsn, FIRST_LSN, NULL_LSN
  <2>4. b \in Record
    BY <1>1 DEF LogRecord, Record, CheckpointType
  <2>5. e \in Record
    BY <1>1, <2>3 DEF EndCheckpointLog, Record, CheckpointType
  <2>6. NULL_XID \notin Xid
    BY LogBounds DEF NULL_XID, Xid
  <2>7. /\ b.type \notin DataType \cup EndType /\ e.type \notin DataType \cup EndType
        /\ b.type \in CheckpointType /\ e.type \in CheckpointType
        /\ b.type # "END_CHECKPOINT"
    BY <2>2 DEF DataType, EndType, CheckpointType
  <2> HIDE DEF b, e
  <2>8. Typed
    <3>1. Log \subseteq Record /\ Kinds(Log)
      BY <1>2, <2>1, <2>2, <2>4, <2>5, <2>6, <2>7 DEF Kinds
    <3>2. \A r \in Log : /\ r.lsn \in Lsn /\ r.prev \in LsnOrNull
                         /\ r.xid \in Xid \cup {NULL_XID} /\ r.page \in Page \cup {NULL_PAGE}
      BY <3>1 DEF Record
    <3>3. flushed_lsn_ \in LsnOrNull /\ master_record \in LsnOrNull
      BY <1>4, <2>3 DEF LsnOrNull
    <3> QED BY <1>1, <1>2, <1>4, <2>3, <3>1, <3>2, <3>3 DEF Typed, TypeOK
  <2>9. LogShape
    <3>1. \A l \in 0 .. 2 - 1 : l = 0 \/ l = 1
      OBVIOUS
    <3> QED BY <1>2, <1>4, <2>1, <2>2, <3>1 DEF LogShape, FIRST_LSN
  <2>10. MasterExact
    BY <1>2, <1>4, <2>1, <2>2 DEF MasterExact
  <2>11. AttInv
    <3>1. AttExact
      BY <1>1, <1>2 DEF AttExact
    <3>2. Linked
      BY <1>2, <2>1, <2>7 DEF Linked
    <3>3. CheckpointAttExact
      BY <1>1, <1>2, <2>1, <2>2, <2>7 DEF CheckpointAttExact
    <3>4. MasterAttComplete
      BY <1>1, <1>2, <2>1, <2>7 DEF MasterAttComplete
    <3> QED BY <3>1, <3>2, <3>3, <3>4 DEF AttInv
  <2>12. PageInv
    BY <1>1, <1>2, <2>1, <2>2, <2>7 DEF PageInv, PageExact, WriteAhead, MissingCovered, CheckpointDptCovers, UpTo
  <2> QED BY <2>8, <2>9, <2>10, <2>11, <2>12 DEF Inv
<1> QED BY <1>3, <1>4 DEF Init

\* Every step keeps the invariant, and what is in the log file.
LEMMA NextInv ==
  ASSUME Inv, [Next]_vars
  PROVE  Inv' /\ disk_log \subseteq disk_log'
<1>1. CASE Begin
  BY <1>1, BeginInv
<1>2. ASSUME NEW xid \in Xid, NEW page \in Page, AppendRowLog(xid, page)
      PROVE  Inv' /\ disk_log \subseteq disk_log'
  <2>1. "ROW" \in DataType /\ page \in {page}
    BY DEF DataType
  <2>2. /\ Room(1) /\ xid \in running /\ att_[xid] # NULL_LSN
        /\ Append(LogRecord("ROW", next_lsn_, xid, att_[xid], page))
        /\ att_' = [att_ EXCEPT ![xid] = next_lsn_]
        /\ dpt_' = Dirtied({page})
        /\ pageLsn' = [pageLsn EXCEPT ![page] = next_lsn_]
        /\ UNCHANGED <<master_record, control_xid, pending, xactVars, fileVars>>
    BY <1>2 DEF AppendRowLog
  <2> QED BY <2>1, <2>2, DataInv
<1>3. ASSUME NEW xid \in Xid, NEW page \in Page, AppendNewPageLog(xid, page)
      PROVE  Inv' /\ disk_log \subseteq disk_log'
  <2>1. "NEW_PAGE" \in DataType /\ page \in {page, PrevPage(page)}
    BY DEF DataType
  <2>2. /\ Room(1) /\ xid \in running /\ att_[xid] # NULL_LSN
        /\ Append(LogRecord("NEW_PAGE", next_lsn_, xid, att_[xid], page))
        /\ att_' = [att_ EXCEPT ![xid] = next_lsn_]
        /\ dpt_' = Dirtied({page, PrevPage(page)})
        /\ pageLsn' = [pageLsn EXCEPT ![page] = next_lsn_]
        /\ UNCHANGED <<master_record, control_xid, pending, xactVars, fileVars>>
    BY <1>3 DEF AppendNewPageLog
  <2> QED BY <2>1, <2>2, DataInv
<1>4. ASSUME NEW xid \in Xid, Commit(xid)
      PROVE  Inv' /\ disk_log \subseteq disk_log'
  BY <1>4, EndInv DEF Commit, EndType
<1>5. ASSUME NEW xid \in Xid, Rollback(xid)
      PROVE  Inv' /\ disk_log \subseteq disk_log'
  BY <1>5, EndInv DEF Rollback, EndType
<1>6. ASSUME NEW page \in Page, FlushPage(page)
      PROVE  Inv' /\ disk_log \subseteq disk_log'
  BY <1>6, FlushPageInv
<1>7. CASE Checkpoint
  BY <1>7, CheckpointInv
<1>8. CASE WriteMasterRecord
  BY <1>8, WriteMasterInv
<1>9. CASE Restart
  BY <1>9, RestartInv
<1>10. CASE Crash
  BY <1>10, CrashInv
<1>11. CASE UNCHANGED vars
  <2>1. /\ UNCHANGED <<logVars, att_, dpt_, master_record, control_xid, pending, xactVars, pageVars>>
    BY <1>11 DEF vars, logVars, xactVars, pageVars
  <2>2. Typed'
    BY <2>1 DEF Inv, Typed, TypeOK, Log, Kinds, logVars, xactVars, pageVars, Att, Dpt
  <2>3. LogShape' /\ MasterExact'
    BY <2>1 DEF Inv, LogShape, MasterExact, Log, logVars, NULL_LSN
  <2>4. AttInv'
    BY <2>1 DEF Inv, AttInv, AttExact, Linked, CheckpointAttExact, MasterAttComplete, LastOpen,
                Before, UpTo, Log, logVars, xactVars, NULL_LSN
  <2>5. PageInv'
    BY <2>1 DEF Inv, PageInv, PageExact, WriteAhead, MissingCovered, InRedoRange, CheckpointDptCovers,
                UpTo, Log, Lsns, logVars, pageVars, NULL_LSN
  <2> QED BY <2>1, <2>2, <2>3, <2>4, <2>5 DEF Inv, logVars
<1> QED BY <1>1, <1>2, <1>3, <1>4, <1>5, <1>6, <1>7, <1>8, <1>9, <1>10, <1>11 DEF Next

\* The inductive invariant holds in every state.
THEOREM LogInvariant == Spec => []Inv
<1>1. Init => Inv
  BY InitInv
<1>2. Inv /\ [Next]_vars => Inv'
  BY NextInv
<1> QED BY <1>1, <1>2, PTL DEF Spec

\* The lsn counter, the transaction counter and all else keep their ranges, and
\* every record is where comparing its lsn with flushed_lsn_ makes Rollback and
\* Redo look for it.
THEOREM LogConsistent == Spec => []LogInv
<1>1. Inv => LogInv
  <2> SUFFICES ASSUME Inv PROVE LogInv
    OBVIOUS
  <2>1. Typed /\ LogShape
    BY InvParts
  <2>2. RecordsFound
    <3> SUFFICES ASSUME flushed_lsn_ # NULL_LSN, NEW lsn \in FIRST_LSN .. next_lsn_ - 1
                 PROVE  \E r \in Log : r.lsn = lsn /\ (LooksInBuffer(lsn) <=> r \in log_buffer_)
                                       /\ \A q \in Log : q.lsn = lsn => q = r
      BY DEF RecordsFound
    <3>1. PICK r \in Log : r.lsn = lsn
      BY <2>1 DEF LogShape
    <3>2. \A q \in Log : q.lsn = lsn => q = r
      BY <2>1, <3>1 DEF LogShape
    <3>3. flushed_lsn_ = next_lsn_file - 1 /\ next_lsn_file \in Nat
      BY <2>1, LogFacts DEF LogShape
    <3>4. lsn \in Nat /\ (r \in log_buffer_ <=> next_lsn_file <= lsn)
      BY <2>1, <3>1, LogFacts
    <3>5. LooksInBuffer(lsn) <=> r \in log_buffer_
      BY <3>3, <3>4 DEF LooksInBuffer
    <3> QED BY <3>1, <3>2, <3>5
  <2> QED BY <2>1, <2>2 DEF LogInv, Typed
<1> QED BY <1>1, LogInvariant, PTL

\* The chain Rollback follows from att_ visits every record of the transaction,
\* across flushes, checkpoints, crashes and identifiers given out twice.
THEOREM RollbackComplete == Spec => []RollbackVisitsAll
<1>1. Inv => RollbackVisitsAll
  <2> SUFFICES ASSUME Inv PROVE RollbackVisitsAll
    OBVIOUS
  <2>1. AttExact /\ Linked /\ running \subseteq Xid
    BY InvParts DEF Typed, TypeOK
  <2>2. \A x \in running : att_[x] # NULL_LSN /\ \A r \in Log : r.xid = x => r.lsn <= att_[x]
    BY <2>1 DEF AttExact, LastOpen
  <2>3. ASSUME NEW r \in Log, r.type \in DataType \cup EndType
        PROVE  /\ \E q \in Before(r) : q.lsn = r.prev /\ q.type \notin EndType
               /\ \A q \in Before(r) : q.lsn <= r.prev
    <3>1. LastOpen(Before(r), r.xid, r.prev)
      BY <2>1, <2>3 DEF Linked
    <3>2. \A q \in Before(r) : q.xid = r.xid
      BY DEF Before
    <3> QED BY <3>1, <3>2 DEF LastOpen
  <2> QED BY <2>2, <2>3 DEF RollbackVisitsAll
<1> QED BY <1>1, LogInvariant, PTL

\* No row and no new page in a table file is ahead of the log file.
THEOREM WritesAhead == Spec => []WriteAhead
<1>1. Inv => WriteAhead
  BY DEF Inv, PageInv
<1> QED BY <1>1, LogInvariant, PTL

\* At any moment, and with the dpt_ Analyze rebuilds after a crash, redo would
\* repeat every change that is missing from the page's file image, but for those
\* an earlier redo passed over and for the pages that were made twice.
THEOREM RedoComplete == Spec => []RedoCovers
<1>1. Inv => RedoCovers
  BY DEF Inv, PageInv, MissingCovered, RedoCovers
<1> QED BY <1>1, LogInvariant, PTL

\* The log file only grows, and a commit is answered when every record of the
\* transaction is in it.
THEOREM CommitsSurvive == Spec => CommitSurvives
<1>1. ASSUME Inv, [Next]_vars
      PROVE  [/\ disk_log \subseteq disk_log'
              /\ \A x \in Xid : Commit(x) => {r \in Log' : r.xid = x} \subseteq disk_log']_vars
  <2>1. disk_log \subseteq disk_log'
    BY <1>1, NextInv
  <2>2. ASSUME NEW x \in Xid, Commit(x)
        PROVE  {r \in Log' : r.xid = x} \subseteq disk_log'
    <3>1. Inv' /\ next_lsn_file' = next_lsn_'
      BY <1>1, <2>2, EndInv DEF Commit, EndType
    <3>2. \A r \in log_buffer_' : next_lsn_' <= r.lsn /\ r.lsn < next_lsn_'
      BY <3>1 DEF Inv, LogShape
    <3>3. next_lsn_' \in Nat /\ \A r \in log_buffer_' : r.lsn \in Nat
      BY <3>1, LogBounds DEF Inv, Typed, TypeOK, Log, Lsn, FIRST_LSN
    <3>4. log_buffer_' = {}
      BY <3>2, <3>3
    <3> QED BY <3>4 DEF Log
  <2> QED BY <2>1, <2>2
<1> QED BY <1>1, LogInvariant, PTL DEF Spec, CommitSurvives

\* After a crash at any moment att_ has a transaction that ran with its last
\* durable record, and none whose COMMIT or ROLLBACK is durable, on whichever
\* side of the checkpoint the records lie.
THEOREM LosersFound == Spec => RecoverFindsLosers
<1>1. ASSUME Inv, Crash, NEW x \in Xid, NEW r \in disk_log, r.xid = x,
             \A q \in disk_log : q.xid = x => q.lsn <= r.lsn
      PROVE  /\ r.type \in EndType => att_'[x] = NULL_LSN
             /\ x \in running /\ r.type \notin EndType /\ ~BeginUnwritten(x) => att_'[x] = r.lsn
  <2> DEFINE C == CheckpointEnd
  <2>1. /\ Typed /\ LogShape /\ AttExact /\ Linked /\ CheckpointAttExact /\ MasterAttComplete
    BY <1>1, InvParts
  <2>2. master_record # NULL_LSN /\ att_' = AnalyzedAtt
    BY <1>1 DEF Crash
  <2>3. /\ C \in disk_log /\ C.type = "END_CHECKPOINT" /\ C.lsn = master_record + 1
        /\ C.lsn \in Nat /\ (r.lsn < C.lsn \/ C.lsn < r.lsn)
    BY <1>1, <2>2, AnalyzeAtt
  <2>4. /\ \A q \in disk_log : q \in Log
        /\ \A q \in Log : q.lsn \in Nat /\ (q.lsn < next_lsn_file <=> q \in disk_log)
        /\ next_lsn_file \in Nat
    BY <2>1, LogFacts
  <2>5. CASE C.lsn < r.lsn
    <3>1. AnalyzedAtt[x] = IF r.type \in EndType THEN NULL_LSN ELSE r.lsn
      BY <1>1, <2>2, <2>5, AnalyzeAtt
    <3> QED BY <2>2, <3>1
  <2>6. CASE r.lsn < C.lsn
    <3>1. \A q \in disk_log : q.xid = x => q.lsn < C.lsn
      BY <1>1, <2>3, <2>4, <2>6
    <3>2. att_'[x] = C.att[x]
      BY <1>1, <2>2, <3>1, AnalyzeAtt
    <3>3. ASSUME r.type \in EndType, C.att[x] # NULL_LSN PROVE FALSE
      <4>1. LastOpen(UpTo(C.lsn), x, C.att[x])
        BY <2>1, <2>3, <2>4, <3>3 DEF CheckpointAttExact
      <4>2. PICK q \in UpTo(C.lsn) : q.xid = x /\ q.lsn = C.att[x] /\ q.type \notin EndType
        BY <4>1 DEF LastOpen
      <4>3. q \in disk_log /\ r \in UpTo(C.lsn)
        BY <2>3, <2>4, <2>6, <4>2 DEF UpTo
      <4>4. q.lsn <= r.lsn /\ r.lsn <= q.lsn
        BY <1>1, <4>1, <4>2, <4>3 DEF LastOpen
      <4>5. q.lsn = r.lsn
        BY <2>4, <4>3, <4>4
      <4>6. q = r
        BY <2>1, <2>4, <4>3, <4>5 DEF LogShape
      <4> QED BY <3>3, <4>2, <4>6
    <3>4. ASSUME x \in running, r.type \notin EndType, ~BeginUnwritten(x)
          PROVE  C.att[x] = r.lsn
      <4>1. att_[x] # NULL_LSN /\ LastOpen(Log, x, att_[x])
        BY <2>1, <3>4 DEF AttExact
      <4>2. CASE \A q \in Log : q.xid = x => q \in disk_log
        <5>1. \A q \in Log : q.xid = x => q.lsn < C.lsn
          BY <3>1, <4>2
        <5>2. C.att[x] = att_[x]
          BY <2>1, <2>3, <2>4, <4>1, <5>1 DEF MasterAttComplete
        <5>3. PICK q \in Log : q.xid = x /\ q.lsn = att_[x]
          BY <4>1 DEF LastOpen
        <5>4. q.lsn <= r.lsn /\ r.lsn <= q.lsn
          BY <1>1, <2>4, <4>1, <4>2, <5>3 DEF LastOpen
        <5> QED BY <2>4, <5>2, <5>3, <5>4
      <4>3. CASE \E q \in Log : q.xid = x /\ q \notin disk_log
        \* The first record of x that is not in the file continues r.
        <5> DEFINE S == {q.lsn : q \in {s \in log_buffer_ : s.xid = x}}
        <5>1. S # {} /\ S \subseteq Nat
          BY <2>4, <4>3 DEF Log
        <5>2. PICK m \in S : \A n \in S : m <= n
          <6> HIDE DEF S
          <6> QED BY <5>1, LeastExists
        <5>3. PICK b \in log_buffer_ : b.xid = x /\ b.lsn = m
          BY <5>2
        <5>4. b \in Log /\ b \notin disk_log /\ C.lsn < b.lsn /\ r.lsn < b.lsn
          <6>1. b \in Log /\ next_lsn_file <= b.lsn
            BY <2>1, <5>3 DEF LogShape, Log
          <6> QED BY <2>3, <2>4, <6>1
        <5>5. b.type \in DataType \cup EndType
          <6>1. b \in Record /\ b.type \notin CheckpointType
            BY <2>1, <5>3, <5>4 DEF Typed, Kinds
          <6>2. b.type # "BEGIN"
            BY <3>4, <5>3 DEF BeginUnwritten
          <6> QED BY <6>1, <6>2 DEF Record
        <5>6. LastOpen(Before(b), x, b.prev)
          BY <2>1, <5>3, <5>4, <5>5 DEF Linked
        <5>7. PICK q \in Before(b) : q.xid = x /\ q.lsn = b.prev
          BY <5>6 DEF LastOpen
        <5>8. q \in disk_log
          <6>1. q \in Log /\ q.lsn < b.lsn
            BY <5>7 DEF Before
          <6>2. ASSUME q \in log_buffer_ PROVE FALSE
            <7>1. q.lsn \in S
              BY <5>7, <6>2
            <7> HIDE DEF S
            <7>2. b.lsn <= q.lsn
              BY <5>2, <5>3, <7>1
            <7>3. b.lsn \in Nat /\ q.lsn \in Nat
              BY <2>4, <5>4, <6>1
            <7> QED BY <6>1, <7>2, <7>3
          <6> QED BY <6>1, <6>2 DEF Log
        <5>9. r \in Before(b)
          BY <1>1, <2>4, <5>3, <5>4 DEF Before
        <5>10. q.lsn <= r.lsn /\ r.lsn <= q.lsn
          BY <1>1, <5>6, <5>7, <5>8, <5>9 DEF LastOpen
        <5>11. b.prev = r.lsn
          BY <2>4, <5>7, <5>8, <5>10
        <5>12. C.att[x] = b.prev
          BY <2>1, <2>3, <2>4, <2>6, <5>3, <5>4, <5>5, <5>11 DEF MasterAttComplete
        <5> QED BY <5>11, <5>12
      <4> QED BY <4>2, <4>3
    <3> QED BY <3>2, <3>3, <3>4
  <2> QED BY <2>3, <2>5, <2>6
<1>2. ASSUME Inv, [Next]_vars
      PROVE  [Crash =>
                \A x \in Xid, r \in disk_log :
                  r.xid = x /\ (\A q \in disk_log : q.xid = x => q.lsn <= r.lsn) =>
                    /\ r.type \in EndType => att_'[x] = NULL_LSN
                    /\ x \in running /\ r.type \notin EndType /\ ~BeginUnwritten(x) =>
                         att_'[x] = r.lsn]_vars
  BY <1>1, <1>2
<1> QED BY <1>2, LogInvariant, PTL DEF Spec, RecoverFindsLosers
============================================================================
