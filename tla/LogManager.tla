----------------------------- MODULE LogManager -----------------------------
(***************************************************************************)
(* The write-ahead log of HuaDB (log/log_manager.cpp): appending, flushing, *)
(* checkpoints, a crash at any moment, and the analysis phase that rebuilds *)
(* the active transaction table att_ and the dirty page table dpt_ when the *)
(* database restarts.  Redo is here for what it does to dpt_ and to the    *)
(* images of the pages: reading a page it may push out another one it has  *)
(* changed, whose dpt_ entry goes (log_manager.cpp:176), and the records   *)
(* of that page still to come are passed over (:462).                      *)
(*                                                                         *)
(* One statement runs at a time.  An lsn is the position of a record in    *)
(* the log, counted in records; NULL_LSN is the largest value of lsn_t.    *)
(* log_buffer_ and the log file are sets of records: each record is looked *)
(* up, written and erased by its lsn.  Pages are those of one table.       *)
(* Which page a statement writes is the table's business: any may be.  A   *)
(* page has one frame; see Remade for the pages that may have two.         *)
(***************************************************************************)
EXTENDS Integers

CONSTANTS
  MaxLsn,      \* bound on the records of the log
  MaxXid,      \* bound on the transactions
  MaxPage      \* last page of the table

\* The log has room for the checkpoint of a clean shutdown.
ASSUME LogBounds == MaxLsn \in Nat \ {0} /\ MaxXid \in Nat /\ MaxPage \in Nat

FIRST_LSN == 0
NULL_LSN == MaxLsn + 2    \* also: no entry in att_, dpt_ or the master record
NULL_XID == MaxXid + 1
NULL_PAGE == MaxPage + 1

Xid == 1 .. MaxXid
Page == 0 .. MaxPage
Lsn == FIRST_LSN .. MaxLsn + 1
LsnOrNull == Lsn \cup {NULL_LSN}

Att == [Xid \cup {NULL_XID} -> LsnOrNull]
Dpt == [Page -> LsnOrNull]
EmptyAtt == [x \in Xid \cup {NULL_XID} |-> NULL_LSN]
EmptyDpt == [p \in Page |-> NULL_LSN]

VARIABLES
  next_lsn_,
  flushed_lsn_,
  log_buffer_,      \* records not yet written
  att_,             \* lsn of the last record of each active transaction
  dpt_,             \* recovery lsn of each dirty page
  disk_log,         \* the log file
  next_lsn_file,    \* NEXT_LSN_NAME
  master_record,    \* MASTER_RECORD_NAME
  control_xid,      \* the xid in CONTROL_NAME
  pending,          \* checkpoint flushed, master record not yet written
  next_xid_,        \* the transaction manager's counter
  running,          \* the transaction manager's active transactions
  pageLsn,          \* page lsn of each page as the buffer pool has it
  diskLsn,          \* page lsn of each page in the table file
  stored,           \* history: lsns of the changes in each page's file image
  skipped           \* history: lsns of the changes some redo passed over

logVars == <<next_lsn_, flushed_lsn_, log_buffer_, disk_log, next_lsn_file>>
fileVars == <<diskLsn, stored, skipped>>
pageVars == <<pageLsn, diskLsn, stored, skipped>>
xactVars == <<next_xid_, running>>
vars == <<next_lsn_, flushed_lsn_, log_buffer_, att_, dpt_, disk_log, next_lsn_file,
          master_record, control_xid, pending, next_xid_, running, pageLsn, diskLsn, stored,
          skipped>>

----------------------------------------------------------------------------
(* Records.                                                                *)

PrevPage(p) == IF p = 0 THEN NULL_PAGE ELSE p - 1

LogRecord(type, lsn, xid, prev_lsn, page) ==
  [type |-> type, lsn |-> lsn, xid |-> xid, prev |-> prev_lsn, page |-> page,
   att |-> EmptyAtt, dpt |-> EmptyDpt]

EndCheckpointLog(lsn, att, dpt) ==
  [type |-> "END_CHECKPOINT", lsn |-> lsn, xid |-> NULL_XID, prev |-> NULL_LSN,
   page |-> NULL_PAGE, att |-> att, dpt |-> dpt]

CheckpointLogs(lsn, att, dpt) ==
  {LogRecord("BEGIN_CHECKPOINT", lsn, NULL_XID, NULL_LSN, NULL_PAGE),
   EndCheckpointLog(lsn + 1, att, dpt)}

\* ROW stands for InsertLog and DeleteLog, which the log manager treats alike.
DataType == {"ROW", "NEW_PAGE"}
EndType == {"COMMIT", "ROLLBACK"}

Log == disk_log \cup log_buffer_

Lsns(log) == {r.lsn : r \in log}

\* The changes of page p.  NewPageLog also stands for the link in the page
\* before the new one, a change of that page that no page lsn tells of.
ChangesOf(p) == Lsns({r \in Log : r.type \in DataType /\ r.page = p})

----------------------------------------------------------------------------
(* Flush.                                                                  *)

Greatest(S) == CHOOSE m \in S : \A n \in S : n <= m
Least(S) == CHOOSE m \in S : \A n \in S : m <= n

\* The records of a buffer that Flush(lsn) writes.
Written(buffer, lsn) == {r \in buffer : lsn = NULL_LSN \/ r.lsn <= lsn}

\* Mutant of Flush: flushed_lsn_ becomes the argument.
FlushSetsArgument(buffer, lsn) ==
  LET written == Written(buffer, lsn)
      max_lsn == IF lsn = NULL_LSN THEN Greatest(Lsns(written)) ELSE lsn
  IN
  /\ disk_log' = {r \in disk_log : r.lsn \notin Lsns(written)} \cup written
  /\ log_buffer_' = buffer \ written
  /\ flushed_lsn_' = max_lsn
  /\ next_lsn_file' = IF max_lsn + 1 > next_lsn_file THEN max_lsn + 1 ELSE next_lsn_file

\* Flush(lsn), the log buffer being as given.
Flush(buffer, lsn) ==
  LET written == Written(buffer, lsn)
      max_lsn == Greatest(Lsns(written))
      advance == written # {} /\ (flushed_lsn_ = NULL_LSN \/ max_lsn > flushed_lsn_)
  IN
  /\ disk_log' = {r \in disk_log : r.lsn \notin Lsns(written)} \cup written
  /\ log_buffer_' = buffer \ written
  /\ flushed_lsn_' = IF advance THEN max_lsn ELSE flushed_lsn_
  /\ next_lsn_file' = IF advance /\ max_lsn + 1 > next_lsn_file THEN max_lsn + 1 ELSE next_lsn_file

----------------------------------------------------------------------------

\* The start in an empty directory, and the one after a clean shutdown, when
\* the log holds at least that shutdown's checkpoint.
Init ==
  /\ \/ /\ next_lsn_ = FIRST_LSN /\ flushed_lsn_ = NULL_LSN
        /\ disk_log = {} /\ master_record = NULL_LSN
     \/ /\ next_lsn_ = 2 /\ flushed_lsn_ = 1
        /\ disk_log = CheckpointLogs(0, EmptyAtt, EmptyDpt) /\ master_record = 0
  /\ log_buffer_ = {}
  /\ att_ = EmptyAtt
  /\ dpt_ = EmptyDpt
  /\ next_lsn_file = next_lsn_
  /\ control_xid = 1
  /\ pending = NULL_LSN
  /\ next_xid_ = 1
  /\ running = {}
  /\ pageLsn = [p \in Page |-> 0]
  /\ diskLsn = [p \in Page |-> 0]
  /\ stored = [p \in Page |-> {}]
  /\ skipped = [p \in Page |-> {}]

\* Room for the next record.
Room(n) == next_lsn_ + n <= MaxLsn + 1 /\ pending = NULL_LSN

\* One record joins the buffer.
Append(record) ==
  /\ log_buffer_' = log_buffer_ \cup {record}
  /\ next_lsn_' = next_lsn_ + 1
  /\ UNCHANGED <<flushed_lsn_, disk_log, next_lsn_file>>

\* DatabaseEngine::Begin.  When att_ already has the transaction id,
\* AppendBeginLog throws and leaves a transaction without BEGIN record.
Begin ==
  /\ Room(1) /\ next_xid_ \in Xid
  /\ next_xid_' = next_xid_ + 1
  /\ running' = running \cup {next_xid_}
  /\ IF att_[next_xid_] = NULL_LSN
       THEN /\ Append(LogRecord("BEGIN", next_lsn_, next_xid_, NULL_LSN, NULL_PAGE))
            /\ att_' = [att_ EXCEPT ![next_xid_] = next_lsn_]
       ELSE UNCHANGED <<logVars, att_>>
  /\ UNCHANGED <<dpt_, master_record, control_xid, pending, pageVars>>

\* Mutant of Dirtied: the recovery lsn follows the last change.
DirtiedLast(pages) ==
  [p \in Page |-> IF p \in pages THEN next_lsn_ ELSE dpt_[p]]

\* The page becomes dirty: its recovery lsn is the first change since it was
\* last written.
Dirtied(pages) ==
  [p \in Page |-> IF p \in pages /\ dpt_[p] = NULL_LSN THEN next_lsn_ ELSE dpt_[p]]

\* AppendInsertLog and AppendDeleteLog, and SetPageLSN by the caller.
AppendRowLog(xid, page) ==
  /\ Room(1) /\ xid \in running /\ att_[xid] # NULL_LSN
  /\ Append(LogRecord("ROW", next_lsn_, xid, att_[xid], page))
  /\ att_' = [att_ EXCEPT ![xid] = next_lsn_]
  /\ dpt_' = Dirtied({page})
  /\ pageLsn' = [pageLsn EXCEPT ![page] = next_lsn_]
  /\ UNCHANGED <<master_record, control_xid, pending, xactVars, fileVars>>

\* Mutant of AppendNewPageLog: att_ is not updated.
NewPageOffChain(xid, page) ==
  /\ Room(1) /\ xid \in running /\ att_[xid] # NULL_LSN
  /\ Append(LogRecord("NEW_PAGE", next_lsn_, xid, att_[xid], page))
  /\ dpt_' = Dirtied({page, PrevPage(page)})
  /\ pageLsn' = [pageLsn EXCEPT ![page] = next_lsn_]
  /\ UNCHANGED <<att_, master_record, control_xid, pending, xactVars, fileVars>>

\* AppendNewPageLog; no caller passes DDL_XID.
AppendNewPageLog(xid, page) ==
  /\ Room(1) /\ xid \in running /\ att_[xid] # NULL_LSN
  /\ Append(LogRecord("NEW_PAGE", next_lsn_, xid, att_[xid], page))
  /\ att_' = [att_ EXCEPT ![xid] = next_lsn_]
  /\ dpt_' = Dirtied({page, PrevPage(page)})
  /\ pageLsn' = [pageLsn EXCEPT ![page] = next_lsn_]
  /\ UNCHANGED <<master_record, control_xid, pending, xactVars, fileVars>>

\* Mutant of End: the record stays in the buffer.
EndWithoutFlush(type, xid) ==
  /\ Room(1) /\ xid \in running /\ att_[xid] # NULL_LSN
  /\ Append(LogRecord(type, next_lsn_, xid, att_[xid], NULL_PAGE))
  /\ att_' = [att_ EXCEPT ![xid] = NULL_LSN]
  /\ running' = running \ {xid}
  /\ UNCHANGED <<dpt_, master_record, control_xid, pending, next_xid_, pageVars>>

\* AppendCommitLog or AppendRollbackLog, then the transaction manager forgets
\* the transaction.
End(type, xid) ==
  /\ Room(1) /\ xid \in running /\ att_[xid] # NULL_LSN
  /\ next_lsn_' = next_lsn_ + 1
  /\ Flush(log_buffer_ \cup {LogRecord(type, next_lsn_, xid, att_[xid], NULL_PAGE)}, next_lsn_)
  /\ att_' = [att_ EXCEPT ![xid] = NULL_LSN]
  /\ running' = running \ {xid}
  /\ UNCHANGED <<dpt_, master_record, control_xid, pending, next_xid_, pageVars>>

Commit(xid) == End("COMMIT", xid)

\* Where LogManager::Rollback looks for a record: in the buffer or on disk.
LooksInBuffer(lsn) == lsn > flushed_lsn_

\* Rollback reads the transaction's records, undoing each, and then ends it.
\* It returns only when every record is found where it is looked for.
Rollback(xid) ==
  /\ \A r \in Log : r.xid = xid => (LooksInBuffer(r.lsn) <=> r \in log_buffer_)
  /\ End("ROLLBACK", xid)

\* Mutant of FlushPage: the page is written ahead of the log.
FlushPageFirst(page) ==
  /\ pending = NULL_LSN
  /\ dpt_' = [dpt_ EXCEPT ![page] = NULL_LSN]
  /\ stored' = [stored EXCEPT ![page] = ChangesOf(page) \ skipped[page]]
  /\ diskLsn' = [diskLsn EXCEPT ![page] = pageLsn[page]]
  /\ UNCHANGED <<logVars, att_, master_record, control_xid, pending, xactVars, pageLsn, skipped>>

\* BufferPool::FlushPage of a dirty page: the log up to the page lsn, then the
\* page.
FlushPage(page) ==
  /\ pending = NULL_LSN
  /\ Flush(log_buffer_, pageLsn[page])
  /\ dpt_' = [dpt_ EXCEPT ![page] = NULL_LSN]
  /\ stored' = [stored EXCEPT ![page] = ChangesOf(page) \ skipped[page]]
  /\ diskLsn' = [diskLsn EXCEPT ![page] = pageLsn[page]]
  /\ UNCHANGED <<next_lsn_, att_, master_record, control_xid, pending, xactVars, pageLsn, skipped>>

\* Checkpoint up to its Flush.
Checkpoint ==
  /\ Room(2)
  /\ next_lsn_' = next_lsn_ + 2
  /\ Flush(log_buffer_ \cup CheckpointLogs(next_lsn_, att_, dpt_), next_lsn_ + 1)
  /\ pending' = next_lsn_
  /\ UNCHANGED <<att_, dpt_, master_record, control_xid, xactVars, pageVars>>

\* The rest of Checkpoint: only a crash can come between.
WriteMasterRecord ==
  /\ pending # NULL_LSN
  /\ master_record' = pending
  /\ pending' = NULL_LSN
  /\ UNCHANGED <<logVars, att_, dpt_, control_xid, xactVars, pageVars>>

\* CloseDatabase (flush the dirty pages and the log, checkpoint, control file)
\* and a new engine on what it left.  A page with changes that are not in its
\* file image is dirty; others may be (a link, an undone row).
Restart ==
  /\ Room(2)
  /\ \E dirty \in SUBSET Page :
       LET left == [p \in Page |-> IF p \in dirty THEN NULL_LSN ELSE dpt_[p]] IN
       /\ \A p \in Page \ dirty : ChangesOf(p) \ skipped[p] \subseteq stored[p]
       /\ Flush(log_buffer_ \cup CheckpointLogs(next_lsn_, att_, left), NULL_LSN)
       /\ stored' = [p \in Page |-> IF p \in dirty THEN ChangesOf(p) \ skipped[p] ELSE stored[p]]
       /\ diskLsn' = [p \in Page |-> IF p \in dirty THEN pageLsn[p] ELSE diskLsn[p]]
       /\ pageLsn' = diskLsn'
  /\ next_lsn_' = next_lsn_ + 2
  /\ master_record' = next_lsn_
  /\ control_xid' = next_xid_
  /\ att_' = EmptyAtt
  /\ dpt_' = EmptyDpt
  /\ running' = {}
  /\ UNCHANGED <<pending, next_xid_, skipped>>

----------------------------------------------------------------------------
(* Analyze: the checkpoint the master record points to, and what the log   *)
(* file holds after it.                                                    *)

CheckpointEnd == CHOOSE r \in disk_log : r.lsn = master_record + 1

AfterCheckpoint == {r \in disk_log : master_record + 1 < r.lsn /\ r.lsn < next_lsn_file}

\* Mutant of AnalyzedAtt: the checkpoint's att_ is not used.
AnalyzedAttLaterOnly ==
  [x \in Xid \cup {NULL_XID} |->
     LET later == {r \in AfterCheckpoint : r.xid = x}
         last == CHOOSE r \in later : r.lsn = Greatest(Lsns(later))
     IN  IF later = {} \/ last.type \in EndType THEN NULL_LSN ELSE last.lsn]

AnalyzedAtt ==
  [x \in Xid \cup {NULL_XID} |->
     LET later == {r \in AfterCheckpoint : r.xid = x}
         last == CHOOSE r \in later : r.lsn = Greatest(Lsns(later))
     IN  IF later = {} THEN CheckpointEnd.att[x]
         ELSE IF last.type \in EndType THEN NULL_LSN ELSE last.lsn]

AnalyzedDpt ==
  [p \in Page |->
     LET later == {r \in AfterCheckpoint : r.type \in DataType /\ r.page = p}
     IN  IF CheckpointEnd.dpt[p] # NULL_LSN \/ later = {} THEN CheckpointEnd.dpt[p]
         ELSE Least(Lsns(later))]

\* Mutant of AnalyzedXid: the checkpoint records' xid counts.
AnalyzedXidNoWrap ==
  LET xids == {r.xid : r \in AfterCheckpoint} IN
  IF xids = {} THEN 1 ELSE Greatest(xids) + 1

\* xid_max + 1, in the 32 bits of xid_t: NULL_XID + 1 is 0.
AnalyzedXid ==
  LET xids == {r.xid : r \in AfterCheckpoint} IN
  IF xids = {} THEN 1 ELSE IF NULL_XID \in xids THEN 0 ELSE Greatest(xids) + 1

----------------------------------------------------------------------------
(* Redo with the dirty page table dpt.  cut[p] is the lsn of the record at *)
(* which the pool pushes page p out, changed by then; it is NULL_LSN, above*)
(* every lsn, when that does not happen.                                   *)

\* Redo comes to a record of the log file and finds its page in dpt_.
Reached(r, dpt, cut) ==
  /\ r.type \in DataType
  /\ dpt[r.page] # NULL_LSN /\ dpt[r.page] <= r.lsn
  /\ r.lsn < cut[r.page]

ReachedOf(p, dpt, cut) == {r \in disk_log : Reached(r, dpt, cut) /\ r.page = p}

\* NewPageLog::Redo starts the page anew, with page lsn 0.
Reinit(p, dpt, cut) == \E r \in ReachedOf(p, dpt, cut) : r.type = "NEW_PAGE"

\* Redo has changed page p before it comes to cut[p]: by a record of the page,
\* or by the link a later page's NewPageLog sets in it.
Changed(p, dpt, cut) ==
  \/ \E r \in ReachedOf(p, dpt, cut) : r.type = "NEW_PAGE" \/ r.lsn > diskLsn[p]
  \/ \E r \in disk_log : /\ Reached(r, dpt, cut) /\ r.lsn < cut[p]
                          /\ r.type = "NEW_PAGE" /\ PrevPage(r.page) = p

\* What is left of a page's file image when its records before cut[p] are done.
Kept(p, dpt, cut) == {lsn \in stored[p] : Reinit(p, dpt, cut) => lsn < cut[p]}

\* Redo, and what it leaves of dpt_, of the pages and of their file images.  It
\* sets no page lsn but the 0 of a new page.
Redo(dpt, cut) ==
  LET out == {p \in Page : cut[p] # NULL_LSN} IN
  /\ \A p \in out : Changed(p, dpt, cut)
  /\ dpt_' = [p \in Page |-> IF p \in out THEN NULL_LSN ELSE dpt[p]]
  /\ pageLsn' = [p \in Page |-> IF Reinit(p, dpt, cut) THEN 0 ELSE diskLsn[p]]
  /\ diskLsn' = [p \in Page |-> IF p \in out THEN pageLsn'[p] ELSE diskLsn[p]]
  /\ stored' = [p \in Page |->
       IF p \in out THEN Kept(p, dpt, cut) \cup (Lsns(ReachedOf(p, dpt, cut)) \ skipped[p])
       ELSE stored[p]]
  /\ skipped' = [p \in Page |->
       skipped[p] \cup Lsns({r \in disk_log : /\ r.type \in DataType /\ r.page = p /\ r.lsn >= cut[p]
                                             /\ r.lsn \notin Kept(p, dpt, cut)})]

\* The process dies: the log buffer, the buffer pool and the transactions are
\* gone.  The next start recovers.  Without a master record Analyze parses the
\* first records as a checkpoint, which is undefined and left out.  A page that
\* Undo pushes out is one FlushPage writes after this step.
Crash ==
  /\ master_record # NULL_LSN
  /\ log_buffer_' = {}
  /\ next_lsn_' = next_lsn_file
  /\ flushed_lsn_' = next_lsn_file - 1
  /\ att_' = AnalyzedAtt
  /\ LET dpt == AnalyzedDpt
         read == Lsns({r \in disk_log : r.type \in DataType})
     IN  \E cut \in [Page -> read \cup {NULL_LSN}] : Redo(dpt, cut)
  /\ next_xid_' = IF AnalyzedXid > control_xid THEN AnalyzedXid ELSE control_xid
  /\ running' = {}
  /\ pending' = NULL_LSN
  /\ UNCHANGED <<disk_log, next_lsn_file, master_record, control_xid>>

Next ==
  \/ Begin
  \/ \E xid \in Xid, page \in Page :
       AppendRowLog(xid, page) \/ AppendNewPageLog(xid, page)
  \/ \E xid \in Xid : Commit(xid) \/ Rollback(xid)
  \/ \E page \in Page : FlushPage(page)
  \/ Checkpoint \/ WriteMasterRecord \/ Restart \/ Crash

Spec == Init /\ [][Next]_vars

----------------------------------------------------------------------------

\* The state keeps its shape and the counters stay off their NULL values, also
\* those recovery computes from what it finds in the log file.
TypeOK ==
  /\ next_lsn_ \in Lsn /\ next_lsn_file \in Lsn
  /\ flushed_lsn_ \in LsnOrNull
  /\ att_ \in Att /\ dpt_ \in Dpt
  /\ \A r \in Log :
       /\ r.lsn \in Lsn /\ r.prev \in LsnOrNull
       /\ r.xid \in Xid \cup {NULL_XID} /\ r.page \in Page \cup {NULL_PAGE}
  /\ master_record \in LsnOrNull /\ pending \in LsnOrNull
  /\ control_xid \in 1 .. MaxXid + 1 /\ next_xid_ \in 1 .. MaxXid + 1
  /\ running \subseteq Xid
  /\ pageLsn \in [Page -> Lsn] /\ diskLsn \in [Page -> Lsn]
  /\ stored \in [Page -> SUBSET Lsn] /\ skipped \in [Page -> SUBSET Lsn]

\* The log is split without gap or overlap at flushed_lsn_: Rollback and Redo
\* find every record in the one of the two places where comparing its lsn with
\* flushed_lsn_ makes them look ("whether the log record is in the buffer or on
\* disk is decided by comparing lsn and flushed_lsn_", log_manager.cpp:182).
\* Not so in a new database before the first flush: flushed_lsn_ is NULL_LSN,
\* every lsn compares as on disk, and the file is empty.
RecordsFound ==
  flushed_lsn_ # NULL_LSN => \A lsn \in FIRST_LSN .. next_lsn_ - 1 :
    \E r \in Log : r.lsn = lsn /\ (LooksInBuffer(lsn) <=> r \in log_buffer_)
                                /\ \A q \in Log : q.lsn = lsn => q = r

\* The state keeps its shape, the transaction counter in its range included,
\* and Rollback and Redo find their records where they look for them.
LogInv == TypeOK /\ RecordsFound

\* The earlier records of a record's transaction.
Before(r) == {q \in Log : q.xid = r.xid /\ q.lsn < r.lsn}

\* The prev_lsn chain Rollback follows from att_ visits every record of the
\* transaction, whatever was flushed, checkpointed or lost in between.
RollbackVisitsAll ==
  /\ \A x \in running : att_[x] # NULL_LSN /\ \A r \in Log : r.xid = x => r.lsn <= att_[x]
  /\ \A r \in Log : r.type \in DataType \cup EndType =>
       /\ \E q \in Before(r) : q.lsn = r.prev /\ q.type \notin EndType
       /\ \A q \in Before(r) : q.lsn <= r.prev

\* The write-ahead rule for the rows and the creation of a page: every such
\* change in a page's file image is in the log file.  The link in the page
\* before a new one is set without a page lsn (table.cpp:121, 127): it may be
\* in the file ahead of its record, which TableHeap counts among its gaps.
WriteAhead == \A p \in Page : stored[p] \subseteq Lsns(disk_log)

\* Redo applies a record of a page in dpt_ from its recovery lsn on.
InRedoRange(r) == dpt_[r.page] # NULL_LSN /\ dpt_[r.page] <= r.lsn

\* A page is made again when the rollback of the transaction that made it has
\* unlinked it (new_page_log.cpp:49, table.cpp:130).  It may then be in two
\* frames (BufferPool), and the older one, written, takes the dpt_ entry.
Remade(p) ==
  \E q, r \in Log : q # r /\ q.type = "NEW_PAGE" /\ r.type = "NEW_PAGE" /\ q.page = p /\ r.page = p

\* Redo would repeat every change that is missing from the page's file image,
\* at any moment, across checkpoints, page flushes and earlier crashes - but for
\* the changes an earlier redo passed over when it had to push the page out,
\* and for the pages that were made twice.
RedoCovers ==
  \A r \in Log :
    r.type \in DataType /\ r.lsn \notin stored[r.page] \cup skipped[r.page] /\ ~Remade(r.page) =>
      InRedoRange(r) /\ (r.type = "NEW_PAGE" \/ r.lsn > diskLsn[r.page])

\* What is in the log file stays there, although a crash sets the lsn counter
\* back, and a commit is not answered before all records of the transaction
\* are in the file.
CommitSurvives ==
  [][/\ disk_log \subseteq disk_log'
     /\ \A x \in Xid : Commit(x) => {r \in Log' : r.xid = x} \subseteq disk_log']_vars

\* The counter may give an identifier out twice (log_manager.cpp:352): while the
\* BEGIN of a transaction is in the buffer, what the file holds under its
\* identifier is an earlier one's.
BeginUnwritten(x) == \E r \in log_buffer_ : r.xid = x /\ r.type = "BEGIN"

\* Analyze finds the losers: a transaction that ran at the crash is in att_
\* with its last durable record, a transaction with a durable COMMIT or
\* ROLLBACK is not - also when its records lie before the checkpoint.
RecoverFindsLosers ==
  [][Crash =>
       \A x \in Xid, r \in disk_log :
         r.xid = x /\ (\A q \in disk_log : q.xid = x => q.lsn <= r.lsn) =>
           /\ r.type \in EndType => att_'[x] = NULL_LSN
           /\ x \in running /\ r.type \notin EndType /\ ~BeginUnwritten(x) =>
                att_'[x] = r.lsn]_vars
============================================================================
