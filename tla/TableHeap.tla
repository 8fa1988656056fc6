----------------------------- MODULE TableHeap -----------------------------
(***************************************************************************)
(* The pages of one table of HuaDB under the write-ahead log: inserting    *)
(* and deleting rows (table/table.cpp, table/table_page.cpp), rolling back, *)
(* and what Redo and Undo do to the pages after a crash (the Redo and Undo *)
(* of log/log_records/, LogManager::Recover).                              *)
(*                                                                         *)
(* An lsn is a position in log, checkpoint records not counted; a row is   *)
(* named by the lsn of its InsertLog, or by a number below 0 when it was   *)
(* there at the start.  All rows have one size, and Capacity of them fill  *)
(* a page.  The records of a transaction are all on its prev_lsn chain and *)
(* all found (RollbackVisitsAll and RecordsFound of LogManager), so undo   *)
(* is a walk over them from the last to the first.                         *)
(*                                                                         *)
(* Recovery is right only within limits, found with this model.  Where a   *)
(* step leaves them it records the reason in gaps and the behaviour ends.  *)
(***************************************************************************)
EXTENDS Integers, Sequences, Functions, FiniteSets

CONSTANTS
  Capacity,   \* rows of a page
  MaxPage,    \* bound: last page of the table
  MaxXid,     \* bound on the transactions
  MaxLsn      \* bound on the records of the log

ASSUME HeapBounds == Capacity \in Nat \ {0} /\ MaxPage \in Nat /\ MaxXid \in Nat /\ MaxLsn \in Nat

NULL_XID == 0
NULL_PAGE_ID == MaxPage + 1
NoLsn == 0      \* no entry in dpt_; the page lsn of a fresh page

Xid == 1 .. MaxXid
PageId == 0 .. MaxPage
NoPage == [lsn |-> NoLsn, next |-> NULL_PAGE_ID, slots |-> <<>>, exists |-> FALSE]
Blank == [NoPage EXCEPT !.exists = TRUE]      \* TablePage::Init

VARIABLES
  pages,        \* each page as the buffer pool has it
  disk,         \* each page as the table file has it
  log,
  flushed_lsn_,
  att_,         \* the transactions in it
  dpt_,         \* recovery lsn of each dirty page
  checkpoint,   \* position, att_ and dpt_ of the last checkpoint
  active,       \* the transactions of the transaction manager
  next_xid_,
  control_xid,  \* next_xid_ in the control file
  undone,       \* history: pages with undo changes of a rollback not yet on disk
  initial,      \* history: rows at the start
  gaps          \* history: why recovery is no longer right

logVars == <<log, flushed_lsn_>>
xactVars == <<active, next_xid_, control_xid>>
vars == <<pages, disk, log, flushed_lsn_, att_, dpt_, checkpoint, active, next_xid_,
          control_xid, undone, initial, gaps>>

----------------------------------------------------------------------------
(* Pages.                                                                  *)

Slot(row, xid) == [row |-> row, xmin |-> xid, xmax |-> NULL_XID]

\* A set of pages with the first one that the links of the pages in through do
\* not lead out of.
Closed(pg, through, S) ==
  /\ 0 \in S
  /\ \A p \in S \cap through : pg[p].next \in S \cup {NULL_PAGE_ID}

\* The pages a walk from the first page comes to when it goes on behind the
\* pages in through: the smallest such set.
Reached(pg, through) ==
  {p \in PageId : pg[0].exists /\ \A S \in SUBSET PageId : Closed(pg, through, S) => p \in S}

\* The pages a scan visits.
Chain(pg) == Reached(pg, PageId)

SlotsOf(pg) == UNION {Range(pg[p].slots) : p \in Chain(pg)}

\* Mutant of HasRoom: the space of the slot itself is forgotten.
HasRoomForOneMore(page) == Len(page.slots) <= Capacity

HasRoom(page) == Len(page.slots) < Capacity

\* TablePage::InsertRecord and RedoInsertRecord: one more slot.
Appended(page, slot) == [page EXCEPT !.slots = Append(@, slot)]

\* TablePage::DeleteRecord; UndoDeleteRecord passes NULL_XID.
SetXmax(pg, r, xid) == [pg EXCEPT ![r.page].slots[r.slot].xmax = xid]

----------------------------------------------------------------------------
(* The log.                                                                *)

NextLsn == Len(log) + 1

LogRecord(type, xid) ==
  [type |-> type, xid |-> xid, page |-> NULL_PAGE_ID, prev |-> NULL_PAGE_ID, slot |-> 0, row |-> 0]
NewPageLog(xid, prev_page, page) ==
  [LogRecord("NEW_PAGE", xid) EXCEPT !.page = page, !.prev = prev_page]
InsertLog(xid, page, slot) ==
  [LogRecord("INSERT", xid) EXCEPT !.page = page, !.slot = slot]
\* row is not in the code's record.
DeleteLog(xid, page, slot) ==
  [LogRecord("DELETE", xid) EXCEPT !.page = page, !.slot = slot,
                                   !.row = pages[page].slots[slot].row]

\* dpt_ keeps the lsn of the first change.
Dirtied(dpt, dirty, lsn) ==
  [p \in PageId |-> IF p \in dirty /\ dpt[p] = NoLsn THEN lsn ELSE dpt[p]]

OfType(lg, xid, type) == \E n \in DOMAIN lg : lg[n].xid = xid /\ lg[n].type = type
Committed(lg) == {x \in Xid : OfType(lg, x, "COMMIT")}
RolledBack(lg) == {x \in Xid : OfType(lg, x, "ROLLBACK")}

----------------------------------------------------------------------------
(* Undo.                                                                   *)

\* Mutant of UndoRecord: the deletion mark is cleared, xmax is kept.
UndoKeepsXmax(r, pg) ==
  CASE r.type = "INSERT" -> SetXmax(pg, r, r.xid)
    [] r.type = "DELETE" -> pg
    [] r.type = "NEW_PAGE" /\ r.prev # NULL_PAGE_ID ->
         [pg EXCEPT ![r.prev].next = pg[r.page].next]
    [] OTHER -> pg

\* InsertLog::Undo, DeleteLog::Undo, NewPageLog::Undo: nothing is logged, no
\* page lsn is set and no page enters dpt_.
UndoRecord(r, pg) ==
  CASE r.type = "INSERT" -> SetXmax(pg, r, r.xid)
    [] r.type = "DELETE" -> SetXmax(pg, r, NULL_XID)
    [] r.type = "NEW_PAGE" /\ r.prev # NULL_PAGE_ID ->
         [pg EXCEPT ![r.prev].next = pg[r.page].next]
    [] OTHER -> pg

RecordsOf(lg, xid) == {lg[n] : n \in {k \in DOMAIN lg : lg[k].xid = xid}}

\* LogManager::Rollback: undo[n] has undone what xid logged after n.
RolledBackPages(pg, lg, xid) ==
  LET undo[n \in 0 .. Len(lg)] ==
        IF n = Len(lg) THEN pg
        ELSE IF lg[n + 1].xid = xid THEN UndoRecord(lg[n + 1], undo[n + 1])
        ELSE undo[n + 1]
  IN  undo[0]

PagesOf(lg, xid) == UNION {{r.page, r.prev} \cap PageId : r \in RecordsOf(lg, xid)}

\* Where undoing xid goes wrong.
\* first page: Undo of the table's first page asks for page NULL_PAGE_ID.
\* unlinked: the page taken out of the chain holds rows of others.
\* undone again: the deletion taken back is by now another transaction's.
UndoGaps(pg, lg, xid) ==
  LET recs == RecordsOf(lg, xid) IN
  {g \in {"first page", "unlinked", "undone again"} :
     CASE g = "first page" -> \E r \in recs : r.type = "NEW_PAGE" /\ r.prev = NULL_PAGE_ID
       [] g = "unlinked" ->
            \E r \in recs : r.type = "NEW_PAGE" /\ \E s \in Range(pg[r.page].slots) : s.xmin # xid
       [] g = "undone again" ->
            \E r \in recs : r.type = "DELETE" /\ pg[r.page].slots[r.slot].xmax \notin {xid, NULL_XID}}

----------------------------------------------------------------------------
(* Running.                                                                *)

\* After a clean shutdown: an empty table, or a first page with some rows.
Init ==
  /\ initial \in 0 .. Capacity
  /\ pages = [p \in PageId |->
                IF p = 0 /\ initial > 0
                THEN [Blank EXCEPT !.slots = [i \in 1 .. initial |-> Slot(-i, NULL_XID)]]
                ELSE NoPage]
  /\ disk = pages
  /\ log = <<>>
  /\ flushed_lsn_ = 0
  /\ att_ = {}
  /\ dpt_ = [p \in PageId |-> NoLsn]
  /\ checkpoint = [pos |-> 0, att |-> {}, dpt |-> dpt_]
  /\ active = {}
  /\ next_xid_ = 1 /\ control_xid = 1
  /\ undone = {}
  /\ gaps = {}

\* Begin.  The counter that recovery restored may run into the log's ids.
Begin ==
  /\ next_xid_ \in Xid /\ NextLsn <= MaxLsn
  /\ log' = Append(log, LogRecord("BEGIN", next_xid_))
  /\ att_' = att_ \cup {next_xid_}
  /\ active' = active \cup {next_xid_}
  /\ next_xid_' = next_xid_ + 1
  /\ gaps' = IF \E r \in Range(log) : r.xid = next_xid_ THEN {"xid"} ELSE {}
  /\ UNCHANGED <<pages, disk, flushed_lsn_, dpt_, checkpoint, control_xid, undone>>

\* The pages Table::InsertRecord looks at: it stops at the first with room.
Searched == Reached(pages, {p \in PageId : ~HasRoom(pages[p])})

\* The chain ends without room: a page after its last, whose link is set
\* first.  NewPageLog and InsertLog share one Append.
InsertInNewPage(xid) ==
  LET last == IF Searched = {} THEN NULL_PAGE_ID
              ELSE CHOOSE p \in Searched : pages[p].next = NULL_PAGE_ID
      new == IF Searched = {} THEN 0 ELSE last + 1
      linked == IF Searched = {} THEN pages ELSE [pages EXCEPT ![last].next = new]
      lsn == NextLsn + 1
  IN
  /\ \A p \in Searched : ~HasRoom(pages[p])
  /\ new \in PageId /\ lsn <= MaxLsn
  /\ pages' = [linked EXCEPT ![new] = [Blank EXCEPT !.lsn = lsn, !.slots = <<Slot(lsn, xid)>>]]
  /\ log' = log \o <<NewPageLog(xid, last, new), InsertLog(xid, new, 1)>>
  /\ dpt_' = Dirtied(dpt_, {new, last}, NextLsn)
  /\ gaps' = IF pages[new].exists THEN {"page in use"} ELSE {}

\* The first page of the chain that has room.
InsertInChain(xid) ==
  /\ NextLsn <= MaxLsn
  /\ \E page \in Searched :
       /\ HasRoom(pages[page])
       /\ pages' = [pages EXCEPT ![page] = [Appended(@, Slot(NextLsn, xid)) EXCEPT !.lsn = NextLsn]]
       /\ log' = Append(log, InsertLog(xid, page, Len(pages[page].slots) + 1))
       /\ dpt_' = Dirtied(dpt_, {page}, NextLsn)
  /\ UNCHANGED gaps

\* Table::InsertRecord.
InsertRecord(xid) ==
  /\ xid \in active
  /\ InsertInNewPage(xid) \/ InsertInChain(xid)
  /\ UNCHANGED <<disk, flushed_lsn_, att_, checkpoint, xactVars, undone>>

\* Table::DeleteRecord of a row the transaction sees; the row lock keeps other
\* writers away until it ends.
DeleteRecord(xid) ==
  /\ xid \in active /\ NextLsn <= MaxLsn
  /\ \E page \in Chain(pages) : \E slot \in DOMAIN pages[page].slots :
       LET s == pages[page].slots[slot]
           r == DeleteLog(xid, page, slot)
       IN
       /\ s.xmax = NULL_XID /\ s.xmin \notin active \ {xid}
       /\ pages' = [SetXmax(pages, r, xid) EXCEPT ![page].lsn = NextLsn]
       /\ log' = Append(log, r)
       /\ dpt_' = Dirtied(dpt_, {page}, NextLsn)
  /\ UNCHANGED <<disk, flushed_lsn_, att_, checkpoint, xactVars, undone, gaps>>

\* AppendCommitLog or AppendRollbackLog: the log is flushed up to the record.
End(type, xid) ==
  /\ xid \in active /\ NextLsn <= MaxLsn
  /\ log' = Append(log, LogRecord(type, xid))
  /\ flushed_lsn_' = NextLsn
  /\ att_' = att_ \ {xid}
  /\ active' = active \ {xid}
  /\ UNCHANGED <<disk, dpt_, checkpoint, next_xid_, control_xid>>

Commit(xid) == End("COMMIT", xid) /\ UNCHANGED <<pages, undone, gaps>>

Rollback(xid) ==
  /\ End("ROLLBACK", xid)
  /\ pages' = RolledBackPages(pages, log, xid)
  /\ undone' = undone \cup PagesOf(log, xid)
  /\ gaps' = UndoGaps(pages, log, xid)

\* BufferPool::FlushPage: the log up to the page lsn, then the page.
FlushPage(page) ==
  /\ pages[page] # disk[page]
  /\ flushed_lsn_' = IF pages[page].lsn > flushed_lsn_ THEN pages[page].lsn ELSE flushed_lsn_
  /\ disk' = [disk EXCEPT ![page] = pages[page]]
  /\ dpt_' = [dpt_ EXCEPT ![page] = NoLsn]
  /\ undone' = undone \ {page}
  /\ UNCHANGED <<pages, log, att_, checkpoint, xactVars, gaps>>

Checkpoint ==
  /\ flushed_lsn_' = Len(log)
  /\ checkpoint' = [pos |-> Len(log), att |-> att_, dpt |-> dpt_]
  /\ UNCHANGED <<pages, disk, log, att_, dpt_, xactVars, undone, gaps>>

\* CloseDatabase and a new engine on what it left.  Nothing rolls back the
\* transactions still open.
Restart ==
  /\ disk' = pages
  /\ flushed_lsn_' = Len(log)
  /\ checkpoint' = [pos |-> Len(log), att |-> att_,
                    dpt |-> [p \in PageId |-> IF pages[p] = disk[p] THEN dpt_[p] ELSE NoLsn]]
  /\ control_xid' = next_xid_
  /\ att_' = {}
  /\ dpt_' = [p \in PageId |-> NoLsn]
  /\ active' = {}
  /\ undone' = {}
  /\ gaps' = IF active = {} THEN {} ELSE {"open at shutdown"}
  /\ UNCHANGED <<pages, log, next_xid_>>

----------------------------------------------------------------------------
(* Recover.                                                                *)

Durable == SubSeq(log, 1, flushed_lsn_)

AfterCheckpoint == checkpoint.pos + 1 .. flushed_lsn_

AnalyzedAtt ==
  {x \in Xid : /\ x \in checkpoint.att \/ \E n \in AfterCheckpoint : log[n].xid = x
               /\ ~\E n \in AfterCheckpoint : log[n].xid = x /\ log[n].type \in {"COMMIT", "ROLLBACK"}}

\* The page before a new page is not added.
AnalyzedDpt ==
  [p \in PageId |->
     LET later == {n \in AfterCheckpoint : log[n].page = p} IN
     IF checkpoint.dpt[p] # NoLsn \/ later = {} THEN checkpoint.dpt[p]
     ELSE CHOOSE n \in later : \A k \in later : n <= k]

AnalyzedXid ==
  LET xids == {log[n].xid : n \in AfterCheckpoint} \cup {control_xid - 1} IN
  1 + (CHOOSE x \in xids : \A y \in xids : y <= x)

\* Redo of one record.  Pages are read from the table file; reading one that
\* is not there throws, out of the engine's constructor.  Redo sets no page
\* lsn.
\* Mutant of RedoNewPage: the page is made but not linked.
RedoNewPageUnlinked(pg, r) == [pg EXCEPT ![r.page] = Blank]

RedoNewPage(pg, r) ==
  LET next == IF r.prev = NULL_PAGE_ID THEN NULL_PAGE_ID ELSE pg[r.prev].next
      made == [pg EXCEPT ![r.page] = [Blank EXCEPT !.next = next]]
  IN  IF r.prev = NULL_PAGE_ID THEN made ELSE [made EXCEPT ![r.prev].next = r.page]

RedoInsert(pg, r, lsn) == [pg EXCEPT ![r.page] = Appended(@, Slot(lsn, r.xid))]

\* Mutant of InRange: the record at the recovery lsn itself is skipped.
InRangeStrict(dpt, lsn) == dpt[log[lsn].page] # NoLsn /\ lsn > dpt[log[lsn].page]

InRange(dpt, lsn) == dpt[log[lsn].page] # NoLsn /\ lsn >= dpt[log[lsn].page]

Repeats(state, lsn) ==
  /\ InRange(state.dpt, lsn)
  /\ log[lsn].type = "NEW_PAGE" \/ lsn > state.pages[log[lsn].page].lsn

\* The page Redo has to read for a record.
Needed(r) == IF r.type = "NEW_PAGE" /\ r.prev # NULL_PAGE_ID THEN r.prev ELSE r.page

Linked(pg, r) == r.type = "NEW_PAGE" /\ r.prev # NULL_PAGE_ID /\ pg[r.prev].next = r.page

\* Where repeating a record goes wrong.
\* unreadable: the page is not in the table file.
\* repeated: the transaction was rolled back, and no record says so of the
\*   single change.
\* circle: the page before already links to the page.
\* twice: the slot is already there, because the page lsn was left behind when
\*   it was redone before.
RepeatGaps(state, lsn) ==
  LET r == log[lsn]
      pg == state.pages
  IN
  {g \in {"unreadable", "repeated", "circle", "twice"} :
     CASE g = "unreadable" -> ~pg[Needed(r)].exists
       [] g = "repeated" -> r.xid \in state.rolledBack
       [] g = "circle" -> Linked(pg, r)
       [] g = "twice" -> r.type = "INSERT" /\ r.slot <= Len(pg[r.page].slots)}

\* Where skipping it does: the new page is on disk and the link to it is not;
\* or the link past a page that was rolled back is gone, because the page
\* before it was made anew.
SkipGaps(state, lsn) ==
  LET r == log[lsn]
      link == IF r.xid \in state.rolledBack THEN disk[r.prev].next ELSE r.page
  IN
  IF r.type = "NEW_PAGE" /\ r.prev # NULL_PAGE_ID /\ state.pages[r.prev].next # link
  THEN {"unlinked page"} ELSE {}

Redone(pg, r, lsn) ==
  CASE r.type = "NEW_PAGE" -> RedoNewPage(pg, r)
    [] r.type = "INSERT" -> RedoInsert(pg, r, lsn)
    [] r.type = "DELETE" -> SetXmax(pg, r, r.xid)

\* An exception, or a slot no one wrote: what follows is not modelled.
Broken(state) == state.gaps \cap {"unreadable", "twice"} # {}

RedoRecord(state, lsn) ==
  IF log[lsn].page \notin PageId \/ Broken(state) THEN state
  ELSE IF ~Repeats(state, lsn) THEN [state EXCEPT !.gaps = @ \cup SkipGaps(state, lsn)]
  ELSE LET checked == [state EXCEPT !.gaps = @ \cup RepeatGaps(state, lsn)] IN
       IF Broken(checked) THEN checked
       ELSE [checked EXCEPT !.pages = Redone(@, log[lsn], lsn)]

\* The state after the records up to last, no page having left the pool.
RedoTo(last) ==
  LET redo[lsn \in 0 .. flushed_lsn_] ==
        IF lsn = 0
        THEN [pages |-> disk, gaps |-> {}, dpt |-> AnalyzedDpt, rolledBack |-> RolledBack(Durable)]
        ELSE RedoRecord(redo[lsn - 1], lsn)
  IN  redo[last]

Redo == RedoTo(flushed_lsn_)

\* Undo: att_ is a hash table, its transactions come in any order.
UndoLoser(state, xid) ==
  [state EXCEPT !.pages = RolledBackPages(@, Durable, xid),
                !.gaps = @ \cup UndoGaps(state.pages, Durable, xid)]

Undo(state, losers) ==
  LET undo[i \in 0 .. Len(losers)] ==
        IF i = 0 THEN state ELSE UndoLoser(undo[i - 1], losers[i])
  IN  undo[Len(losers)]

\* After a recovery att_ keeps the losers, and nothing is logged for them.
\* rollback lost: the undo changes of a rollback that were not on disk.
\* link ahead of log: a link was written to disk, for the page before a new
\*   page does not take over the lsn of the NewPageLog, and the record was not.
CrashGaps(pg) ==
  {g \in {"rollback lost", "link ahead of log"} :
     CASE g = "rollback lost" -> undone # {}
       [] g = "link ahead of log" ->
            \E p \in PageId : pg[p].next # NULL_PAGE_ID /\ ~pg[pg[p].next].exists}

\* The process dies and the next start recovers, in a pool that holds every page
\* recovery changes.
Crash ==
  \E losers \in Bijection(1 .. Cardinality(AnalyzedAtt), AnalyzedAtt) :
    LET redone == Redo
        state == IF Broken(redone) THEN redone ELSE Undo(redone, losers)
    IN
    /\ pages' = state.pages
    /\ gaps' = state.gaps \cup CrashGaps(state.pages)
    /\ log' = Durable
    /\ att_' = AnalyzedAtt
    /\ dpt_' = AnalyzedDpt
    /\ active' = {}
    /\ next_xid_' = AnalyzedXid
    /\ undone' = {}
    /\ UNCHANGED <<disk, flushed_lsn_, checkpoint, control_xid>>

\* evicted: recovery pushes out a page it has changed.  The page reaches the
\*   file and leaves dpt_ (log_manager.cpp:176), so the rest of redo passes over
\*   its other records, or its undo is left half done in the file.  The state
\*   is that of redo when it happens; what follows is not modelled.
CrashEvicting ==
  \E n \in 0 .. flushed_lsn_, p \in PageId :
    LET state == RedoTo(n)
        undoing == n = flushed_lsn_ /\ \E x \in AnalyzedAtt : p \in PagesOf(Durable, x)
    IN
    /\ ~Broken(state)
    /\ state.pages[p] # disk[p] \/ undoing
    /\ pages' = state.pages
    /\ disk' = [disk EXCEPT ![p] = state.pages[p]]
    /\ gaps' = state.gaps \cup {"evicted"}
    /\ log' = Durable
    /\ att_' = AnalyzedAtt
    /\ dpt_' = [AnalyzedDpt EXCEPT ![p] = NoLsn]
    /\ active' = {}
    /\ next_xid_' = AnalyzedXid
    /\ undone' = {}
    /\ UNCHANGED <<flushed_lsn_, checkpoint, control_xid>>

Step ==
  \/ Begin
  \/ \E xid \in Xid : InsertRecord(xid) \/ DeleteRecord(xid) \/ Commit(xid) \/ Rollback(xid)
  \/ \E page \in PageId : FlushPage(page)
  \/ Checkpoint \/ Restart \/ Crash \/ CrashEvicting

Next == gaps = {} /\ Step /\ UNCHANGED initial

Spec == Init /\ [][Next]_vars

----------------------------------------------------------------------------

\* The state keeps its shape; a page never holds more rows than fit.
TypeOK ==
  /\ \A p \in PageId :
       /\ pages[p].lsn \in 0 .. MaxLsn /\ pages[p].next \in PageId \cup {NULL_PAGE_ID}
       /\ Len(pages[p].slots) <= Capacity
       /\ \A s \in Range(pages[p].slots) : s.xmin \in 0 .. MaxXid /\ s.xmax \in 0 .. MaxXid
  /\ flushed_lsn_ \in 0 .. Len(log) /\ Len(log) <= MaxLsn
  /\ att_ \subseteq Xid /\ active \subseteq att_
  /\ dpt_ \in [PageId -> 0 .. MaxLsn]
  /\ next_xid_ \in 1 .. MaxXid + 1

InsertedBy(xids) == {n \in DOMAIN log : log[n].type = "INSERT" /\ log[n].xid \in xids}
DeletedBy(xids) == {log[n].row : n \in {k \in DOMAIN log : log[k].type = "DELETE" /\ log[k].xid \in xids}}

\* What a new transaction reads.
Visible ==
  {s.row : s \in {t \in SlotsOf(pages) : t.xmin \notin active
                                          /\ (t.xmax = NULL_XID \/ t.xmax \in active)}}

CommittedRows == ({-i : i \in 1 .. initial} \cup InsertedBy(Committed(log))) \ DeletedBy(Committed(log))

\* A scan sees exactly the rows of committed transactions, whatever was rolled
\* back, written to disk, checkpointed and recovered before, within the limits
\* gaps draws: Redo repeats what the table file misses and Undo takes back what
\* did not commit.
CommittedVisible == gaps = {} => Visible = CommittedRows

\* The links lead from the first page over pages that exist to an end, and every page
\* with a row some transaction may still need is on the way.
ScanEnds ==
  gaps = {} =>
    LET chain == Chain(pages) IN
    /\ chain # {} => \E p \in chain : pages[p].next = NULL_PAGE_ID
    /\ \A p \in chain : pages[p].exists
    /\ \A p \in PageId \ chain : \A s \in Range(pages[p].slots) : s.xmin = s.xmax

\* A record's page and slot still name the row it inserted when Undo, Redo or
\* a delete uses them, after any number of recoveries.
RidsExact ==
  gaps = {} =>
    \A n \in DOMAIN log : log[n].type = "INSERT" =>
      /\ log[n].slot \in DOMAIN pages[log[n].page].slots
      /\ pages[log[n].page].slots[log[n].slot].row = n

\* The pages are well-formed, their chain ends and holds what is needed, and
\* the log's rids are right.
HeapInv == TypeOK /\ ScanEnds /\ RidsExact

----------------------------------------------------------------------------
(* What the code's comments say and the code does not do.                  *)

\* When recovery ends it has "restored the dirty pages that were not flushed" and "rolled
\* back all active transactions" (log_manager.h:70, :72): exactly the committed
\* rows are there, also when a transaction was rolled back before the crash.
RecoveryExact ==
  [][Crash /\ gaps' \cap {"unreadable", "twice"} = {} => Visible' = CommittedRows']_vars
============================================================================
