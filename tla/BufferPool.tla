----------------------------- MODULE BufferPool -----------------------------
(***************************************************************************)
(* The buffer pool (storage/buffer_pool.cpp) with its least-recently-used  *)
(* replacement (storage/lru_buffer_strategy.cpp) over the table files.     *)
(*                                                                         *)
(* A page's bytes are a version number.  Callers get a pointer to a page   *)
(* and change the page through it later: NewPageLog::Undo and Redo fetch   *)
(* the previous page, then the new one, and then write to the first.  No   *)
(* page is pinned, so the pointer may outlive the page's stay in the pool. *)
(* One caller runs at a time and uses its last two pointers, to a page the *)
(* latest of them; the write to the log that precedes a page write is the  *)
(* subject of LogManager.                                                  *)
(*                                                                         *)
(* NewPage does not ask whether the page is there already.  Callers make   *)
(* pages anew: redo does (new_page_log.cpp:64), and so does the insert     *)
(* that follows the undo of a new page (new_page_log.cpp:49 unlinks it,    *)
(* table.cpp:130 makes it again), when the page may still be in the pool.  *)
(* The pool then has two copies of the page, of which the hash map names   *)
(* the new one until the old one is evicted; `doubled` remembers it.       *)
(***************************************************************************)
EXTENDS Integers, Sequences, SequencesExt, FiniteSets

CONSTANTS
  BUFFER_SIZE,
  RegularPage,   \* pages of user tables
  SystemPage,    \* pages of system tables
  InitPages,     \* pages in the table files at the start
  MaxVersion     \* bound on the writes of a page

ASSUME PoolAssumption ==
  /\ BUFFER_SIZE \in Nat \ {0} /\ MaxVersion \in Nat
  /\ RegularPage \cap SystemPage = {} /\ InitPages \subseteq RegularPage \cup SystemPage

Page == RegularPage \cup SystemPage
NoVersion == -1    \* the page is not there
NoFrame == 0
Frame == 1 .. BUFFER_SIZE

VARIABLES
  buffers_,           \* frames in use
  hashmap_,           \* frame of each buffered page
  buffer_vec,         \* the strategy's list, most recently used frame first
  systable_buffers_,  \* version and dirty flag of each buffered system page
  disk,               \* version of each page in its file
  held,               \* the pages the caller has pointers to, latest last
  written,            \* history: version the callers last gave each page
  reply,              \* history: version GetPage last returned
  recent,             \* history: regular pages used since the pool was empty, latest first
  doubled             \* history: pages of which this process had two copies in the pool

pool == <<buffers_, hashmap_, buffer_vec, systable_buffers_>>
vars == <<buffers_, hashmap_, buffer_vec, systable_buffers_, disk, held, written, reply, recent,
          doubled>>

Entry(page, version, dirty) == [page |-> page, version |-> version, dirty |-> dirty]

NotBuffered == [version |-> NoVersion, dirty |-> FALSE]

----------------------------------------------------------------------------
(* LRUBufferStrategy.                                                      *)

\* Mutant of Access: a frame already in the list keeps its place.
AccessOnce(frame_no, vec) == IF Contains(vec, frame_no) THEN vec ELSE <<frame_no>> \o vec

Access(frame_no, vec) == <<frame_no>> \o RemoveFirst(vec, frame_no)

\* Evict returns the last frame of the list and removes it.
Victim(vec) == Last(vec)

----------------------------------------------------------------------------

Init ==
  /\ buffers_ = <<>>
  /\ hashmap_ = [p \in RegularPage |-> NoFrame]
  /\ buffer_vec = <<>>
  /\ systable_buffers_ = [p \in SystemPage |-> NotBuffered]
  /\ disk = [p \in Page |-> IF p \in InitPages THEN 0 ELSE NoVersion]
  /\ held = <<>>
  /\ written = disk
  /\ reply = NoVersion
  /\ recent = <<>>
  /\ doubled = {}

\* The frames that hold page p: one at most, unless p was made while it was there.
Copies(p) == {f \in 1 .. Len(buffers_) : buffers_[f].page = p}

\* FlushPage(frame_id): what the file and the hash map become.
Flushed(e) == IF e.dirty THEN [disk EXCEPT ![e.page] = e.version] ELSE disk
Unmapped(e) == [hashmap_ EXCEPT ![e.page] = NoFrame]

\* Mutant of AddToBuffer: the pool is full one frame too late.
AddToBufferLate(entry) ==
  IF Len(buffers_) > BUFFER_SIZE
    THEN LET victim == Victim(buffer_vec)
         IN  /\ disk' = Flushed(buffers_[victim])
             /\ buffer_vec' = Access(victim, Front(buffer_vec))
             /\ buffers_' = [buffers_ EXCEPT ![victim] = entry]
             /\ hashmap_' = [Unmapped(buffers_[victim]) EXCEPT ![entry.page] = victim]
    ELSE LET frame == Len(buffers_) + 1
         IN  /\ buffer_vec' = Access(frame, buffer_vec)
             /\ buffers_' = Append(buffers_, entry)
             /\ hashmap_' = [hashmap_ EXCEPT ![entry.page] = frame]
             /\ UNCHANGED disk

\* Mutant of AddToBuffer: the victim is overwritten without being written.
AddToBufferUnflushed(entry) ==
  IF Len(buffers_) = BUFFER_SIZE
    THEN LET victim == Victim(buffer_vec)
         IN  /\ disk' = disk
             /\ buffer_vec' = Access(victim, Front(buffer_vec))
             /\ buffers_' = [buffers_ EXCEPT ![victim] = entry]
             /\ hashmap_' = [Unmapped(buffers_[victim]) EXCEPT ![entry.page] = victim]
    ELSE LET frame == Len(buffers_) + 1
         IN  /\ buffer_vec' = Access(frame, buffer_vec)
             /\ buffers_' = Append(buffers_, entry)
             /\ hashmap_' = [hashmap_ EXCEPT ![entry.page] = frame]
             /\ UNCHANGED disk

\* Mutant of AddToBuffer: the victim stays in the hash map.
AddToBufferMapped(entry) ==
  IF Len(buffers_) = BUFFER_SIZE
    THEN LET victim == Victim(buffer_vec)
         IN  /\ disk' = Flushed(buffers_[victim])
             /\ buffer_vec' = Access(victim, Front(buffer_vec))
             /\ buffers_' = [buffers_ EXCEPT ![victim] = entry]
             /\ hashmap_' = [hashmap_ EXCEPT ![entry.page] = victim]
    ELSE LET frame == Len(buffers_) + 1
         IN  /\ buffer_vec' = Access(frame, buffer_vec)
             /\ buffers_' = Append(buffers_, entry)
             /\ hashmap_' = [hashmap_ EXCEPT ![entry.page] = frame]
             /\ UNCHANGED disk

\* AddToBuffer of a regular page: a full pool writes and replaces the frame the
\* strategy evicts.
AddToBuffer(entry) ==
  IF Len(buffers_) = BUFFER_SIZE
    THEN LET victim == Victim(buffer_vec)
         IN  /\ disk' = Flushed(buffers_[victim])
             /\ buffer_vec' = Access(victim, Front(buffer_vec))
             /\ buffers_' = [buffers_ EXCEPT ![victim] = entry]
             /\ hashmap_' = [Unmapped(buffers_[victim]) EXCEPT ![entry.page] = victim]
    ELSE LET frame == Len(buffers_) + 1
         IN  /\ buffer_vec' = Access(frame, buffer_vec)
             /\ buffers_' = Append(buffers_, entry)
             /\ hashmap_' = [hashmap_ EXCEPT ![entry.page] = frame]
             /\ UNCHANGED disk

\* The caller's last two pointers.
Hold(p) == held' = IF held = <<>> THEN <<p>> ELSE <<Last(held), p>>

Used(p) == recent' = <<p>> \o RemoveFirst(recent, p)

\* GetPage of a regular page: a hit, or a read from the file.  Reading a page
\* the file does not have throws.
GetPage(p) ==
  /\ IF hashmap_[p] # NoFrame
       THEN /\ buffer_vec' = Access(hashmap_[p], buffer_vec)
            /\ reply' = buffers_[hashmap_[p]].version
            /\ UNCHANGED <<buffers_, hashmap_, disk>>
       ELSE /\ disk[p] # NoVersion
            /\ AddToBuffer(Entry(p, disk[p], FALSE))
            /\ reply' = disk[p]
  /\ Hold(p) /\ Used(p)
  /\ UNCHANGED <<systable_buffers_, written, doubled>>

\* GetPage of a system table's page: a cache without limit.
GetSystemPage(p) ==
  /\ LET buffered == systable_buffers_[p].version # NoVersion
         version == IF buffered THEN systable_buffers_[p].version ELSE disk[p]
     IN  /\ version # NoVersion
         /\ reply' = version
         /\ systable_buffers_' = IF buffered THEN systable_buffers_
                                 ELSE [systable_buffers_ EXCEPT ![p].version = version]
  /\ Hold(p)
  /\ UNCHANGED <<buffers_, hashmap_, buffer_vec, disk, written, recent, doubled>>

\* NewPage, and TablePage::Init by the caller, of any page: one that is new, one
\* of the file, or one of the pool.  The new copy of a system page comes after
\* the old one in systable_buffers_, is the one systable_hashmap_ names and is
\* written last, so it takes the old one's place.
NewPage(p) ==
  /\ IF p \in SystemPage
       THEN /\ systable_buffers_' = [systable_buffers_ EXCEPT ![p] = [version |-> 0, dirty |-> TRUE]]
            /\ UNCHANGED <<buffers_, hashmap_, buffer_vec, disk, recent, doubled>>
       ELSE /\ AddToBuffer(Entry(p, 0, TRUE))
            /\ Used(p)
            /\ doubled' = IF Copies(p) \subseteq {hashmap_'[p]} THEN doubled ELSE doubled \cup {p}
            /\ UNCHANGED systable_buffers_
  /\ Hold(p)
  /\ written' = [written EXCEPT ![p] = 0]
  /\ UNCHANGED reply

\* The caller changes a page through one of its pointers and marks it dirty.
\* The pointer of a page that has left the pool still points to valid memory;
\* of a page with two copies it may be to either.
WriteThroughPointer(p) ==
  /\ Contains(held, p) /\ written[p] < MaxVersion
  /\ written' = [written EXCEPT ![p] = @ + 1]
  /\ IF p \in SystemPage
       THEN /\ systable_buffers_' =
                 IF systable_buffers_[p].version = NoVersion THEN systable_buffers_
                 ELSE [systable_buffers_ EXCEPT ![p] = [version |-> written[p] + 1, dirty |-> TRUE]]
            /\ UNCHANGED buffers_
       ELSE /\ \/ Copies(p) = {} /\ UNCHANGED buffers_
               \/ \E f \in Copies(p) :
                    buffers_' = [buffers_ EXCEPT ![f] = Entry(p, written[p] + 1, TRUE)]
            /\ UNCHANGED systable_buffers_
  /\ UNCHANGED <<hashmap_, buffer_vec, disk, held, reply, recent, doubled>>

\* Mutant of FlushedCopies: the last frame is forgotten.
FlushedAllButLast(p) == {f \in Copies(p) : buffers_[f].dirty /\ f < Len(buffers_)}

\* The copies of page p that Flush writes.
FlushedCopies(p) == {f \in Copies(p) : buffers_[f].dirty}

\* Flush(regular_only), run between statements: frame after frame, so the last
\* copy of a page stays.  The strategy is not told.
Flush(regular_only) ==
  /\ disk' = [p \in Page |->
       IF FlushedCopies(p) # {} THEN buffers_[Max(FlushedCopies(p))].version
       ELSE IF p \in SystemPage /\ ~regular_only /\ systable_buffers_[p].dirty
         THEN systable_buffers_[p].version ELSE disk[p]]
  /\ buffers_' = <<>>
  /\ hashmap_' = [p \in RegularPage |-> NoFrame]
  /\ systable_buffers_' = IF regular_only THEN systable_buffers_
                          ELSE [p \in SystemPage |-> NotBuffered]
  /\ held' = <<>>
  /\ recent' = <<>>
  /\ UNCHANGED <<buffer_vec, written, reply, doubled>>

\* DatabaseEngine::Crash: Clear drops everything.  The process that starts next
\* has a new strategy, too.
Crash ==
  /\ buffers_' = <<>>
  /\ hashmap_' = [p \in RegularPage |-> NoFrame]
  /\ buffer_vec' = <<>>
  /\ systable_buffers_' = [p \in SystemPage |-> NotBuffered]
  /\ written' = disk
  /\ held' = <<>>
  /\ recent' = <<>>
  /\ doubled' = {}
  /\ UNCHANGED <<disk, reply>>

Next ==
  \/ \E p \in RegularPage : GetPage(p)
  \/ \E p \in SystemPage : GetSystemPage(p)
  \/ \E p \in Page : NewPage(p) \/ WriteThroughPointer(p)
  \/ \E regular_only \in BOOLEAN : Flush(regular_only)
  \/ Crash

Spec == Init /\ [][Next]_vars

----------------------------------------------------------------------------

\* The pool keeps its shape and never grows past BUFFER_SIZE frames.
TypeOK ==
  /\ buffers_ \in Seq([page : RegularPage, version : 0 .. MaxVersion, dirty : BOOLEAN])
  /\ Len(buffers_) <= BUFFER_SIZE
  /\ hashmap_ \in [RegularPage -> {NoFrame} \cup Frame]
  /\ buffer_vec \in Seq(Frame)
  /\ disk \in [Page -> NoVersion .. MaxVersion]

\* The hash map and the frames agree: a buffered page is in one frame, the
\* frame the hash map names.
HashmapExact ==
  \A p \in RegularPage, f \in Frame :
    hashmap_[p] = f <=> f <= Len(buffers_) /\ buffers_[f].page = p

\* Replacement is least recently used, across hits, evictions and flushes that
\* the strategy is not told of: the pool holds exactly the BUFFER_SIZE pages
\* used last since it was empty.
LruExact ==
  {buffers_[f].page : f \in 1 .. Len(buffers_)} =
    {recent[i] : i \in 1 .. (IF Len(recent) < BUFFER_SIZE THEN Len(recent) ELSE BUFFER_SIZE)}

\* The pool's three structures agree: frames, hash map and LRU list, also when
\* a page of the file is made anew.  Only a process that made a page while the
\* pool had it is excepted: its pool has two copies of the page, and evicting
\* the old one takes the page out of the hash map.
PoolInv == TypeOK /\ (doubled = {} => HashmapExact /\ LruExact)

\* The pool implements the page store: every read returns what was last
\* written through a pointer, although pages come and go and are made anew,
\* and a crash falls back to what FlushPage wrote; until a page is made while
\* the pool has it, after which the store promises nothing before a restart.
PS == INSTANCE PageStore WITH content <- written, stable <- disk, sound <- (doubled = {})
ImplementsPageStore == PS!Spec
============================================================================
