# A TLA+ verification of HuaDB

HuaDB (`src/`) is a small relational database in C++: a SQL engine over a slotted
heap file store, with multi-version rows, multi-granularity locks, an ARIES-like
write-ahead log and a buffer pool. This directory holds TLA+ models of it, the TLC
instances that check them, and TLAPS proofs of results that hold for any number of
transactions, tables and rows.

`PROJECT.json` lists, in machine-readable form, the components, the runs, the
mutants that show each property can fail, the source lines behind every
definition, the hazards the properties are aimed at, the disagreements found,
and the theorems. Paths below are relative to `src/src/`.

## The system

| Part | State it keeps | Operations | Talks to |
| --- | --- | --- | --- |
| Lock manager (`transaction/lock_manager.cpp`) | `lock_map`: per transaction a list of table and row locks | `LockTable`, `LockRow`, `ReleaseLocks` | called by executors, the LOCK statement and the transaction manager |
| Transaction manager (`transaction/transaction_manager.cpp`) | `next_xid_`, `xid2cid_` (whose keys are the active transactions), `xid2active_set_` (snapshots) | `Begin`, `Commit`, `Rollback`, `GetCidAndIncrement`, `GetSnapshot`, `SetNextXid` | releases locks |
| Rows and visibility (`table/table_scan.cpp`, `executors/*`) | row headers `xmin`, `xmax`, `cid`; the position of each scan | scan, insert, delete, update, lock rows | transaction manager, lock manager, tables |
| Log manager (`log/log_manager.cpp`) and log records (`log/log_records/`) | `log_buffer_`, `next_lsn_`, `flushed_lsn_`, `att_`, `dpt_`; the log file, the master record and the next-lsn file | append, flush, checkpoint, rollback, recover (analyze, redo, undo) | disk, buffer pool, transaction manager, catalog |
| Buffer pool (`storage/buffer_pool.cpp`, `storage/lru_buffer_strategy.cpp`) | frames, hash map, LRU list, system pages | get, new, flush, clear | disk, log manager (write-ahead) |
| Tables (`table/table.cpp`, `table/table_page.cpp`) | the chain of slotted pages | insert, delete, update | buffer pool, log manager |
| Catalog (`catalog/system_catalog.cpp`, `catalog/oid_manager.cpp`) | names and oids, loaded tables, the three system tables, statistics, the current database; table files and directories | create, drop and change database, create and drop table, statistics, load, exit | tables, disk, called by engine and redo |
| Engine and sessions (`database/database_engine.cpp`, `bin/server.cpp`) | `xids_`, `auto_transaction_set_`, settings, current database | execute SQL, begin, commit, rollback, checkpoint, crash, close | everything |
| Binder (`binder/binder.cpp`) | table names and aliases of the SQL string | resolve names | catalog |
| Planner, optimizer (`planner/`, `optimizer/`) | members that live for one plan | bound statement to operators; split and push predicates | catalog |
| Executors, values, expressions (`executors/`, `operators/`, `common/value.cpp`) | positions and buffered rows of a running plan | rows of a plan | tables, locks |

What is hard here: statements of different connections interleave (the server
has a thread per connection, the tests interleave statements of several
connections); lock requests never wait but leave traces when they are refused;
rows carry only two transaction ids from which visibility must be decided while
others commit and roll back; the log has to be ahead of the pages at any moment,
because the process may die at any moment; recovery is done by records that
each change pages, link pages and ask the catalog; system tables are not logged,
so DDL and its log records can come apart; buffered pages are replaced while
callers still have pointers to them; exceptions leave a statement half done; plans
carry column positions that are only right at one place of the plan.

What makes each part correct:

* locks: granted locks are compatible, table locks protect rows, nothing granted
  is forgotten;
* transactions: strict two-phase locking, snapshots that separate the
  transactions, identifiers used once;
* rows: a statement sees exactly what its isolation level promises;
* log: records are found where they are looked for, commits survive, the log is
  ahead of the pages, redo and analysis miss nothing;
* buffer pool: it is a page store, whatever it evicts;
* tables: the chain of pages ends and misses no page, row ids stay right, recovery
  leaves the committed rows;
* catalog: names, oids, rows of the system tables and files stay in step;
* sessions: no transaction is orphaned, blocks end at the client's word, a
  transaction opened for a statement ends with it;
* queries: the answer is the one SQL defines, with every join method and with or
  without the optimizer.

## The modules

### Transactions and storage

`LockManager` - `lock_map` split into table and row entries (an entry is pushed
only when there is none, so the list is a partial function). `heldTable` and
`heldRow` are history: the requests answered *true*. An action is one call; the
entry is recorded first and compared afterwards, as in the code, so a refused
request stays recorded.

`TransactionManager` - the three maps, composed with the lock manager by
`INSTANCE LockManager`. `LocksRefine` is the lock manager's specification, stated
of the composition.

`Mvcc` - one table as a sequence of versions with `xmin`, `xmax` and `cid`, on top
of both managers. One step is one call of `SeqScanExecutor::Next`, or one pass
through the loop of a modifying executor, so statements of different
transactions interleave between reading a row and changing it. `CanGet` is
translated branch by branch (it answers *true* for a hidden row). Rollback
applies the undo of the transaction's records. `outcome`, `seen`, `deleters` and
`redeleted` are history, from which the properties say what should be visible.
An INSERT statement adds one row. Undo marks an inserted row as deleted by its
own transaction, as the code does.

`LogManager` - the log with a crash possible at any moment, and between the two
halves of a checkpoint. It starts in a new directory or after a clean shutdown.
An lsn counts records instead of bytes; records are kept in sets because the code
finds, writes and erases them by lsn. Row changes are one kind of record, since
the log manager treats InsertLog and DeleteLog alike. The pages of one table
appear by their page lsn and by which changes their file image holds (`stored`,
`linked`: history). `Crash` includes the restart: the lsn counters from the
next-lsn file, `Analyze`, `SetNextXid`, and redo as far as the page lsns, the file images
and `dpt_` go. Redo asks `dpt_` as it is at each record (`log/log_manager.cpp:462`), and its own
`GetPage` may push a page out, which takes the page's entry with it (`:176`): for any of the
pages it changes, `Redo` may be cut at a record (`cut`), from which on the page's other
records are passed over; `skipped` (history) remembers them. What redo and undo do to
the contents of pages is in the next module.

`TableHeap` - one table as a chain of pages, each with its slots, next page and page
lsn, in the pool (`pages`) and in the file (`disk`), under the log's records.
Inserting walks the chain and opens a page at its end (an InsertLog, preceded by
a NewPageLog); deleting marks a slot; `Rollback` is the undo of the records from the
last to the first; `FlushPage`, `Checkpoint`, `Restart` and `Crash` as in the log
manager, with `Analyze`, then redo record by record, then undo of the losers
(`CrashEvicting` is the crash after which recovery pushes out a page it has changed). The
pages a walk along the links visits are the smallest set closed under the links
(`Reached`); redo and undo are functions of the position in the log. All
rows have one size and `Capacity` of them fill a page. Recovery is right only
within limits: `gaps` names the step that left them, and the behaviour ends there
(see *What the models found*).

`BufferPool` and `PageStore` - the pool as frames, hash map and LRU list; contents
are version numbers. The abstract `PageStore` is a map of pages in which a read
returns what was last written, any page may become stable at any time, and a
crash falls back to the stable pages. `ImplementsPageStore` is refinement with
`content <- written, stable <- disk, sound <- (doubled = {})`. Callers write through the
last two pointers they obtained (as `NewPageLog::Undo` does); nothing pins a page.
`NewPage` may be called for any page, one that exists or is in the pool included: an insert
after a rolled-back new page does so (`table/table.cpp:130`), and redo. If the page has a
frame it then has two, of which the hash map names the new one, until the old one is
evicted, its stale bytes are written and the page's entry is erased. `doubled` (history) has
the pages this happened to since the process started. While it is not empty the pool
keeps its form but promises nothing, and neither does the `PageStore` that is not `sound`;
creating a page that has no frame, in the file or not, keeps all promises.

`Catalog` - the catalog's maps (`name2oid_`, `oid2name_`, `oid2table_`, statistics), the
system tables as sets of rows in memory (`meta`) and in their files (`saved`), the
files and directories, and user tables by their number of rows. One action per
statement (CREATE and DROP DATABASE, `\c`, CREATE and DROP TABLE, INSERT, ANALYZE)
and per way of the process to end and begin (`Flush`, `CloseDatabase`, `Crash`,
`Open`, with the catalog's part in redo). An operation that fails half way takes the
half that was done. After a crash that undid DDL (`lost`) only CREATE and `\c` are
followed, and only until an oid in use is given out again (`collided`). Redo skips the tables
the oid manager does not know, and for those opening may also throw: their NewPageLog is
skipped, and a record on the page it would have made reads past the end of the file
(`RedoMayThrow`; whether it happens depends on pages, so it is a choice). A recovery may
leave any of the tables it redoes with other rows than the log has (`damaged`; the cases
are the gaps of `TableHeap`), and the behaviour ends there. A user table's file is
written by a flush only; pages the pool pushes out earlier are left to `TableHeap`.

`DatabaseEngine` - connections, statements and the transactions opened for them,
on top of the transaction manager (with a lock manager of no tables). A
statement takes up to three steps. A statement may throw a DbException, which the engine
answers with a rollback that may throw in its turn (`Throw`), or something that its
handlers do not catch (`Escape`: the `std::runtime_error` of `func_call.h:58`, the
`std::regex_error` of a LIKE), after which nothing is rolled back; `Begin` may throw after the
connection has its transaction (`BeginThrows`, `log/log_manager.cpp:103`). A connection left
with a transaction of the engine's or with a stale entry in `auto_transaction_set_` is `stuck`
until that transaction has ended and the entry is gone. Addresses of connections are
used again.

### Queries

These are one chain of `EXTENDS`; all but `QuerySemantics` translate code.

`Expressions` - values with their types and NULL, comparison, logic, int32
arithmetic, casts, lists, NULL tests; on one record or, in a join condition, on
two. Arithmetic on two DOUBLEs gives a DOUBLE, though the plan takes it for an INT; the
DOUBLEs of the model are whole numbers. Exceptions and undefined behaviour (overflow, division by zero)
are values that end the statement.

`Binder` - resolution of names, stars, USING and aliases, with what one Binder keeps
from statement to statement of an SQL string.

`Planner` - plans for SELECT, INSERT, UPDATE and DELETE: column references become
positions, filters, joins (nested loop, or the forced merge or hash join), sorting,
limits, type checks of INSERT. A column of a join's right side that lies beyond the left
side's length makes `PlanColumnRef` read past the end of a vector (`planner/planner.cpp:366`):
undefined behaviour. Lengths of strings, and with them the refusal of values that are too
long and the type CHAR, are left out.

`Optimizer` - `SplitPredicates` and `PushDown`, with the members its functions share
threaded through.

`Executors` - what each executor returns, run to its end. Executors that pull rows see
those before a failure, those that collect rows meet the failure first. `std::sort`
is a choice above `StableUpTo` rows.

`QuerySemantics` - what SQL says: the reference, stated on the parsed statement without
plans, by picks of rows and Kleene logic.

`Query` - the way of a string through `ExecuteSql`, one step each for receiving, binding,
planning with optimizing, executing, and ending; `db` changes only if the
statement ends well. Settings change between strings.

### Proofs and instances

`LockManagerProofs`, `TransactionManagerProofs`, `MvccProofs`, `LogManagerProofs`,
`TableHeapProofs`, `BufferPoolProofs`, `CatalogProofs`, `DatabaseEngineProofs` - the
theorems, each in a module that extends the one it is about.

The `MC*` modules extend these for TLC; `MCQuery` holds the tables and SQL strings.
Operators commented *Mutant of ...* are plausible mistakes; they appear in no
specification and only serve to show that a property can fail.

## The runs

Passing runs:

| Run | Instance | Shows |
| --- | --- | --- |
| `locks` | 3 transactions, 1 table, 1 row | `TypeOK`, `GrantedCompatible`, `GrantedStaysRecorded`, `TableLockCoversRows`: after any sequence of requests, refusals and upgrades |
| `transactions` | 2 transactions, 1 table, 1 row | `TypeOK`, `LocksOfActiveOnly`, `LockUntilEnd`, `SnapshotsSeparate`, `XidNotReused`, `LocksRefine` |
| `mvcc` | 3 transactions, all statement kinds, 4 versions (1.8 million states) | `SnapshotExact`, `ReadCommittedExact`, `WritesAreExclusive`, `MvccInv` (no statement meets its own versions) |
| `log` | lsns up to 5, 2 transactions, 2 pages, from both initial states (257 000 states) | `LogInv` (records are found), `RollbackVisitsAll`, `WriteAhead`, `RedoCovers`, `CommitSurvives`, `RecoverFindsLosers` |
| `buffer_pool` | 2 frames, 3 user pages (symmetric), 1 system page, no page in the files at the start (1.3 million states) | `PoolInv` (hash map and frames agree, replacement is exactly LRU), `ImplementsPageStore` |
| `engine` | 2 connections, 3 transactions, 2 queries each | `SessionInv`, `BlockEndedByClient`, `EngineTransactionsEnd` |
| `catalog` | the default, the system and one user database, one table name, 4 oids, 2 rows (1.2 million states) | `CatalogInv`, `OidsFresh`, `FilesMatchRows`, `StatisticsExact`, `CommittedRowsSurvive`, `OpensAfterCrash` |
| `heap` | pages of 2 rows, 2 pages, 2 transactions, 6 records, any number of flushes, checkpoints, restarts and crashes (910 000 states) | `CommittedVisible`, `HeapInv` (the chain ends, rids are right) |
| `query` | tables t1(a INT) and t2(a INT, b VARCHAR) with up to 2 rows each, about 60 statements, 7 strings of two, 5 settings (1.3 million states) | `AnswerExact`, `MergeAgrees`, `OptimizerKeepsAnswer`, `ModificationExact`, `StoredTyped`, `BatchExact`, `TypeOK` (no value outside int32) |

The longest take two to three minutes with two workers.

Bounds. Conflicts between locks are pairwise and per resource, so three
transactions and one row show every conflict, and the proofs cover the rest.
Visibility compares a reader with an inserter and with one or two deleters. In
the log, the records after the first checkpoint hold a transaction that starts,
changes a page, is cut by a second checkpoint and a crash, or is rolled back. A
pool of two frames with three pages evicts, and two is what the callers' pointers
need; all pages are made by `NewPage` and may be made again, in the pool or out of it. Six
records let a transaction open a page while another one commits or
rolls back, with a crash and a second one between. Four oids hold the default
database, a second one and a table of the same name in each. Two rows are enough for duplicate keys in a
join, for an order with ties and for LIMIT with OFFSET; a join of both tables has
four, more than `StableUpTo`, so both behaviours of `std::sort` occur. `MaxInt` is 2
so that sums overflow. `MaxXid`, `MaxCid`, `MaxLsn`, `MaxRows`, `MaxVersion`, `MaxOids`
bound counters that are 32 bits wide in the code; where wrapping matters
(`NULL_XID + 1`) it is modelled.

`CHECK_DEADLOCK FALSE`: clients may stop, and the bounds end every run of a
counter. `LockManager` and `DatabaseEngine` are checked for deadlock.

Fairness is assumed in `DatabaseEngine` only: weak fairness of the steps of a
running statement. It is a thread of the server, nothing in the engine waits for
another connection (a lock request answers at once), and executors read finite
tables. Nothing is assumed of clients. The other specifications have no fairness
and no liveness property.

## What the models found

Three runs expect a violation; `findings` quotes the lines they disagree with.

* `catalog_redo` - redo takes a table the catalog does not know for a dropped one,
  but after a restart the catalog knows the tables of the default database only:
  committed rows of other databases are lost in a crash (`RedoReachesAllTables`).
  `CommittedRowsSurvive` speaks of the default database.
* `heap_recover` - a rollback writes no compensation records; after a crash redo
  repeats the rolled-back change and nothing undoes it (`RecoveryExact`).
* `query_pushdown` - filters share one flag, so that when one conjunct was pushed to a
  scan the others vanish: `where a > 1 and b = 't'` keeps one condition
  (`PredicatesKept`).

The passing properties except what the code gets wrong elsewhere, and say so:

* Locks: a refused request stays in `lock_map` and makes later requests of others
  fail although nobody holds a conflicting lock (safe, hence no exception).
* Rows: under REPEATABLE READ a transaction may delete a row again after another
  one's delete was committed; rolling back then clears the mark and the committed
  delete is undone. `SnapshotExact` and `ReadCommittedExact` except the versions
  concerned (`redeleted`).
* Log: in a new database `flushed_lsn_` is `NULL_LSN`, the largest value, until the
  first flush, and a rollback before that looks for buffered records on disk
  (`RecordsFound` is about the time after it). Recovery computes the next
  transaction id from the records after the checkpoint, so identifiers may be
  used twice; a crash before the BEGIN of the second transaction is in the file
  then finds the first one's records under its identifier
  (`RecoverFindsLosers` excepts this, `BeginUnwritten`). Analysis enters only the new page
  of a NewPageLog in the dirty page table, so the link in the previous page can be lost; and
  the link is set without a page lsn, so it can be in the file ahead of its record
  (`WriteAhead` is about rows and new pages). Redo passes over records of pages it has
  itself pushed out; they stay missing (`RedoCovers` excepts them, `skipped`, and pages with two
  NewPageLogs, `Remade`, whose stale frame may be the one that is written).
* Buffer pool: a page made while it is in the pool has two frames; see `doubled` above.
* Tables, the `gaps` of `TableHeap`: a page opened by a transaction that rolls back is
  unlinked with the rows others have put in it, or is the table's first page, for
  which undo asks for page `NULL_PAGE_ID` and throws; the freed page number is used
  again; losers are undone again at a later restart; redo repeats what was rolled back,
  empties a page that is in use, appends a row a second time, links pages to a circle, or
  meets a page no durable record created; redo makes a page anew and with it loses the
  page's link past later pages that were rolled back, so that the pages behind them, with
  committed rows, leave the chain; recovery pushes out a page it has changed (`evicted`); an
  identifier is used twice; a shutdown with open transactions takes them for ended.
  `CommittedVisible` and `HeapInv`
  hold of every behaviour up to the first such step.
* Catalog: CREATE TABLE refused in the system database leaves the name taken
  (`ghosts`); cached statistics are keyed by name and survive the change of database
  (`StatisticsExact` is about names that have meant one table); the next oid is saved
  at shutdown only, so after a crash that lost DDL oids are given out again; DROP
  TABLE removes the file before its row is saved, and redo asks for the database
  of tables the saved rows miss, or for a page of another database's table that redo has
  not made, so the engine may not start again (`OpensAfterCrash` says in which cases
  only). `CommittedRowsSurvive` leaves out the tables whose pages recovery gets wrong
  (`damaged`): redo sets no page lsn, so a second recovery may add rows again, and it may
  pass over pages or link one to itself.
* Sessions: `ExecuteSql` catches DbException only, and a rollback (undoing the creation of a
  table's first page) and `Begin` may throw too. The connection is then left in its
  transaction, with or without the auto-commit flag; after a COMMIT the flag is still there and
  the next block of the client's is committed after its first statement. The session
  properties are about connections that are not so left (`stuck`).
* Queries, `Standard` and its companions in `Query`: DISTINCT and hash joins return
  nothing; outer joins are executed as inner ones; `select a, *` drops `a`; OR with a
  NULL side is NULL; join conditions with NOT, IS NULL, lists or casts are evaluated on
  the left record only; several sort keys need a stable sort (`SortsExactly`); a merge
  join needs its keys in the order of its sides (`KeysInOrder`); a pushed predicate
  keeps positions planned for the joined record (`PushesSafely`); types are
  checked for the first row of VALUES and not for UPDATE, and arithmetic on DOUBLEs passes as
  INT, so that `insert into t1 values (1.5 + 1.5)` stores a DOUBLE in an INT column
  (`StoredTyped` excepts these). An unknown
  column in SET or USING and a column in VALUES dereference a null pointer; these
  statements end as undefined behaviour.

## The proofs

`LockManagerProofs` proves for every set of transactions, tables and rows that
`Spec` implies `[]TypeOK`, `[]GrantedStaysRecorded`, `[]GrantedCompatible` and
`[]TableLockCoversRows`. The last two are not inductive: that a new lock is
compatible with the *granted* locks of others follows only because each granted
lock is still *recorded* at least as strongly (`GrantedStaysRecorded`), and that a
table lock respects foreign row locks only because the intention lock came with
the row lock (`RowHasIntention`). `LockInv` is the conjunction; the lemmas about
`Upgrade` (an upgrade tolerates no more than either of its arguments) and
symmetry of `Compatible` carry the steps. The only assumption is
`NoLock \notin LockType`.

`TransactionManagerProofs` proves for any number of transactions and commands:
`[]TypeOK`, `[]SnapshotsSeparate`, `XidNotReused`, `[]LocksOfActiveOnly`,
`LockUntilEnd` and the refinement `LocksRefine`. `SnapshotsSeparate` needs that a
snapshot holds only older transactions (`SnapshotBelow`) and that all active ones
are below `next_xid_` (in `TypeOK`); together they are `XactInv`. The lock
properties add the shape of the lock manager's maps (`LockLifeInv`), because what
an update of one entry leaves alone is only known of maps with that domain; the
lemmas `LockTableEffect`, `LockRowEffect` and `ReleaseEffect` say what each lock
operation may touch. `ImplementsLockManager` is what lets the theorems of
`LockManagerProofs` speak about transactions. The assumption is that the bounds
are natural numbers.

`MvccProofs` proves `[]MvccInv`, `[]ReadCommittedExact`, `[]SnapshotExact` and
`WritesAreExclusive` for any number of transactions, commands and versions. None of
them is inductive: a header has two identifiers, and what they mean depends on
who could have written them. The inductive invariant `Inv` says

* `MarksLocked`, `InsertsLocked`: the mark of an uncommitted delete goes with an X
  lock on the row, an uncommitted insert with the IX lock on the table;
* `LocksUsable`, `Statements`: row locks, and the versions a statement has read and
  will change after others had their turn, are committed or the transaction's own,
  and not made by the same statement;
* `Versions`: therefore the version of an active transaction has no foreign mark, that
  of an aborted one its own, and `xmax` names the one delete that counts unless the
  version was deleted again (`redeleted`);
* `Snapshots`: the transactions that began earlier and are not in the snapshot are
  over, and those of them that committed are what `seen` recorded at `Begin`.

It includes `LockInv` of `LockManagerProofs`, instantiated for the lock table that the
transactions share: two X locks on one row cannot be granted. One lemma, `WorkStep`,
is about a step of a statement (which versions it keeps, marks or adds); each action
is shown to be such a step. `EndStep` is about COMMIT and ROLLBACK with its undo. The
assumptions: one table, natural bounds, and row locks of the modes the engine asks
for (S and X, `database/database_engine.cpp:493`).

`LogManagerProofs` proves `[]LogInv`, `[]RollbackVisitsAll`, `[]WriteAhead`,
`[]RedoCovers`, `CommitSurvives` and `RecoverFindsLosers` for any number of records,
transactions and pages, and any sequence of flushes, checkpoints and crashes with
their recoveries. `Inv` has `LogShape` (one record per lsn, the log is cut at the lsn in the
next-lsn file), `MasterExact` (the master record points at a durable checkpoint),
`AttInv` (`att_` and every `prev_lsn` name the last record before; a
checkpoint's table was exact when it was taken, and the last one is complete) and
`PageInv` (page lsns, `WriteAhead`, `RedoCovers` for every page, and a checkpoint's dirty pages
cover what is missing from the files and was not `skipped`). Redo preserves it wherever it
is cut: before the cut a page's records are in its new file image, from there on they
are in the old one or `skipped`. `RollbackVisitsAll` is about a set closed under
`prev_lsn`, so its proof goes by the least record not visited (well-founded
induction in the form of a minimum, which the provers can use). The attempt to prove
`RecoverFindsLosers` showed an earlier form of it to be false on instances larger than
the run's, because an identifier may be used again after a crash (see above).

`BufferPoolProofs` proves `[]PoolInv` for every size of the pool, and
`ImplementsPageStore` for pools of at least two frames (the code has five), both for every
sequence of calls, `NewPage` of existing and of resident pages included. What holds always is
`TypeShape`: the strategy's list stays a permutation, so there always is a frame to evict. The
rest is for the time in which no page has two frames. The LRU list is a
permutation whose front holds the frames in use in the order of their last use
(`FrontExact`); frames that a flush left in the list are behind them. The pages that
callers have pointers to are the last two used (`HeldRecent`), therefore resident;
and a page is in its file or dirty in its frame (`DataExact`). With one frame the
refinement is false: a write through the older pointer is lost.

`DatabaseEngineProofs` proves `[]SessionInv` and `BlockEndedByClient` for any connections
and transactions. `EngineInv` adds that active transactions and connections correspond
one to one (`Owners`), that a thread inside a statement has a connection and a
transaction (`Threads`), and that `auto_transaction_set_` has a connection for the time
of one statement only, except where an exception has left it (`AutoSet`, `stuck`).

`CatalogProofs` proves `[]CatalogInv`, `[]OidsFresh`, `[]FilesMatchRows`, `[]StatisticsExact`
and `[]CommittedRowsSurvive` for any databases, tables, oids and rows, and `[]OpensAfterCrash`
if clients drop neither the system nor the default database (`HomeSafe`; the code lets
them, and without the default database nothing opens). Everything rests on oids: those in
use are below `next_oid_` (`Below`), so no two rows of the system tables share one
(`Shape`) and each map keyed by oid speaks of one object. On top of that `Inv` says

* `NamesExact`: a row of the current database is loaded under its name, and a name leads to
  such a row or, left by a refused CREATE TABLE, to no row at all; this is what makes
  `ExitDatabase` take out all it has to, although it looks names up by oid;
* `StatRows`, `StatsExact`: while a name has had one table, its statistics are filed under
  that table's database, so what the maps keep from another database is overwritten;
* `Durable`: the log, or the file of a table without log records, has every committed row
  of the default database, so that a recovery that redoes a table's pages rightly gives them
  all back; that a table is not `damaged` is a condition of `CommittedRowsSurvive`;
* `OnDisk`: a crash that undoes no DDL leaves rows with the same identities, the same
  databases and the same next oid on disk, from which `Open` restores all of the above.

`LoadedOK` (loaded tables are in the current database and have a file) holds after lost
DDL too. The assumptions are natural bounds and that clients' names differ from the
engine's own (`NameAssumption`): CREATE refuses those while the objects exist, and creating
one anew after dropping it is left out.

`TableHeapProofs` proves `[]HeapInv` and `[]CommittedVisible` for any capacity of a page,
number of pages, transactions and log records, and any sequence of flushes,
checkpoints, restarts and crashes. What a scan sees after a recovery depends on what the
table file, the dirty page tables and the log were when the process died, so the inductive
invariant speaks of all of them. `Typed` holds always; `Exact` while `gaps` is empty:

* `LogShape`: pages are opened in order, a page is opened before anything else happens to
  it, its slots are filled in order, and nothing follows the end of a transaction;
* `RowsInv`: slots and InsertLogs correspond one to one; a slot of a transaction that
  was undone carries that transaction's own mark, any other slot the mark of the one
  committed or active transaction that deletes the row, if there is one;
* `PagesExact`, `LinksExact`: the pages that exist are those some record opened; links lead
  forward, to pages that exist; the pages with rows that count are on the chain, and would
  be on it too if every page opened and not rolled back were linked again (`Relinked`),
  which is what redo does;
* `RecoverInv`: the file has the first slots of each page and marks of durable deletions
  only (`DiskRows`, `DiskMarks`); what it misses is behind the page lsn and in the
  range of both dirty page tables, the current one and the checkpoint's (`Coverage`);
  transactions that neither ended nor are known to the analysis are undone in the file and
  outside that range (`Settled`): they are losers of an earlier recovery.

Redo and undo are recursive functions over positions. That such a function exists
(`Iteration`), and what holds at each position, is shown by induction over the numbers in a
set (`UpTo`, `DownFrom`), from the existence of a least element, a form the provers can
use. `RedoneInv` says what redo has restored after each record (rows up to it, links as in
`Relinked`, no mark of a deletion that does not count except of losers), `LosersUndone` what
undo has left after each loser, whatever their order, and `CrashExact` that the end of both
satisfies `Exact` again. A crash whose recovery pushes a page out is a gap, and only `Typed` is
shown of it. The assumption is that the bounds are natural numbers and a page has room for a
row. The proof found a behaviour with three pages, beyond the run's bounds, in which
`CommittedVisible` failed although `gaps` was empty: the link lost by redo described
above. It is now one of the gaps.

Only model-checked: liveness (`EngineTransactionsEnd`; fairness is out of the
prover's reach); the query modules, whose operators are recursive over expressions and
plans, which would need induction over data.

## Not modelled, and the plan

Every safety property outside the query modules is proved. The answers of the query
modules are defined by recursion over expressions and plans and stay with TLC.

Not modelled:

* `ReorderJoin` of the optimizer: runs only after `SET join_order_algorithm`; its order
  depends on estimates in floating point.
* Aggregates, GROUP BY and functions (their executor returns nothing), LIKE, doubles with
  a fraction, lengths of strings and CHAR.
* The log file in bytes: its segments, and `ReadLog` of `MAX_LOG_SIZE` bytes near the end of the
  last one (`storage/disk.cpp:118`).
* Parallel calls of the log manager (`log/log_manager.cpp:40`): actions of the models are
  whole calls.
* Isolation level and variables kept per connection address; in `Mvcc` each statement's
  level is a free choice.
* SHOW, EXPLAIN, DESCRIBE: output only. `node_tag_to_string.cpp`: a table of names.
* `catalog/simple_catalog.cpp`: excluded from the build by a macro.
* The SQL parser (third-party), the shell, the client and socket I/O.
