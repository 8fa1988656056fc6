--------------------------- MODULE DatabaseEngine ---------------------------
(***************************************************************************)
(* The sessions of HuaDB: DatabaseEngine::ExecuteSql and the transactions  *)
(* it opens and ends for the connections of the server (bin/server.cpp),   *)
(* on top of the transaction manager.                                      *)
(*                                                                         *)
(* Each connection has a thread.  A statement takes two steps, up to and   *)
(* from the moment its executor (or DDL function) has finished or thrown,  *)
(* and the steps of different connections interleave.  The engine's maps   *)
(* are keyed by the address of the Connection object: Conn is the set of   *)
(* addresses, and an address is used again after its connection is gone.   *)
(* What statements do to tables, locks and log is left to Mvcc, LockManager *)
(* and LogManager.  Of those it matters here that they throw: statements,  *)
(* a DbException or another std::exception (FuncCall's std::runtime_error, *)
(* the std::regex_error of a LIKE), which the engine's handlers let pass;  *)
(* LogManager::Rollback, when undoing a record does (NewPageLog::Undo of a *)
(* table's first page asks for a page that does not exist); and            *)
(* AppendBeginLog, when recovery has left the identifier in att_.  The     *)
(* server's thread catches all of them and reads the next statement.  A    *)
(* throw on disconnecting ends the process and is not a step here.         *)
(***************************************************************************)
EXTENDS Integers, FiniteSets

CONSTANTS
  Conn,       \* addresses of Connection objects
  MaxXid,     \* bound on the transactions
  MaxCid      \* bound on the queries of one transaction

ASSUME EngineBounds == MaxXid \in Nat /\ MaxCid \in Nat

Xid == 1 .. MaxXid
NoXid == 0    \* no entry in xids_

VARIABLES
  next_xid_, xid2cid_, xid2active_set_,   \* the transaction manager's state
  locks,                  \* the lock manager's maps
  xids_,                  \* transaction of each connection
  auto_transaction_set_,  \* connections whose transaction the engine opened
  connected,              \* addresses of the connections that exist
  pc,                     \* what the thread of each connection is doing
  opened,                 \* history: who opened each transaction, a block or the engine
  outcome,                \* history: how each transaction ended
  stuck                   \* history: connections that an exception the engine did not
                          \* handle has left with a transaction or a flag, until both are gone

xactVars == <<next_xid_, xid2cid_, xid2active_set_, locks>>
history == <<opened, outcome, stuck>>
vars == <<next_xid_, xid2cid_, xid2active_set_, locks, xids_, auto_transaction_set_, connected,
          pc, opened, outcome, stuck>>

\* The transaction manager, with a lock manager of no tables: its four maps are
\* the one empty map.
TM == INSTANCE TransactionManager WITH
        Table <- {}, Rid <- {}, NoLock <- {}, tableLocks <- locks, rowLocks <- locks,
        heldTable <- locks, heldRow <- locks

----------------------------------------------------------------------------

Init ==
  /\ TM!Init
  /\ xids_ = [c \in Conn |-> NoXid]
  /\ auto_transaction_set_ = {}
  /\ connected = {}
  /\ pc = [c \in Conn |-> "idle"]
  /\ opened = [x \in Xid |-> "none"]
  /\ outcome = [x \in Xid |-> "none"]
  /\ stuck = {}

InTransaction(c) == xids_[c] # NoXid

\* In a transaction block, not counting a transaction the engine opened.
CheckInTransaction(c) == c \notin auto_transaction_set_ /\ InTransaction(c)

Idle(c) == c \in connected /\ pc[c] = "idle"

----------------------------------------------------------------------------
(* DatabaseEngine::Begin, Commit and Rollback.                             *)

Begin(c, by) ==
  /\ TM!Begin
  /\ xids_' = [xids_ EXCEPT ![c] = next_xid_]
  /\ opened' = [opened EXCEPT ![next_xid_] = by]
  /\ outcome' = [outcome EXCEPT ![next_xid_] = "open"]

Commit(c) ==
  /\ TM!Commit(xids_[c])
  /\ xids_' = [xids_ EXCEPT ![c] = NoXid]
  /\ outcome' = [outcome EXCEPT ![xids_[c]] = "committed"]
  /\ UNCHANGED opened

\* Mutant of Rollback: xids_ keeps the transaction.
RollbackKeepsXid(c) ==
  /\ TM!Rollback(xids_[c])
  /\ outcome' = [outcome EXCEPT ![xids_[c]] = "aborted"]
  /\ UNCHANGED <<xids_, opened>>

Rollback(c) ==
  /\ TM!Rollback(xids_[c])
  /\ xids_' = [xids_ EXCEPT ![c] = NoXid]
  /\ outcome' = [outcome EXCEPT ![xids_[c]] = "aborted"]
  /\ UNCHANGED opened

----------------------------------------------------------------------------
(* Statements.                                                             *)

\* A connection is no longer stuck once its transaction has ended and no flag
\* is left over.
Unstuck(c) == IF c \in auto_transaction_set_ THEN stuck ELSE stuck \ {c}

\* BEGIN; throws in a transaction.
BeginStatement(c) ==
  /\ Idle(c) /\ ~InTransaction(c)
  /\ Begin(c, "block")
  /\ UNCHANGED <<auto_transaction_set_, connected, pc, stuck>>

\* The begin record throws, for BEGIN or for the engine's own transaction: the
\* connection has the transaction, and what follows Begin does not happen.
BeginThrows(c, by) ==
  /\ Idle(c) /\ ~InTransaction(c)
  /\ Begin(c, by)
  /\ stuck' = IF by = "engine" THEN stuck \cup {c} ELSE stuck
  /\ UNCHANGED <<auto_transaction_set_, connected, pc>>

\* COMMIT; throws outside of a transaction.
CommitStatement(c) ==
  /\ Idle(c) /\ InTransaction(c)
  /\ Commit(c)
  /\ stuck' = Unstuck(c)
  /\ UNCHANGED <<auto_transaction_set_, connected, pc>>

\* ROLLBACK; an exception of the undo leaves everything as it is.
RollbackStatement(c) ==
  /\ Idle(c) /\ InTransaction(c)
  /\ Rollback(c)
  /\ stuck' = Unstuck(c)
  /\ UNCHANGED <<auto_transaction_set_, connected, pc>>

\* Mutant of Statement: DDL is refused in no block.
StatementDdlAnywhere(c, kind) ==
  /\ Idle(c)
  /\ IF InTransaction(c)
       THEN UNCHANGED <<xactVars, xids_, auto_transaction_set_, history>>
       ELSE /\ Begin(c, "engine")
            /\ auto_transaction_set_' = auto_transaction_set_ \cup {c}
            /\ stuck' = stuck \ {c}
  /\ pc' = [pc EXCEPT ![c] = kind]
  /\ UNCHANGED connected

\* Any other statement (a planned query, DDL, or one the engine executes
\* itself): DDL is refused in a transaction block, and outside of
\* one the engine opens a transaction.
Statement(c, kind) ==
  /\ Idle(c)
  /\ kind = "ddl" => ~CheckInTransaction(c)
  /\ IF InTransaction(c)
       THEN UNCHANGED <<xactVars, xids_, auto_transaction_set_, history>>
       ELSE /\ Begin(c, "engine")
            /\ auto_transaction_set_' = auto_transaction_set_ \cup {c}
            /\ stuck' = stuck \ {c}
  /\ pc' = [pc EXCEPT ![c] = kind]
  /\ UNCHANGED connected

\* A planned query reaches its executor and takes a command id.
Plan(c) ==
  /\ pc[c] = "query"
  /\ TM!GetCidAndIncrement(xids_[c])
  /\ pc' = [pc EXCEPT ![c] = "executing"]
  /\ UNCHANGED <<xids_, auto_transaction_set_, connected, history>>

\* Mutant of Finish: every transaction is committed after a statement.
FinishAlwaysCommits(c) ==
  /\ pc[c] \in {"executing", "ddl", "utility"}
  /\ Commit(c)
  /\ auto_transaction_set_' = auto_transaction_set_ \ {c}
  /\ stuck' = stuck \ {c}
  /\ pc' = [pc EXCEPT ![c] = "idle"]
  /\ UNCHANGED connected

\* The statement has succeeded: a transaction the engine opened is committed.
Finish(c) ==
  /\ pc[c] \in {"executing", "ddl", "utility"}
  /\ IF c \in auto_transaction_set_
       THEN /\ Commit(c)
            /\ auto_transaction_set_' = auto_transaction_set_ \ {c}
            /\ stuck' = stuck \ {c}
       ELSE UNCHANGED <<xactVars, xids_, auto_transaction_set_, history>>
  /\ pc' = [pc EXCEPT ![c] = "idle"]
  /\ UNCHANGED connected

\* Mutant of Throw: the exception passes without a rollback.
ThrowOnly(c) ==
  /\ pc[c] \in {"query", "executing", "ddl", "utility"}
  /\ pc' = [pc EXCEPT ![c] = "idle"]
  /\ UNCHANGED <<xactVars, xids_, auto_transaction_set_, connected, history>>

\* The statement has thrown a DbException (a planner error, a refused lock, a
\* record that is too large): a transaction the engine opened is rolled back.
Throw(c) ==
  /\ pc[c] \in {"query", "executing", "ddl", "utility"}
  /\ IF c \in auto_transaction_set_
       THEN /\ Rollback(c)
            /\ auto_transaction_set_' = auto_transaction_set_ \ {c}
            /\ stuck' = stuck \ {c}
       ELSE UNCHANGED <<xactVars, xids_, auto_transaction_set_, history>>
  /\ pc' = [pc EXCEPT ![c] = "idle"]
  /\ UNCHANGED connected

\* An exception leaves ExecuteSql with nothing rolled back: it is no
\* DbException, or the rollback throws in its turn, in the inner and again in
\* the outer handler.
Escape(c) ==
  /\ pc[c] \in {"query", "executing", "ddl", "utility"}
  /\ pc' = [pc EXCEPT ![c] = "idle"]
  /\ stuck' = stuck \cup ({c} \cap auto_transaction_set_)
  /\ UNCHANGED <<xactVars, xids_, auto_transaction_set_, connected, opened, outcome>>

----------------------------------------------------------------------------
(* The server's client_handler.                                            *)

\* A new Connection object; the engine is not told.
Connect(c) ==
  /\ c \notin connected
  /\ connected' = connected \cup {c}
  /\ UNCHANGED <<xactVars, xids_, auto_transaction_set_, pc, history>>

\* Mutant of Disconnect: no rollback.
DisconnectOnly(c) ==
  /\ Idle(c)
  /\ connected' = connected \ {c}
  /\ UNCHANGED <<xactVars, xids_, auto_transaction_set_, pc, history>>

\* The client is gone: Connection::Rollback, then the object is destroyed.
Disconnect(c) ==
  /\ Idle(c)
  /\ connected' = connected \ {c}
  /\ IF InTransaction(c)
       THEN Rollback(c) /\ stuck' = Unstuck(c)
       ELSE UNCHANGED <<xactVars, xids_, history>>
  /\ UNCHANGED <<auto_transaction_set_, pc>>

Running(c) == Plan(c) \/ Finish(c) \/ Throw(c) \/ Escape(c)

Next ==
  \E c \in Conn :
    \/ BeginStatement(c) \/ CommitStatement(c) \/ RollbackStatement(c)
    \/ \E by \in {"block", "engine"} : BeginThrows(c, by)
    \/ \E kind \in {"query", "ddl", "utility"} : Statement(c, kind)
    \/ Running(c)
    \/ Connect(c) \/ Disconnect(c)

\* A statement that runs is a thread that runs: no call of the engine waits
\* for another connection.
Fairness == \A c \in Conn : WF_vars(Running(c))

Spec == Init /\ [][Next]_vars /\ Fairness

----------------------------------------------------------------------------

\* The engine's maps and the transaction manager's agree on their keys.
TypeOK ==
  /\ next_xid_ \in 1 .. MaxXid + 1
  /\ xids_ \in [Conn -> Xid \cup {NoXid}]
  /\ pc \in [Conn -> {"idle", "query", "executing", "ddl", "utility"}]
  /\ \A c \in Conn : InTransaction(c) => xids_[c] \in TM!GetActiveTransactions
  /\ \A x \in Xid : x \in TM!GetActiveTransactions <=> outcome[x] = "open"

\* Every active transaction belongs to exactly one connection that exists, so
\* none is left behind to hold its locks and sit in snapshots for ever: not by
\* a disconnected client, an exception or a reused address.
SessionsOwnTransactions ==
  \A x \in TM!GetActiveTransactions :
    Cardinality({c \in Conn : xids_[c] = x}) = 1 /\ \E c \in connected : xids_[c] = x

\* DDL, which no log record can undo, never runs in a transaction block, and a
\* statement of a block never runs in a transaction the engine opened, but for
\* a connection that an unhandled exception has left with an open transaction
\* or a stale flag; once both are gone it is like any other.
DdlOutsideBlock ==
  \A c \in Conn \ stuck :
    /\ pc[c] = "ddl" => opened[xids_[c]] = "engine"
    /\ InTransaction(c) => (c \in auto_transaction_set_ <=> opened[xids_[c]] = "engine")

\* The engine's maps, the transaction manager and the connections agree on who
\* is in which transaction, and DDL runs in none a client may roll back (on a
\* connection that is not stuck).
SessionInv == TypeOK /\ SessionsOwnTransactions /\ DdlOutsideBlock

\* A transaction block ends at its own client's word only: COMMIT, ROLLBACK, or
\* the end of the connection, never because one of its statements is done: so
\* long as the connection is not stuck, its flag in auto_transaction_set_ being
\* one that an earlier statement's exception left behind.
BlockEndedByClient ==
  [][\A c \in Conn \ stuck :
       /\ InTransaction(c) /\ opened[xids_[c]] = "block" /\ xids_'[c] # xids_[c]
       => CommitStatement(c) \/ RollbackStatement(c) \/ Disconnect(c)]_vars

\* A transaction the engine opens for a statement ends, whatever becomes of the
\* statement, unless the connection is stuck: the exception was no DbException,
\* the rollback threw, or the begin record did.
EngineTransactionsEnd ==
  \A x \in Xid :
    opened[x] = "engine" /\ outcome[x] = "open"
      ~> outcome[x] # "open" \/ \E c \in stuck : xids_[c] = x
============================================================================
