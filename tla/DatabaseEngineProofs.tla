------------------------ MODULE DatabaseEngineProofs ------------------------
(***************************************************************************)
(* Proofs about DatabaseEngine for any connections, transactions and       *)
(* commands.                                                               *)
(*                                                                         *)
(* The argument: xids_ and the transaction manager's maps change together, *)
(* so a transaction is active exactly while one connection has it          *)
(* (Owners); a thread is inside a statement only while its connection      *)
(* exists and is in a transaction (Threads); and auto_transaction_set_ has *)
(* a connection only for the time of one statement, unless an exception    *)
(* has left it stuck (AutoSet), which is why no entry is left over when    *)
(* the next block begins; and a connection that is stuck no more has       *)
(* neither a transaction nor an entry, or both from one statement.         *)
(***************************************************************************)
EXTENDS DatabaseEngine, FiniteSetTheorems, TLAPS

\* The variables are of their types; who is active has a snapshot and an
\* identifier below next_xid_.
Typed ==
  /\ next_xid_ \in 1 .. MaxXid + 1
  /\ xid2cid_ \in [Xid -> 0 .. MaxCid + 1]
  /\ xid2active_set_ \in [Xid -> SUBSET (Xid \cup {0})]
  /\ xids_ \in [Conn -> Xid \cup {NoXid}]
  /\ auto_transaction_set_ \subseteq Conn
  /\ connected \subseteq Conn
  /\ pc \in [Conn -> {"idle", "query", "executing", "ddl", "utility"}]
  /\ opened \in [Xid -> {"none", "block", "engine"}]
  /\ outcome \in [Xid -> {"none", "open", "committed", "aborted"}]
  /\ stuck \subseteq Conn
  /\ \A x \in Xid : xid2cid_[x] # 0 => x < next_xid_

\* A transaction is active exactly while it is open, and exactly while one
\* connection has it, which exists.
Owners ==
  /\ \A x \in Xid : xid2cid_[x] # 0 <=> outcome[x] = "open"
  /\ \A c \in Conn : xids_[c] # NoXid => c \in connected /\ xid2cid_[xids_[c]] # 0
  /\ \A c, d \in Conn : xids_[c] # NoXid /\ xids_[c] = xids_[d] => c = d
  /\ \A x \in Xid : xid2cid_[x] # 0 => \E c \in connected : xids_[c] = x

\* A thread that executes a statement has a connection and a transaction.
Threads == \A c \in Conn : pc[c] # "idle" => c \in connected /\ xids_[c] # NoXid

\* The engine's own transactions last for one statement.
AutoSet ==
  \A c \in Conn \ stuck :
    /\ c \in auto_transaction_set_ => pc[c] # "idle"
    /\ pc[c] = "ddl" => c \in auto_transaction_set_
    /\ xids_[c] # NoXid => (c \in auto_transaction_set_ <=> opened[xids_[c]] = "engine")

EngineInv == Typed /\ Owners /\ Threads /\ AutoSet

----------------------------------------------------------------------------
(* What the engine's three operations do to the variables of EngineInv.    *)

\* TransactionManager's identifiers are the engine's.
LEMMA SameXid == TM!Xid = Xid /\ Xid \subseteq Nat \ {0} /\ NoXid \notin Xid
BY EngineBounds DEF TM!Xid, TM!FIRST_XID, Xid, NoXid

\* Begin gives the connection a transaction that nobody has.
LEMMA BeginEffect ==
  ASSUME EngineInv, NEW c \in Conn, NEW by \in {"block", "engine"}, Begin(c, by)
  PROVE  /\ next_xid_ \in Xid /\ next_xid_' = next_xid_ + 1
         /\ next_xid_' \in 1 .. MaxXid + 1
         /\ xid2cid_[next_xid_] = 0
         /\ xid2cid_' \in [Xid -> 0 .. MaxCid + 1]
         /\ \A x \in Xid : xid2cid_'[x] = IF x = next_xid_ THEN 1 ELSE xid2cid_[x]
         /\ \A x \in Xid : xid2cid_'[x] # 0 => x < next_xid_'
         /\ xid2active_set_' \in [Xid -> SUBSET (Xid \cup {0})]
         /\ xids_' \in [Conn -> Xid \cup {NoXid}]
         /\ \A d \in Conn : xids_'[d] = IF d = c THEN next_xid_ ELSE xids_[d]
         /\ opened' \in [Xid -> {"none", "block", "engine"}]
         /\ \A x \in Xid : opened'[x] = IF x = next_xid_ THEN by ELSE opened[x]
         /\ outcome' \in [Xid -> {"none", "open", "committed", "aborted"}]
         /\ \A x \in Xid : outcome'[x] = IF x = next_xid_ THEN "open" ELSE outcome[x]
<1> USE EngineBounds, SameXid
<1>1. /\ next_xid_ <= MaxXid /\ next_xid_' = next_xid_ + 1
      /\ xid2active_set_' = [xid2active_set_ EXCEPT ![next_xid_] = TM!GetActiveTransactions]
      /\ xid2cid_' = [xid2cid_ EXCEPT ![next_xid_] = 1]
  BY DEF Begin, TM!Begin, TM!FIRST_CID
<1>2. next_xid_ \in Xid /\ xid2cid_[next_xid_] = 0 /\ next_xid_' \in 1 .. MaxXid + 1
  BY <1>1 DEF EngineInv, Typed, Xid
<1>3. TM!GetActiveTransactions \subseteq Xid
  BY DEF TM!GetActiveTransactions
<1>4. 1 \in 0 .. MaxCid + 1
  OBVIOUS
<1>5. /\ xid2cid_' \in [Xid -> 0 .. MaxCid + 1]
      /\ \A x \in Xid : xid2cid_'[x] = IF x = next_xid_ THEN 1 ELSE xid2cid_[x]
  BY <1>1, <1>2, <1>4 DEF EngineInv, Typed
<1>6. \A x \in Xid : xid2cid_'[x] # 0 => x < next_xid_'
  BY <1>1, <1>2, <1>5 DEF EngineInv, Typed
<1> QED BY <1>1, <1>2, <1>3, <1>5, <1>6 DEF Begin, EngineInv, Typed

\* Commit and Rollback take the transaction away from its connection and from
\* the transaction manager.
LEMMA EndEffect ==
  ASSUME EngineInv, NEW c \in Conn, Commit(c) \/ Rollback(c)
  PROVE  /\ xids_[c] \in Xid /\ next_xid_' = next_xid_
         /\ xid2cid_' \in [Xid -> 0 .. MaxCid + 1]
         /\ \A x \in Xid : xid2cid_'[x] = IF x = xids_[c] THEN 0 ELSE xid2cid_[x]
         /\ xid2active_set_' \in [Xid -> SUBSET (Xid \cup {0})]
         /\ xids_' \in [Conn -> Xid \cup {NoXid}]
         /\ \A d \in Conn : xids_'[d] = IF d = c THEN NoXid ELSE xids_[d]
         /\ opened' = opened
         /\ outcome' \in [Xid -> {"none", "open", "committed", "aborted"}]
         /\ \A x \in Xid : x # xids_[c] => outcome'[x] = outcome[x]
         /\ outcome'[xids_[c]] # "open"
<1> USE EngineBounds, SameXid
<1>1. /\ xids_[c] \in TM!GetActiveTransactions
      /\ xid2cid_' = [xid2cid_ EXCEPT ![xids_[c]] = 0]
      /\ xid2active_set_' = [xid2active_set_ EXCEPT ![xids_[c]] = {0}]
      /\ next_xid_' = next_xid_
  BY DEF Commit, Rollback, TM!Commit, TM!Rollback, TM!Finishable, TM!Forget, TM!NoCid, TM!NoSnapshot
<1>2. xids_[c] \in Xid
  BY <1>1 DEF TM!GetActiveTransactions
<1>3. 0 \in 0 .. MaxCid + 1
  OBVIOUS
<1>4. \/ outcome' = [outcome EXCEPT ![xids_[c]] = "committed"]
      \/ outcome' = [outcome EXCEPT ![xids_[c]] = "aborted"]
  BY DEF Commit, Rollback
<1>5. xids_' = [xids_ EXCEPT ![c] = NoXid] /\ opened' = opened
  BY DEF Commit, Rollback
<1> QED BY <1>1, <1>2, <1>3, <1>4, <1>5 DEF EngineInv, Typed

\* The invariant speaks of these variables only.
LEMMA Untouched ==
  ASSUME UNCHANGED <<xactVars, xids_, history>>
  PROVE  /\ next_xid_' = next_xid_ /\ xid2cid_' = xid2cid_ /\ xid2active_set_' = xid2active_set_
         /\ xids_' = xids_ /\ opened' = opened /\ outcome' = outcome /\ stuck' = stuck
BY DEF xactVars, history

----------------------------------------------------------------------------
(* One lemma per part of the invariant for the steps that begin or end a   *)
(* transaction.                                                            *)

\* After a Begin for a connection that exists and has no transaction.
LEMMA BeginOwners ==
  ASSUME EngineInv, NEW c \in connected, xids_[c] = NoXid,
         NEW by \in {"block", "engine"}, Begin(c, by), connected' = connected
  PROVE  Owners'
<1> c \in Conn
  BY DEF EngineInv, Typed
<1>1. \A d \in Conn : xids_[d] # next_xid_
  BY BeginEffect, SameXid DEF EngineInv, Owners
<1>2. \A x \in Xid : xid2cid_'[x] # 0 <=> outcome'[x] = "open"
  BY BeginEffect DEF EngineInv, Owners
<1>3. \A d \in Conn : xids_'[d] # NoXid => d \in connected /\ xid2cid_'[xids_'[d]] # 0
  <2> SUFFICES ASSUME NEW d \in Conn, xids_'[d] # NoXid
               PROVE  d \in connected /\ xid2cid_'[xids_'[d]] # 0
    OBVIOUS
  <2>1. CASE d = c
    BY <2>1, BeginEffect
  <2>2. CASE d # c
    <3>1. xids_'[d] = xids_[d] /\ xids_[d] \in Xid
      BY <2>2, BeginEffect DEF EngineInv, Typed
    <3> QED BY <3>1, BeginEffect DEF EngineInv, Owners
  <2> QED BY <2>1, <2>2
<1>4. \A d, e \in Conn : xids_'[d] # NoXid /\ xids_'[d] = xids_'[e] => d = e
  BY <1>1, BeginEffect DEF EngineInv, Owners
<1>5. \A x \in Xid : xid2cid_'[x] # 0 => \E d \in connected : xids_'[d] = x
  <2> SUFFICES ASSUME NEW x \in Xid, xid2cid_'[x] # 0
               PROVE  \E d \in connected : xids_'[d] = x
    OBVIOUS
  <2>1. CASE x = next_xid_
    BY <2>1, BeginEffect
  <2>2. CASE x # next_xid_
    <3>1. PICK d \in connected : xids_[d] = x
      BY <2>2, BeginEffect DEF EngineInv, Owners
    <3> QED BY <3>1, BeginEffect, SameXid DEF EngineInv, Typed
  <2> QED BY <2>1, <2>2
<1> QED BY <1>2, <1>3, <1>4, <1>5 DEF Owners

\* After a Commit or Rollback; the connection may go away with it.
LEMMA EndOwners ==
  ASSUME EngineInv, NEW c \in Conn, Commit(c) \/ Rollback(c),
         connected' = connected \/ connected' = connected \ {c}
  PROVE  Owners'
<1>1. xids_[c] \in Xid /\ xids_[c] # NoXid /\ c \in connected
  BY EndEffect, SameXid DEF EngineInv, Owners
<1>2. \A d \in Conn : d # c => xids_[d] # xids_[c]
  BY <1>1 DEF EngineInv, Owners
<1>3. \A d \in Conn : xids_'[d] # NoXid => d # c /\ xids_'[d] = xids_[d] /\ d \in connected'
  BY EndEffect DEF EngineInv, Owners
<1>4. \A x \in Xid : xid2cid_'[x] # 0 => x # xids_[c] /\ xid2cid_[x] # 0
  BY EndEffect
<1>5. \A x \in Xid : xid2cid_'[x] # 0 => \E d \in connected' : xids_'[d] = x
  <2> SUFFICES ASSUME NEW x \in Xid, xid2cid_'[x] # 0
               PROVE  \E d \in connected' : xids_'[d] = x
    OBVIOUS
  <2>1. PICK d \in connected : xids_[d] = x
    BY <1>4 DEF EngineInv, Owners
  <2>2. d # c /\ d \in Conn /\ d \in connected'
    BY <1>4, <2>1 DEF EngineInv, Typed
  <2> QED BY <2>1, <2>2, EndEffect
<1>6. \A x \in Xid : xid2cid_'[x] # 0 <=> outcome'[x] = "open"
  BY EndEffect DEF EngineInv, Owners
<1>7. \A d \in Conn : xids_'[d] # NoXid => d \in connected' /\ xid2cid_'[xids_'[d]] # 0
  <2> SUFFICES ASSUME NEW d \in Conn, xids_'[d] # NoXid
               PROVE  d \in connected' /\ xid2cid_'[xids_'[d]] # 0
    OBVIOUS
  <2>1. d # c /\ xids_'[d] = xids_[d] /\ d \in connected' /\ xids_[d] \in Xid
    BY <1>3 DEF EngineInv, Typed
  <2>2. xid2cid_[xids_[d]] # 0 /\ xids_[d] # xids_[c]
    BY <2>1, <1>2 DEF EngineInv, Owners
  <2> QED BY <2>1, <2>2, EndEffect
<1>8. \A d, e \in Conn : xids_'[d] # NoXid /\ xids_'[d] = xids_'[e] => d = e
  BY <1>3, EndEffect DEF EngineInv, Owners
<1> QED BY <1>5, <1>6, <1>7, <1>8 DEF Owners

----------------------------------------------------------------------------
(* The steps.                                                              *)

\* Init has no connections and no transactions.
LEMMA InitEngine == Init => EngineInv
<1> SUFFICES ASSUME Init PROVE EngineInv
  OBVIOUS
<1> USE EngineBounds, SameXid
<1>1. /\ next_xid_ = 1 /\ xid2cid_ = [x \in Xid |-> 0]
      /\ xid2active_set_ = [x \in Xid |-> {0}]
  BY DEF Init, TM!Init, TM!FIRST_XID, TM!NoCid, TM!NoSnapshot
<1>2. Typed
  BY <1>1 DEF Init, Typed
<1> QED BY <1>1, <1>2 DEF Init, EngineInv, Owners, Threads, AutoSet

\* BEGIN, and a begin record that throws.
LEMMA StepBegin ==
  ASSUME EngineInv, NEW c \in Conn, NEW by \in {"block", "engine"},
         BeginThrows(c, by) \/ (by = "block" /\ BeginStatement(c))
  PROVE  EngineInv'
<1>1. /\ c \in connected /\ pc[c] = "idle" /\ xids_[c] = NoXid /\ Begin(c, by)
      /\ auto_transaction_set_' = auto_transaction_set_ /\ connected' = connected /\ pc' = pc
      /\ stuck' = stuck \/ stuck' = stuck \cup {c}
      /\ by = "engine" => c \in stuck'
  BY DEF BeginStatement, BeginThrows, Idle, InTransaction
<1>2. Typed'
  BY <1>1, BeginEffect DEF EngineInv, Typed
<1>3. Owners'
  BY <1>1, BeginOwners
<1>4. Threads'
  BY <1>1, BeginEffect, SameXid DEF EngineInv, Threads
<1>5. AutoSet'
  <2> SUFFICES ASSUME NEW d \in Conn \ stuck'
               PROVE  /\ d \in auto_transaction_set_ => pc[d] # "idle"
                      /\ pc[d] = "ddl" => d \in auto_transaction_set_
                      /\ xids_'[d] # NoXid =>
                           (d \in auto_transaction_set_ <=> opened'[xids_'[d]] = "engine")
    BY <1>1 DEF AutoSet
  <2>0. d \in Conn \ stuck
    BY <1>1
  <2>1. CASE d = c
    <3>1. by # "engine" /\ d \notin auto_transaction_set_
      BY <2>0, <2>1, <1>1 DEF EngineInv, AutoSet
    <3> QED BY <2>0, <2>1, <3>1, <1>1, BeginEffect DEF EngineInv, AutoSet
  <2>2. CASE d # c
    <3>1. xids_'[d] = xids_[d]
      BY <2>2, <1>1, BeginEffect
    <3>2. xids_[d] # NoXid => xids_[d] \in Xid /\ xids_[d] # next_xid_
      BY <1>1, BeginEffect DEF EngineInv, Typed, Owners
    <3> QED BY <1>1, <2>0, <3>1, <3>2, BeginEffect DEF EngineInv, AutoSet
  <2> QED BY <2>1, <2>2
<1> QED BY <1>2, <1>3, <1>4, <1>5 DEF EngineInv

\* COMMIT and ROLLBACK, and a disconnected client: the end of a transaction
\* outside of any statement.
LEMMA StepEnd ==
  ASSUME EngineInv, NEW c \in Conn, Idle(c), Commit(c) \/ Rollback(c),
         connected' = connected \/ connected' = connected \ {c},
         auto_transaction_set_' = auto_transaction_set_, pc' = pc, stuck' = Unstuck(c)
  PROVE  EngineInv'
<1>1. Typed'
  BY EndEffect DEF EngineInv, Typed, Unstuck
<1>2. Owners'
  BY EndOwners
<1>3. Threads'
  BY EndEffect DEF EngineInv, Threads, Idle
<1>4. AutoSet'
  BY EndEffect DEF EngineInv, AutoSet, Idle, Unstuck
<1> QED BY <1>1, <1>2, <1>3, <1>4 DEF EngineInv

\* The statement's thread ends a transaction of the engine.
LEMMA StepEndAuto ==
  ASSUME EngineInv, NEW c \in Conn, Commit(c) \/ Rollback(c), connected' = connected,
         auto_transaction_set_' = auto_transaction_set_ \ {c}, pc' = [pc EXCEPT ![c] = "idle"],
         stuck' = stuck \ {c}
  PROVE  EngineInv'
<1>1. Typed'
  BY EndEffect DEF EngineInv, Typed
<1>2. Owners'
  BY EndOwners
<1>3. Threads'
  BY EndEffect DEF EngineInv, Typed, Threads
<1>4. AutoSet'
  BY EndEffect DEF EngineInv, Typed, AutoSet
<1> QED BY <1>1, <1>2, <1>3, <1>4 DEF EngineInv

\* The first step of a statement.
LEMMA StepStatement ==
  ASSUME EngineInv, NEW c \in Conn, NEW kind \in {"query", "ddl", "utility"}, Statement(c, kind)
  PROVE  EngineInv'
<1>1. /\ c \in connected /\ pc[c] = "idle" /\ connected' = connected
      /\ pc' = [pc EXCEPT ![c] = kind]
      /\ kind = "ddl" => c \in auto_transaction_set_ \/ xids_[c] = NoXid
  BY DEF Statement, Idle, InTransaction, CheckInTransaction
<1>2. CASE xids_[c] # NoXid
  <2>1. UNCHANGED <<xactVars, xids_, history>> /\ auto_transaction_set_' = auto_transaction_set_
    BY <1>2 DEF Statement, InTransaction
  <2>2. Typed' /\ Owners' /\ Threads'
    BY <1>1, <1>2, <2>1, Untouched DEF EngineInv, Typed, Owners, Threads
  <2>3. AutoSet'
    BY <1>1, <1>2, <2>1, Untouched DEF EngineInv, Typed, AutoSet
  <2> QED BY <2>2, <2>3 DEF EngineInv
<1>3. CASE xids_[c] = NoXid
  <2>1. /\ Begin(c, "engine") /\ auto_transaction_set_' = auto_transaction_set_ \cup {c}
        /\ stuck' = stuck \ {c}
    BY <1>3 DEF Statement, InTransaction
  <2>2. Typed'
    BY <1>1, <2>1, BeginEffect DEF EngineInv, Typed
  <2>3. Owners'
    BY <1>1, <1>3, <2>1, BeginOwners
  <2>4. Threads'
    BY <1>1, <2>1, BeginEffect, SameXid DEF EngineInv, Typed, Threads
  <2>5. AutoSet'
    <3> SUFFICES ASSUME NEW d \in Conn \ stuck'
                 PROVE  /\ d \in auto_transaction_set_' => pc'[d] # "idle"
                        /\ pc'[d] = "ddl" => d \in auto_transaction_set_'
                        /\ xids_'[d] # NoXid =>
                             (d \in auto_transaction_set_' <=> opened'[xids_'[d]] = "engine")
      BY DEF AutoSet
    <3>1. CASE d = c
      BY <3>1, <1>1, <2>1, BeginEffect DEF EngineInv, Typed
    <3>2. CASE d # c
      <4>1. xids_'[d] = xids_[d] /\ pc'[d] = pc[d]
        BY <3>2, <1>1, <2>1, BeginEffect DEF EngineInv, Typed
      <4>2. xids_[d] # NoXid => xids_[d] \in Xid /\ xids_[d] # next_xid_
        BY <2>1, BeginEffect DEF EngineInv, Typed, Owners
      <4> QED BY <2>1, <3>2, <4>1, <4>2, BeginEffect DEF EngineInv, AutoSet
    <3> QED BY <3>1, <3>2
  <2> QED BY <2>2, <2>3, <2>4, <2>5 DEF EngineInv
<1> QED BY <1>2, <1>3

\* A command id is taken.
LEMMA StepPlan ==
  ASSUME EngineInv, NEW c \in Conn, Plan(c)
  PROVE  EngineInv'
<1> USE EngineBounds, SameXid
<1>1. /\ pc[c] = "query" /\ pc' = [pc EXCEPT ![c] = "executing"]
      /\ xids_' = xids_ /\ auto_transaction_set_' = auto_transaction_set_ /\ connected' = connected
      /\ opened' = opened /\ outcome' = outcome /\ stuck' = stuck
      /\ next_xid_' = next_xid_ /\ xid2active_set_' = xid2active_set_
  BY DEF Plan, TM!GetCidAndIncrement, history
<1>2. /\ xids_[c] \in Xid /\ xid2cid_[xids_[c]] # 0 /\ xid2cid_[xids_[c]] <= MaxCid
      /\ xid2cid_' = [xid2cid_ EXCEPT ![xids_[c]] = @ + 1]
  BY DEF Plan, TM!GetCidAndIncrement, TM!GetActiveTransactions, TM!NoCid
<1>3. /\ xid2cid_' \in [Xid -> 0 .. MaxCid + 1]
      /\ \A x \in Xid : xid2cid_'[x] # 0 <=> xid2cid_[x] # 0
  <2> DEFINE cid == xid2cid_[xids_[c]]
  <2>1. cid \in 0 .. MaxCid + 1
    BY <1>2 DEF EngineInv, Typed
  <2> HIDE DEF cid
  <2>2. cid <= MaxCid
    BY <1>2 DEF cid
  <2>3. cid + 1 \in 0 .. MaxCid + 1 /\ cid + 1 # 0
    BY <2>1, <2>2
  <2>4. xid2cid_' = [xid2cid_ EXCEPT ![xids_[c]] = cid + 1]
    BY <1>2 DEF cid
  <2> QED BY <1>2, <2>3, <2>4 DEF EngineInv, Typed
<1>4. Typed' /\ Threads' /\ AutoSet'
  BY <1>1, <1>3 DEF EngineInv, Typed, Threads, AutoSet
<1>5. Owners'
  <2>1. \A d \in Conn : xids_[d] # NoXid => xids_[d] \in Xid
    BY DEF EngineInv, Typed
  <2> QED BY <1>1, <1>3, <2>1 DEF EngineInv, Owners
<1> QED BY <1>4, <1>5 DEF EngineInv

\* Finish, Throw and Escape.
LEMMA StepDone ==
  ASSUME EngineInv, NEW c \in Conn, Finish(c) \/ Throw(c) \/ Escape(c)
  PROVE  EngineInv'
<1>1. connected' = connected /\ pc' = [pc EXCEPT ![c] = "idle"]
  BY DEF Finish, Throw, Escape
<1>2. CASE /\ Commit(c) \/ Rollback(c)
           /\ auto_transaction_set_' = auto_transaction_set_ \ {c}
           /\ stuck' = stuck \ {c}
  BY <1>1, <1>2, StepEndAuto
<1>3. CASE /\ c \notin auto_transaction_set_
           /\ UNCHANGED <<xactVars, xids_, auto_transaction_set_, history>>
  <2>1. UNCHANGED <<xactVars, xids_, history>>
    BY <1>3
  <2> QED BY <1>1, <1>3, <2>1, Untouched DEF EngineInv, Typed, Owners, Threads, AutoSet
<1>4. CASE Escape(c)
  <2>1. /\ next_xid_' = next_xid_ /\ xid2cid_' = xid2cid_ /\ xid2active_set_' = xid2active_set_
        /\ xids_' = xids_ /\ opened' = opened /\ outcome' = outcome
        /\ stuck' = stuck \cup ({c} \cap auto_transaction_set_)
        /\ auto_transaction_set_' = auto_transaction_set_
    BY <1>4 DEF Escape, xactVars
  <2> QED BY <1>1, <2>1 DEF EngineInv, Typed, Owners, Threads, AutoSet
<1> QED BY <1>2, <1>3, <1>4 DEF Finish, Throw

\* Connect and Disconnect.
LEMMA StepConnection ==
  ASSUME EngineInv, NEW c \in Conn, Connect(c) \/ Disconnect(c)
  PROVE  EngineInv'
<1>1. auto_transaction_set_' = auto_transaction_set_ /\ pc' = pc
  BY DEF Connect, Disconnect
<1>2. CASE Connect(c)
  <2>1. UNCHANGED <<xactVars, xids_, history>> /\ connected' = connected \cup {c}
    BY <1>2 DEF Connect
  <2> QED BY <1>1, <2>1, Untouched DEF EngineInv, Typed, Owners, Threads, AutoSet
<1>3. CASE Disconnect(c) /\ InTransaction(c)
  BY <1>1, <1>3, StepEnd DEF Disconnect
<1>4. CASE Disconnect(c) /\ ~InTransaction(c)
  <2>1. /\ UNCHANGED <<xactVars, xids_, history>> /\ connected' = connected \ {c}
        /\ pc[c] = "idle" /\ xids_[c] = NoXid
    BY <1>4 DEF Disconnect, Idle, InTransaction
  <2>2. \A x \in Xid : \A d \in connected : xids_[d] = x => d # c
    BY <2>1, SameXid
  <2> QED BY <1>1, <2>1, <2>2, Untouched DEF EngineInv, Typed, Owners, Threads, AutoSet
<1> QED BY <1>2, <1>3, <1>4

\* The invariant is inductive.
LEMMA StepEngine == EngineInv /\ [Next]_vars => EngineInv'
<1> SUFFICES ASSUME EngineInv, [Next]_vars PROVE EngineInv'
  OBVIOUS
<1>1. CASE UNCHANGED vars
  BY <1>1 DEF vars, EngineInv, Typed, Owners, Threads, AutoSet
<1>2. ASSUME NEW c \in Conn, CommitStatement(c) \/ RollbackStatement(c) PROVE EngineInv'
  BY <1>2, StepEnd DEF CommitStatement, RollbackStatement
<1>3. ASSUME NEW c \in Conn, BeginStatement(c) PROVE EngineInv'
  BY <1>3, StepBegin
<1> QED BY <1>1, <1>2, <1>3, StepBegin, StepStatement, StepPlan, StepDone, StepConnection
        DEF Next, Running

----------------------------------------------------------------------------

\* The inductive invariant implies what the runs check.
LEMMA EngineInvImplies == EngineInv => SessionInv
<1> SUFFICES ASSUME EngineInv PROVE SessionInv
  OBVIOUS
<1>1. TM!GetActiveTransactions = {x \in Xid : xid2cid_[x] # 0}
  BY SameXid DEF TM!GetActiveTransactions, TM!NoCid
<1>2. TypeOK
  BY <1>1 DEF EngineInv, Typed, Owners, TypeOK, InTransaction
<1>3. SessionsOwnTransactions
  <2> SUFFICES ASSUME NEW x \in TM!GetActiveTransactions
               PROVE  /\ Cardinality({c \in Conn : xids_[c] = x}) = 1
                      /\ \E c \in connected : xids_[c] = x
    BY DEF SessionsOwnTransactions
  <2>1. PICK c \in connected : xids_[c] = x
    BY <1>1 DEF EngineInv, Owners
  <2>2. {d \in Conn : xids_[d] = x} = {c}
    BY <1>1, <2>1, SameXid DEF EngineInv, Typed, Owners
  <2> QED BY <2>1, <2>2, FS_Singleton
<1>4. DdlOutsideBlock
  BY SameXid DEF EngineInv, Typed, Threads, AutoSet, DdlOutsideBlock, InTransaction
<1> QED BY <1>2, <1>3, <1>4 DEF SessionInv

\* SessionInv: a transaction is active exactly while it belongs to one existing
\* connection, whatever the statements, exceptions and disconnections of
\* DatabaseEngine::ExecuteSql and the server do; and DDL runs in transactions
\* the engine opened only, on every connection that no unhandled exception has
\* left with an open transaction or a stale flag.
THEOREM Sessions == Spec => []SessionInv
<1>1. Init => EngineInv
  BY InitEngine
<1>2. EngineInv /\ [Next]_vars => EngineInv'
  BY StepEngine
<1> QED BY <1>1, <1>2, EngineInvImplies, PTL DEF Spec

\* One step ends a transaction block only at the word of its client.
LEMMA BlockEnd ==
  ASSUME EngineInv, [Next]_vars, NEW c \in Conn \ stuck,
         InTransaction(c), opened[xids_[c]] = "block", xids_'[c] # xids_[c]
  PROVE  CommitStatement(c) \/ RollbackStatement(c) \/ Disconnect(c)
<1>1. c \notin auto_transaction_set_
  BY DEF EngineInv, AutoSet, InTransaction
<1>2. PICK d \in Conn :
        \/ BeginStatement(d) \/ CommitStatement(d) \/ RollbackStatement(d)
        \/ \E by \in {"block", "engine"} : BeginThrows(d, by)
        \/ \E kind \in {"query", "ddl", "utility"} : Statement(d, kind)
        \/ Running(d) \/ Connect(d) \/ Disconnect(d)
  BY DEF Next, vars
<1>3. CASE Commit(d) \/ Rollback(d)
  <2>1. d = c
    BY <1>3, EndEffect
  <2> QED BY <1>1, <1>2, <2>1, <1>3 DEF BeginStatement, BeginThrows, CommitStatement,
         RollbackStatement, Statement, Running, Plan, Finish, Throw, Escape, Connect, Disconnect,
         history, InTransaction
<1>4. CASE \E by \in {"block", "engine"} : Begin(d, by) /\ ~InTransaction(d)
  BY <1>4, BeginEffect DEF InTransaction
<1>5. CASE xids_' = xids_
  BY <1>5
<1> QED BY <1>2, <1>3, <1>4, <1>5 DEF BeginStatement, BeginThrows, CommitStatement, RollbackStatement,
          Statement, Running, Plan, Finish, Throw, Escape, Connect, Disconnect

\* BlockEndedByClient: ExecuteSql never ends a transaction block because one of
\* its statements is done or has thrown, unless an exception no handler caught
\* has left the connection's flag set before the block began.
THEOREM BlocksEndByClient == Spec => BlockEndedByClient
<1>1. Init => EngineInv
  BY InitEngine
<1>2. EngineInv /\ [Next]_vars => EngineInv'
  BY StepEngine
<1>3. EngineInv /\ [Next]_vars =>
        [\A c \in Conn \ stuck :
           /\ InTransaction(c) /\ opened[xids_[c]] = "block" /\ xids_'[c] # xids_[c]
           => CommitStatement(c) \/ RollbackStatement(c) \/ Disconnect(c)]_vars
  BY BlockEnd
<1> QED BY <1>1, <1>2, <1>3, PTL DEF Spec, BlockEndedByClient
============================================================================
