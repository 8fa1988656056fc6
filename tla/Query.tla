-------------------------------- MODULE Query --------------------------------
(***************************************************************************)
(* The way of an SQL string through DatabaseEngine::ExecuteSql: it is      *)
(* parsed into statements, and each of them is bound, planned, optimized   *)
(* if enable_optimizer_ says so, executed, and committed or, when          *)
(* something throws, rolled back.  One Binder binds all statements of the  *)
(* string; an exception drops those that are left.                         *)
(*                                                                         *)
(* Statements run one after the other and outside of transaction blocks:   *)
(* what concurrent ones see of each other is in Mvcc, blocks are in        *)
(* DatabaseEngine.  Undefined behaviour ends the run of the server here.   *)
(***************************************************************************)
EXTENDS QuerySemantics

CONSTANTS
    Strings,    \* SQL strings that clients send: sequences of parsed statements
    Settings,   \* pairs <<force_join, enable_optimizer>> that clients set
    MaxRows     \* bound on the rows of a table

ASSUME QueryAssumption ==
    /\ MaxRows \in Nat
    /\ Settings \subseteq {"none", "merge", "hash"} \X BOOLEAN

VARIABLES
    db,                             \* the rows of every table
    force_join_, enable_optimizer_, \* settings of the engine
    binder,                         \* the Binder of the string
    rest,                           \* the statements after the current one
    phase,                          \* what comes next: "idle" between strings
    stmt, bound, plan,              \* the statement as parsed, bound and planned
    result,                         \* [end, rows]
    before, earlier                 \* history: db before the statement, statements of the string before it

vars == <<db, force_join_, enable_optimizer_, binder, rest, phase, stmt, bound, plan, result, before, earlier>>

NoResult == [end |-> "none", rows |-> <<>>]

Init ==
    /\ db = [t \in Tables |-> <<>>]
    /\ force_join_ = "none" /\ enable_optimizer_ = TRUE
    /\ binder = NewBinder
    /\ rest = <<>> /\ phase = "idle"
    /\ stmt = NoStatement /\ bound = NoStatement /\ plan = NoPlan("none")
    /\ result = NoResult
    /\ before = db /\ earlier = <<>>

VariableSet(force, enable) ==
    /\ phase = "idle"
    /\ force_join_' = force /\ enable_optimizer_' = enable
    /\ UNCHANGED <<db, binder, rest, phase, stmt, bound, plan, result, before, earlier>>

\* The next statement is bound with what the Binder has kept.
Take(statements) ==
    /\ stmt' = Head(statements) /\ rest' = Tail(statements)
    /\ phase' = "bind" /\ before' = db
    /\ bound' = NoStatement /\ plan' = NoPlan("none") /\ result' = NoResult
    /\ UNCHANGED <<db, force_join_, enable_optimizer_, binder>>

Parse(string) ==
    /\ phase = "idle"
    /\ Take(string)
    /\ UNCHANGED earlier

\* The statement is done with; a null pointer met ends in undefined behaviour.
Done(end, rows) ==
    /\ phase' = "done"
    /\ result' = [end |-> end, rows |-> rows]

HowEnds(refusal) == IF refusal = "crashes" THEN "undefined" ELSE refusal

Keep(b) ==
    /\ binder' = b.binder
    /\ bound' = b.stmt
    /\ IF b.stmt.kind \in {"throws", "crashes"} THEN Done(HowEnds(b.stmt.kind), <<>>)
       ELSE phase' = "plan" /\ UNCHANGED result

Bind ==
    /\ phase = "bind"
    /\ Keep(BindStatement(binder, stmt))
    /\ UNCHANGED <<db, force_join_, enable_optimizer_, rest, stmt, plan, before, earlier>>

OptimizeIf(enable, p) == IF enable /\ Planned(p) THEN Optimize(p) ELSE p

PlanWith(force, enable, s) == OptimizeIf(enable, PlanQuery(force, s))

Plan ==
    /\ phase = "plan"
    /\ plan' = PlanWith(force_join_, enable_optimizer_, bound)
    /\ IF Planned(plan') THEN phase' = "execute" /\ UNCHANGED result ELSE Done(HowEnds(plan'.op), <<>>)
    /\ UNCHANGED <<db, force_join_, enable_optimizer_, binder, rest, stmt, bound, before, earlier>>

ExecutePlan ==
    /\ phase = "execute"
    /\ \E o \in Execute(db, plan) :
          /\ \A t \in Tables : Len(o.db[t]) <= MaxRows
          /\ db' = o.db
          /\ Done(o.end, o.rows)
    /\ UNCHANGED <<force_join_, enable_optimizer_, binder, rest, stmt, bound, plan, before, earlier>>

NextStatement ==
    /\ phase = "done" /\ result.end = "ok" /\ rest /= <<>>
    /\ Take(rest)
    /\ earlier' = Append(earlier, stmt)

\* The string is done, or its rest is dropped; the Binder goes with it.
EndOfString ==
    /\ phase = "done"
    /\ result.end = "throws" \/ (result.end = "ok" /\ rest = <<>>)
    /\ phase' = "idle"
    /\ binder' = NewBinder /\ rest' = <<>> /\ before' = db /\ earlier' = <<>>
    /\ stmt' = NoStatement /\ bound' = NoStatement /\ plan' = NoPlan("none") /\ result' = NoResult
    /\ UNCHANGED <<db, force_join_, enable_optimizer_>>

Next ==
    \/ \E s \in Settings : VariableSet(s[1], s[2])
    \/ \E string \in Strings : Parse(string)
    \/ Bind \/ Plan \/ ExecutePlan
    \/ NextStatement \/ EndOfString

Spec == Init /\ [][Next]_vars

(***************************************************************************)
(* Properties.                                                             *)
(***************************************************************************)
\* Rows of a table have its number of columns, rows of a result that of the
\* plan, and integers are int32_t.
TypeOK ==
    /\ \A t \in Tables : \A i \in DOMAIN db[t] :
          /\ Len(db[t][i]) = Len(Columns[t])
          /\ \A j \in DOMAIN db[t][i] : db[t][i][j].type = "INT" => db[t][i][j].val \in -MaxInt - 1 .. MaxInt
    /\ phase \in {"idle", "bind", "plan", "execute", "done"}
    /\ result.end \in {"none", "ok", "throws", "undefined"}
    /\ \A i \in DOMAIN result.rows : Len(result.rows[i].vals) = IF plan.cols = <<>> THEN 1 ELSE Len(plan.cols)

Answered(kind) == phase = "done" /\ result.end = "ok" /\ stmt.kind = kind
ResultVals == [i \in DOMAIN result.rows |-> result.rows[i].vals]


RECURSIVE Nodes(_)
Nodes(e) == {e} \cup UNION {Nodes(e.args[i]) : i \in DOMAIN e.args}

RECURSIVE Joins(_)
Joins(ref) == IF ref.kind = "base" THEN {} ELSE {ref} \cup Joins(ref.left) \cup Joins(ref.right)
JoinsOf(s) == UNION {Joins(s.from[i]) : i \in DOMAIN s.from}

\* An OR that is true although one of its sides is NULL.  The code makes it
\* NULL.
OrMeetsNull(s) ==
    \E c \in Conditions(s) : \E n \in Nodes(c) : \E a \in Picks(before, BasesOf(s)) :
        /\ n.kind = "binary" /\ n.op = "or"
        /\ \E i \in 1 .. 2 : IsNull(Meaning(n.args[i], RowOf(before, BasesOf(s), a)))

\* The queries that the engine means to answer as SQL does: not DISTINCT (its
\* executor is not written), outer joins (executed as inner ones), a star
\* after other targets (which it drops), and join conditions that test the
\* columns with NOT, IS NULL, lists or casts (evaluated on the left record).
Standard(s) ==
    /\ ~s.distinct
    /\ \A j \in JoinsOf(s) : j.type \in {"inner", "cross"}
    /\ \A i \in DOMAIN s.list : s.list[i].kind = "star" => i = 1
    /\ \A j \in JoinsOf(s) : \A n \in Nodes(On(j)) :
          n.kind \in {"not", "null_test", "list", "cast"} => \A m \in Nodes(n) : m.kind /= "ref"
    /\ ~OrMeetsNull(s)

\* Sorting by several keys needs a stable sort.
SortsExactly(s) == Len(s.order) < 2 \/ Cardinality(Answers(before, s)) <= StableUpTo

\* A query that is planned without forced joins and without the optimizer, and
\* that neither throws nor meets undefined behaviour, returns what SQL says:
\* binder, planner and executors together lose, add and misplace no row,
\* through joins, predicates with NULL, ORDER BY and LIMIT.
AnswerExact ==
    Answered("select") /\ force_join_ = "none" /\ ~enable_optimizer_ /\ Standard(stmt) /\ SortsExactly(stmt)
    => IsAnswer(before, stmt, ResultVals)

\* The first column of the condition is of the left side, the second of the
\* right one.
KeysInOrder(j) ==
    LET e == On(j)
        of(r, n) == n.kind = "ref" /\ \E i \in DOMAIN Bases(r) : Matches(Bases(r)[i], n.name)
    IN  e.kind = "binary" /\ e.op = "=" /\ of(j.left, e.args[1]) /\ of(j.right, e.args[2])

\* A merge join that ends, with its keys written in the order of its sides,
\* returns the rows of the nested loop join: equal keys on both sides, and
\* rows left over on one, included.
MergeAgrees ==
    Answered("select") /\ force_join_ = "merge" /\ ~enable_optimizer_
        /\ Standard(stmt) /\ SortsExactly(stmt) /\ (\A j \in JoinsOf(stmt) : KeysInOrder(j))
    => IsAnswer(before, stmt, ResultVals)

\* PushDown goes through projections, filters and joins only.
PushesDown(s) ==
    /\ s.kind = "select" /\ s.where /= <<>> /\ ~s.distinct /\ ~s.lock
    /\ s.order \o s.limit \o s.offset = <<>>

\* The one predicate is about the first table only, or is none that can be
\* pushed: where it may go, its column indexes are right.
PushesSafely(s) ==
    LET e == s.where[1]
        bases == BasesOf(s)
        refs == {n \in Nodes(e) : n.kind = "ref"}
    IN  /\ ~(e.kind = "binary" /\ e.op = "and")
        /\ \/ Len(bases) < 2
           \/ e.kind \in {"not", "null_test", "const"} \/ (e.kind = "binary" /\ e.op = "or")
           \/ \A n \in refs : Matches(bases[1], n.name) /\ \A i \in 2 .. Len(bases) : ~Matches(bases[i], n.name)
        /\ Len(bases) > 1 => ~(e.kind = "binary" /\ \A i \in DOMAIN e.args : e.args[i].kind = "ref")

Outcome == [end |-> result.end, rows |-> result.rows, db |-> db]
IsOutcomeOf(planned) == (\A o \in planned : o.end = "ok") => Outcome \in planned

\* Where no predicate is pushed to a place it was not planned for, the
\* optimizer changes no answer: what the plan returns as it was planned, it
\* returns after splitting and pushing down too.
OptimizerKeepsAnswer ==
    phase = "done" /\ enable_optimizer_ /\ plan.op \notin {"none", "throws", "crashes"}
        /\ (PushesDown(stmt) => PushesSafely(stmt))
    => IsOutcomeOf(Execute(before, PlanQuery(force_join_, bound)))

\* UPDATE and DELETE change the rows for which the condition holds and no
\* other, and the set columns and no other; INSERT adds the new rows with
\* their columns in their places.
ModificationExact ==
    /\ Answered("update") \/ Answered("delete") => OrMeetsNull(stmt) \/ IsModification(before, stmt, db)
    /\ Answered("insert") /\ force_join_ = "none" /\ (stmt.rows = <<>> => Standard(stmt.query))
          => IsInsertion(before, stmt, db)

\* A value of a column that is not NULL is of the column's type.
WellTyped(d) == \A t \in Tables : \A i \in DOMAIN d[t] : Readable(t, d[t][i])

\* The statement inserts the result of arithmetic on DOUBLEs.
StoresDoubles(s) ==
    LET targets == Range(s.query.list) \cup UNION {Range(s.rows[i]) : i \in DOMAIN s.rows}
        double(m) == \/ m.kind = "const" /\ m.value.type = "DOUBLE"
                     \/ m.kind = "ref" /\ \E t \in Tables : \E i \in DOMAIN Columns[t] :
                          Columns[t][i] = [name |-> Last(m.name), type |-> "DOUBLE"]
    IN  \E e \in targets : \E n \in Nodes(e) :
            n.kind = "binary" /\ n.op \in Arithmetics /\ \E m \in Nodes(n) : double(m)

\* An INSERT of one row, or of the rows of a query, stores only what a scan
\* can read back, but for arithmetic on DOUBLEs, which is planned as INT.  (The
\* rows after the first of a VALUES list, and UPDATE, are not checked by the
\* planner.)
StoredTyped ==
    Answered("insert") /\ Len(stmt.rows) < 2 /\ ~StoresDoubles(stmt) /\ WellTyped(before) => WellTyped(db)

NamesIn(s) ==
    {BasesOf(s)[i].name : i \in DOMAIN BasesOf(s)}
      \cup (IF s.kind = "insert" THEN {BasesOf(s.query)[i].name : i \in DOMAIN BasesOf(s.query)} ELSE {})
AliasesIn(s) == IF s.kind = "select" THEN {t.op : t \in {t \in Range(s.list) : t.kind = "alias"}} ELSE {}
Clashes ==
    \E i \in DOMAIN earlier : NamesIn(earlier[i]) \cap NamesIn(stmt) /= {} \/ AliasesIn(earlier[i]) /= {}

\* The outcomes of the statement, had it come in a string of its own.
OutcomesOf(s) ==
    IF s.kind \in {"throws", "crashes"} THEN {[end |-> HowEnds(s.kind), rows |-> <<>>, db |-> before]}
    ELSE Execute(before, PlanWith(force_join_, enable_optimizer_, s))
Alone == OutcomesOf(BindStatement(NewBinder, stmt).stmt)

\* A statement of a longer string has the outcome it has alone, or is refused
\* because it uses a table name that an earlier one used or comes after
\* aliases: names the Binder has kept never make it mean something else.
BatchExact ==
    phase = "done" =>
        \/ Outcome \in Alone
        \/ result.end = "throws" /\ Clashes

RECURSIVE Conjuncts(_)
Conjuncts(e) == IF e.kind = "logic" /\ e.op = "and" THEN UNION {Conjuncts(e.args[i]) : i \in 1 .. 2} ELSE {e}

RECURSIVE Predicates(_)
Predicates(p) ==
    (CASE p.op = "filter" -> Conjuncts(p.pred) [] p.op = "nested_loop" -> Conjuncts(p.cond) [] OTHER -> {})
      \cup UNION {Predicates(p.children[i]) : i \in DOMAIN p.children}

\* Optimizing removes a filter only where its predicate was pushed down
\* ("若成功下推，则无需保留", optimizer.cpp): every predicate of the plan is in the
\* optimized plan.
PredicatesKept ==
    phase = "execute" => Predicates(PlanQuery(force_join_, bound)) \ {Const(Bool(TRUE))} \subseteq Predicates(plan)
=============================================================================
