------------------------------ MODULE Executors ------------------------------
(***************************************************************************)
(* The executors (executors/): what a plan returns, run to its end.  A row *)
(* is [vals, rid]; an outcome is the sequence of rows, or the exception or *)
(* the undefined behaviour that ended the run.  std::sort makes the        *)
(* outcome a choice: it keeps the order of equal rows only for short       *)
(* inputs.  The rows a scan sees are those of the table (visibility is in  *)
(* Mvcc, locking in Mvcc and LockManager).                                 *)
(***************************************************************************)
EXTENDS Optimizer, TLC

CONSTANT StableUpTo   \* std::sort is an insertion sort up to this many rows: 16 in libstdc++

ASSUME StableUpToAssumption == StableUpTo \in Nat

Rows(rows) == [end |-> "ok", rows |-> rows]
Fails(why) == [end |-> why, rows |-> <<>>]
Ok(outcome) == outcome.end = "ok"

\* What an executor that pulls row by row makes of the rows below it: it sees
\* those that come before a failure.
Stream(outcome, f(_)) == LET o == f(outcome.rows) IN IF Ok(o) THEN [o EXCEPT !.end = outcome.end] ELSE o

\* One that needs all rows first meets the failure first.
Then(outcome, f(_)) == IF Ok(outcome) THEN f(outcome.rows) ELSE {Fails(outcome.end)}

ValuesFail(vs) == \E i \in DOMAIN vs : Failed(vs[i])

\* A stored value of another type than its column is read as garbage.
Readable(table, record) ==
    \A i \in DOMAIN record : IsNull(record[i]) \/ record[i].type = Columns[table][i].type

SeqScan(db, table) ==
    IF \A r \in DOMAIN db[table] : Readable(table, db[table][r])
    THEN Rows([r \in DOMAIN db[table] |-> [vals |-> db[table][r], rid |-> r]])
    ELSE Fails("undefined")

\* The rows up to the first bad one, and how that one ended the run.
UpTo(bad, why(_), rows) ==
    IF bad = {} THEN Rows(rows) ELSE [end |-> why(FirstOf(bad)), rows |-> SubSeq(rows, 1, FirstOf(bad) - 1)]

\* A NULL predicate does not hold; one that is no BOOL is refused.
PassRows(rows, vs) ==
    LET bad == {i \in DOMAIN rows : vs[i].type \notin {"BOOL", "NULL"}}
        why(i) == IF Failed(vs[i]) THEN vs[i].type ELSE "throws"
        seen == UpTo(bad, why, [i \in DOMAIN rows |-> [row |-> rows[i], hit |-> IsTrue(vs[i])]])
        hits == SelectSeq(seen.rows, LAMBDA x : x.hit)
    IN  [seen EXCEPT !.rows = [i \in DOMAIN hits |-> hits[i].row]]

FilterRows(pred, rows) == PassRows(rows, [i \in DOMAIN rows |-> Evaluate(pred, rows[i].vals)])

ProjectRows(exprs, rows) ==
    LET vals == [r \in DOMAIN rows |-> [i \in DOMAIN exprs |-> Evaluate(exprs[i], rows[r].vals)]]
        bad == {r \in DOMAIN rows : ValuesFail(vals[r])}
    IN  UpTo(bad, LAMBDA r : FirstFailure(vals[r]).type,
             [r \in DOMAIN rows |-> [rows[r] EXCEPT !.vals = vals[r]]])

(***************************************************************************)
(* ORDER BY: one std::sort for each key, the last key first.               *)
(***************************************************************************)
Before(desc, v, w) == IF desc THEN v.val > w.val ELSE v.val < w.val

SortBy(key, rows) ==
    LET n == Len(rows)
        ks == [i \in 1 .. n |-> Evaluate(key.expr, rows[i].vals)]
        kept(p) == \A i, j \in 1 .. n : i < j =>
                      /\ ~Before(key.desc, ks[p[j]], ks[p[i]])
                      /\ n <= StableUpTo /\ ks[p[i]] = ks[p[j]] => p[i] < p[j]
    IN  IF n < 2 THEN {Rows(rows)}
        ELSE IF ValuesFail(ks) THEN {Fails(FirstFailure(ks).type)}
        ELSE IF \E i, j \in 1 .. n : ~Sortable(ks[i], ks[j]) THEN {Fails("throws")}
        ELSE {Rows([i \in 1 .. n |-> rows[p[i]]]) : p \in {p \in Permutations(1 .. n) : kept(p)}}

\* Mutant of SortRows: the first key is sorted by first.
SortRowsFirstFirst(keys, rows) ==
    FoldLeft(LAMBDA outcomes, key : UNION {Then(o, LAMBDA rs : SortBy(key, rs)) : o \in outcomes},
             {Rows(rows)}, keys)

SortRows(keys, rows) ==
    FoldRight(LAMBDA key, outcomes : UNION {Then(o, LAMBDA rs : SortBy(key, rs)) : o \in outcomes},
              keys, {Rows(rows)})

LimitRows(offset, count, rows) ==
    LET rest == SubSeq(rows, offset + 1, Len(rows))
    IN  IF count = <<>> THEN rest ELSE SubSeq(rest, 1, IF count[1] < Len(rest) THEN count[1] ELSE Len(rest))

\* No row beyond the limit is asked for.
Limit(offset, count, outcome) ==
    [rows |-> LimitRows(offset, count, outcome.rows),
     end |-> IF count /= <<>> /\ Len(outcome.rows) >= offset + count[1] THEN "ok" ELSE outcome.end]

(***************************************************************************)
(* Joins.  A joined row keeps the rid of its left one.                     *)
(***************************************************************************)
Joined(l, r) == [l EXCEPT !.vals = @ \o r.vals]

\* A condition that is NULL is refused.  Outer joins are inner ones here.
JoinPairs(pairs, vs) ==
    LET bad == {k \in DOMAIN vs : vs[k].type /= "BOOL"}
        failed(v) == Fails(IF Failed(v) THEN v.type ELSE "throws")
        hits == SelectSeq([k \in DOMAIN vs |-> k], LAMBDA k : IsTrue(vs[k]))
    IN  IF bad /= {} THEN failed(vs[FirstOf(bad)])
        ELSE Rows([i \in DOMAIN hits |-> Joined(pairs[hits[i]][1], pairs[hits[i]][2])])

NestedLoopJoin(cond, ls, rs) ==
    LET n == Len(rs)
        pairs == [k \in 1 .. Len(ls) * n |-> <<ls[((k - 1) \div n) + 1], rs[((k - 1) % n) + 1]>>]
    IN  JoinPairs(pairs, [k \in DOMAIN pairs |-> EvaluateJoin(cond, pairs[k][1].vals, pairs[k][2].vals)])

\* The first position from i on where P does not hold, or the end.
Skip(i, n, P(_)) == FirstOf({j \in i .. n : ~P(j)} \cup {n + 1})

\* Mutant of GroupSize: a left row is joined with one right row.
GroupSizeOne(s, e) == 1

\* Every left row of a group is joined with all right rows of it.
GroupSize(s, e) == e - s

\* The iterators r and s, from 1; lk and rk are the keys.  When the right
\* rows end before the left ones the right end is dereferenced, and when the
\* keys differ s is set to an iterator that was never assigned.
RECURSIVE Merge(_, _, _, _, _, _, _)
Merge(ls, rs, lk, rk, r, s, out) ==
    LET nl == Len(ls)
        nr == Len(rs)
        s1 == Skip(s, nr, LAMBDA j : lk[r].val > rk[j].val)
        r1 == Skip(r, nl, LAMBDA j : lk[j].val < rk[s1].val)
        s2 == Skip(s1, nr, LAMBDA j : rk[j].val = lk[r1].val)
        r2 == Skip(r1, nl, LAMBDA j : lk[j].val = rk[s1].val)
        w == GroupSize(s1, s2)
        group == [k \in 1 .. (r2 - r1) * w |-> Joined(ls[r1 + ((k - 1) \div w)], rs[s1 + ((k - 1) % w)])]
    IN  IF r > nl \/ s > nr THEN Rows(out)
        ELSE IF s1 > nr THEN Fails("undefined")
        ELSE IF r1 > nl THEN Rows(out)
        ELSE IF lk[r1].val /= rk[s1].val THEN Fails("undefined")
        ELSE Merge(ls, rs, lk, rk, r2, s2, out \o group)

\* The keys are compared with Less, Greater and Equal.
MergeJoin(left_key, right_key, ls, rs) ==
    LET lk == [i \in DOMAIN ls |-> Evaluate(left_key, ls[i].vals)]
        rk == [i \in DOMAIN rs |-> Evaluate(right_key, rs[i].vals)]
    IN  IF ls = <<>> \/ rs = <<>> THEN Rows(<<>>)
        ELSE IF ValuesFail(lk \o rk) \/ ~Sortable(lk[1], rk[1]) THEN Fails("throws")
        ELSE Merge(ls, rs, lk, rk, 1, 1, <<>>)

(***************************************************************************)
(* The set of outcomes of a plan.  Hash joins and aggregates are not       *)
(* written yet: they return no row.                                        *)
(***************************************************************************)
RECURSIVE Run(_, _)
Run(db, p) ==
    LET stream(f(_)) == {Stream(o, f) : o \in Run(db, p.children[1])}
        all(k, f(_)) == UNION {Then(o, f) : o \in Run(db, p.children[k])}
        both(f(_, _)) == all(1, LAMBDA ls : all(2, LAMBDA rs : {f(ls, rs)}))
        record(exprs) == [j \in DOMAIN exprs |-> Evaluate(exprs[j], <<>>)]
    IN  CASE p.op = "scan" -> {SeqScan(db, p.table)}
          [] p.op = "values" -> {Rows([i \in DOMAIN p.rows |-> [vals |-> record(p.rows[i]), rid |-> 0]])}
          [] p.op = "filter" -> stream(LAMBDA rows : FilterRows(p.pred, rows))
          [] p.op = "projection" -> stream(LAMBDA rows : ProjectRows(p.exprs, rows))
          [] p.op = "order" -> all(1, LAMBDA rows : SortRows(p.keys, rows))
          [] p.op = "limit" -> {Limit(p.offset, p.count, o) : o \in Run(db, p.children[1])}
          [] p.op = "lock_rows" -> Run(db, p.children[1])
          [] p.op = "nested_loop" -> both(LAMBDA ls, rs : NestedLoopJoin(p.cond, ls, rs))
          [] p.op = "merge_join" -> both(LAMBDA ls, rs : MergeJoin(p.left_key, p.right_key, ls, rs))
          [] p.op \in {"hash_join", "aggregate"} -> {Rows(<<>>)}

(***************************************************************************)
(* Modifications: the outcomes [end, rows, db].  A statement that fails is *)
(* rolled back.                                                            *)
(***************************************************************************)
CountRow(n) == <<[vals |-> <<Value("UINT", n)>>, rid |-> 0]>>

\* Columns that are not listed become NULL.
InsertedRow(table, columns, vals) ==
    [i \in DOMAIN Columns[table] |->
       LET at == {k \in DOMAIN columns : columns[k] = Columns[table][i].name}
       IN  IF at = {} THEN Null ELSE vals[CHOOSE k \in at : \A j \in at : j <= k]]

Insert(db, p, rows) ==
    LET new == [r \in DOMAIN rows |-> InsertedRow(p.table, p.columns, rows[r].vals)]
    IN  [end |-> "ok", rows |-> CountRow(Len(rows)), db |-> [db EXCEPT ![p.table] = @ \o new]]

Without(records, rows) ==
    LET rids == {rows[i].rid : i \in DOMAIN rows}
        left == SelectSeq([r \in DOMAIN records |-> r], LAMBDA r : r \notin rids)
    IN  [i \in DOMAIN left |-> records[left[i]]]

Delete(db, p, rows) ==
    [end |-> "ok", rows |-> CountRow(Len(rows)), db |-> [db EXCEPT ![p.table] = Without(@, rows)]]

\* An update is a deletion and an insertion.
Update(db, p, rows) ==
    LET new == ProjectRows(p.exprs, rows)
    IN  IF Ok(new)
        THEN [end |-> "ok", rows |-> CountRow(Len(rows)),
              db |-> [db EXCEPT ![p.table] = Without(@, rows) \o [i \in DOMAIN rows |-> new.rows[i].vals]]]
        ELSE [end |-> new.end, rows |-> <<>>, db |-> db]

Execute(db, p) ==
    LET modify(o) == IF ~Ok(o) THEN [end |-> o.end, rows |-> <<>>, db |-> db]
                     ELSE CASE p.op = "insert" -> Insert(db, p, o.rows)
                            [] p.op = "delete" -> Delete(db, p, o.rows)
                            [] p.op = "update" -> Update(db, p, o.rows)
    IN  CASE p.op = "throws" -> {[end |-> "throws", rows |-> <<>>, db |-> db]}
          [] p.op = "crashes" -> {[end |-> "undefined", rows |-> <<>>, db |-> db]}
          [] p.op \in {"insert", "delete", "update"} -> {modify(o) : o \in Run(db, p.children[1])}
          [] OTHER -> {[end |-> o.end, rows |-> IF Ok(o) THEN o.rows ELSE <<>>, db |-> db] : o \in Run(db, p)}
=============================================================================
