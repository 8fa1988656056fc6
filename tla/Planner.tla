------------------------------- MODULE Planner -------------------------------
(***************************************************************************)
(* The planner (planner/planner.cpp): a bound statement becomes a tree of  *)
(* operators.  A node has its kind in op, its output columns (sequence of  *)
(* [name, type]) in cols and its inputs in children.  A column reference   *)
(* becomes an index into the record of the node below, or, in a join       *)
(* condition, into the left or the right one.  The plan "throws" or        *)
(* "crashes" in place of one that could not be built.  Grouping and        *)
(* aggregate functions are left out (their executor returns nothing), and  *)
(* so are the lengths of strings and with them CHAR columns and the        *)
(* refusal of a value that is too long for its column.                     *)
(***************************************************************************)
EXTENDS Binder

NoPlan(why) == [op |-> why, children |-> <<>>]
Planned(p) == p.op \notin {"throws", "crashes"}
Blame(exprs) == IF \E i \in DOMAIN exprs : Holds(exprs[i], "crash") THEN NoPlan("crashes") ELSE NoPlan("throws")
Sound(exprs) == \A i \in DOMAIN exprs : ~Holds(exprs[i], "crash") /\ ~Holds(exprs[i], "throw")

(***************************************************************************)
(* Expressions.  sides is the list of column lists below: one, or two in a *)
(* join condition.  aliases is the set of <<alias, planned expression>>    *)
(* the select list has added.                                              *)
(***************************************************************************)
IndexesOf(cols, name) == {i \in DOMAIN cols : cols[i].name = name}
ColumnAt(cols, name, left) ==
    LET i == CHOOSE i \in IndexesOf(cols, name) : \A j \in IndexesOf(cols, name) : i <= j
    IN  Column(i, cols[i].type, name, left)

\* A name that is no column may be the alias of one.  In a join condition the
\* size of a right column is read from the left list, at the right index: past
\* its end that is undefined.
PlanColumnRef(aliases, sides, name) ==
    LET in == {k \in DOMAIN sides : IndexesOf(sides[k], name) /= {}}
        named == {a \in aliases : <<a[1]>> = name}
    IN  IF Cardinality(in) = 1
        THEN LET k == CHOOSE k \in in : TRUE
                 column == ColumnAt(sides[k], name, k = 1)
             IN  IF column.idx > Len(sides[1]) THEN CrashExpr ELSE column
        ELSE IF Len(sides) = 1 /\ Cardinality(named) = 1 /\ (CHOOSE a \in named : TRUE)[2].kind = "column"
        THEN (CHOOSE a \in named : TRUE)[2]
        ELSE ThrowExpr

BinaryFactory(op, args) ==
    LET onList == args[2].kind = "list" IN
    CASE op \in Arithmetics -> Op("arithmetic", op, args)
      [] op \in {"and", "or"} -> Op("logic", op, args)
      [] op = "=" /\ onList -> Op("comparison", "in", args)
      [] op = "!=" /\ onList -> Op("comparison", "not_in", args)
      [] op \in Comparisons /\ ~(op \in {"=", "!="} /\ onList) -> Op("comparison", op, args)

RECURSIVE PlanExpression(_, _, _)
PlanExpression(aliases, sides, e) ==
    LET args == [i \in DOMAIN e.args |-> PlanExpression(aliases, sides, e.args[i])] IN
    CASE e.kind = "ref" -> PlanColumnRef(aliases, sides, e.name)
      [] e.kind = "alias" -> args[1]
      [] e.kind = "binary" -> BinaryFactory(e.op, args)
      [] e.kind = "not" -> Op("logic", "not", args)
      [] OTHER -> [e EXCEPT !.args = args]

(***************************************************************************)
(* Tables and joins.                                                       *)
(***************************************************************************)
GetColumnList(base) ==
    [i \in DOMAIN Columns[base.table] |->
       [name |-> <<base.name, Columns[base.table][i].name>>, type |-> Columns[base.table][i].type]]

Scan(base) == [op |-> "scan", table |-> base.table, name |-> base.name,
               cols |-> GetColumnList(base), children |-> <<>>]
Filter(pred, child) == [op |-> "filter", pred |-> pred, cols |-> child.cols, children |-> <<child>>]
OrderBy(keys, child) == [op |-> "order", keys |-> keys, cols |-> child.cols, children |-> <<child>>]

\* force_join_ asks for another join; it is given for an equality of two
\* columns.  The first column is taken for the left key, the second for the
\* right one, whichever side they belong to.
PlanJoin(force, left, right, cond) ==
    LET equal == cond.kind = "comparison" /\ cond.op = "=" /\ \A i \in 1 .. 2 : cond.args[i].kind = "column"
        keyed(op, l, r) == [op |-> op, left_key |-> cond.args[1], right_key |-> cond.args[2],
                            cols |-> left.cols \o right.cols, children |-> <<l, r>>]
        sorted(child, key) == OrderBy(<<[expr |-> key, desc |-> FALSE]>>, child)
    IN  CASE equal /\ force = "merge" ->
               keyed("merge_join", sorted(left, cond.args[1]), sorted(right, cond.args[2]))
          [] equal /\ force = "hash" -> keyed("hash_join", left, right)
          [] OTHER -> [op |-> "nested_loop", cond |-> cond, cols |-> left.cols \o right.cols,
                       children |-> <<left, right>>]

\* A cross join is never forced.
RECURSIVE PlanTableRef(_, _)
PlanTableRef(force, ref) ==
    IF ref.kind = "base" THEN Scan(ref)
    ELSE LET left == PlanTableRef(force, ref.left)
             right == PlanTableRef(force, ref.right)
             cond == PlanExpression({}, <<left.cols, right.cols>>, ref.cond)
         IN  CASE ~Planned(left) -> left
               [] Planned(left) /\ ~Planned(right) -> right
               [] Planned(left) /\ Planned(right) ->
                    IF Sound(<<cond>>) THEN PlanJoin(force, left, right, cond) ELSE Blame(<<cond>>)

(***************************************************************************)
(* Statements.                                                             *)
(***************************************************************************)
\* SELECT without FROM: one empty row.
EmptyRow == [op |-> "values", rows |-> <<<<>>>>, cols |-> <<>>, children |-> <<>>]

PlanAliases(sides, list) ==
    LET one(acc, e) == IF e.kind = "alias" THEN acc \cup {<<e.op, PlanExpression(acc, sides, e)>>} ELSE acc
    IN  FoldLeft(one, {}, list)

\* An integer, not negative, or the statement is refused.
Count(es) == IF es = <<>> THEN Num(0) ELSE Evaluate(PlanExpression({}, <<<<>>>>, es[1]), <<>>)
CountRefused(es) == es /= <<>> /\ (Count(es).type /= "INT" \/ Count(es).val < 0)

Project(exprs, child) ==
    [op |-> "projection", exprs |-> exprs, children |-> <<child>>,
     cols |-> [i \in DOMAIN exprs |-> [name |-> IF exprs[i].kind = "column" THEN exprs[i].name ELSE <<"<no_name>">>,
                                       type |-> TypeOf(exprs[i])]]]

\* The clauses of a SELECT, each an operator above the plan of those before it.
FilterBy(where, child) == IF where = <<>> THEN child ELSE Filter(where[1], child)
SortedBy(keys, child) == IF keys = <<>> THEN child ELSE OrderBy(keys, child)
LimitTo(s, child) ==
    IF s.limit \o s.offset = <<>> THEN child
    ELSE [op |-> "limit", cols |-> child.cols, children |-> <<child>>, offset |-> Count(s.offset).val,
          count |-> IF s.limit = <<>> THEN <<>> ELSE <<Count(s.limit).val>>]
LockRows(s, child) == IF s.lock THEN [op |-> "lock_rows", cols |-> child.cols, children |-> <<child>>] ELSE child
Distinct(s, child) == IF s.distinct THEN [op |-> "aggregate", cols |-> child.cols, children |-> <<child>>] ELSE child

PlanClauses(s, table, where, exprs, keys) ==
    LET all == where \o exprs \o [i \in DOMAIN keys |-> keys[i].expr] IN
    IF ~Sound(all) THEN Blame(all)
    ELSE IF CountRefused(s.limit) \/ CountRefused(s.offset) \/ (s.lock /\ table.op /= "scan") THEN NoPlan("throws")
    ELSE Distinct(s, Project(exprs, LockRows(s, LimitTo(s, SortedBy(keys, FilterBy(where, table))))))

PlanOver(s, table, aliases) ==
    LET planned(known, es) == [i \in DOMAIN es |-> PlanExpression(known, <<table.cols>>, es[i])]
    IN  PlanClauses(s, table, planned({}, s.where), planned(aliases, s.list),
                    [i \in DOMAIN s.order |-> [s.order[i] EXCEPT !.expr = PlanExpression(aliases, <<table.cols>>, @)]])

\* FROM, then WHERE, which knows no alias, select list and ORDER BY.
PlanFrom(s, table) == IF Planned(table) THEN PlanOver(s, table, PlanAliases(<<table.cols>>, s.list)) ELSE table

PlanSelect(force, s) == PlanFrom(s, IF s.from = <<>> THEN EmptyRow ELSE PlanTableRef(force, s.from[1]))

\* The columns of a VALUES list are typed by its first row.
PlanValues(rows) ==
    LET cols == [j \in DOMAIN rows[1] |-> [name |-> <<"#", j>>, type |-> TypeOf(PlanExpression({}, <<>>, rows[1][j]))]]
        planned == [i \in DOMAIN rows |-> [j \in DOMAIN rows[i] |-> PlanExpression({}, <<>>, rows[i][j])]]
        values == [op |-> "values", rows |-> planned, cols |-> cols, children |-> <<>>]
    IN  Project([j \in DOMAIN cols |-> ColumnAt(cols, <<"#", j>>, TRUE)], values)

TypeFits(child, table) == child = table \/ child = "NULL"

\* Mutant of TypesFit: the last column is not looked at.
TypesFitButLast(childCols, types) == \A i \in 1 .. Len(types) - 1 : TypeFits(childCols[i].type, types[i])

TypesFit(childCols, types) == \A i \in DOMAIN types : TypeFits(childCols[i].type, types[i])

TypeOfColumn(table, column) ==
    Columns[table][CHOOSE i \in DOMAIN Columns[table] : Columns[table][i].name = column].type

PlanInsertFrom(s, columns, source) ==
    LET types == [i \in DOMAIN columns |-> TypeOfColumn(s.table, columns[i])]
    IN  IF ~Planned(source) THEN source
        ELSE IF Len(source.cols) /= Len(columns) \/ ~TypesFit(source.cols, types) THEN NoPlan("throws")
        ELSE [op |-> "insert", table |-> s.table, columns |-> columns, cols |-> <<>>, children |-> <<source>>]

PlanInsert(force, s) ==
    PlanInsertFrom(s, IF s.columns = <<>> THEN ColumnNames(s.table) ELSE s.columns,
                   IF s.rows /= <<>> THEN PlanValues(s.rows) ELSE PlanSelect(force, s.query))

PlanDelete(s) ==
    LET table == Scan(Base(s.table))
        where == PlanExpression({}, <<table.cols>>, s.where[1])
    IN  IF ~Sound(<<where>>) THEN Blame(<<where>>)
        ELSE [op |-> "delete", table |-> s.table, cols |-> <<>>, children |-> <<Filter(where, table)>>]

\* Mutant of Unset: a column that is not set becomes NULL.
UnsetToNull(cols, i) == Const(Null)

\* A column that is not set keeps its value.
Unset(cols, i) == Column(i, cols[i].type, cols[i].name, TRUE)

\* The types of the new values are not checked.
PlanUpdate(s) ==
    LET table == Scan(Base(s.table))
        where == PlanExpression({}, <<table.cols>>, s.where[1])
        planned == [k \in DOMAIN s.sets |-> PlanExpression({}, <<table.cols>>, s.sets[k].expr)]
        sets(i) == {k \in DOMAIN s.sets : <<s.table, s.sets[k].column>> = table.cols[i].name}
        exprs == [i \in DOMAIN table.cols |->
                    IF sets(i) = {} THEN Unset(table.cols, i)
                    ELSE planned[CHOOSE k \in sets(i) : \A j \in sets(i) : j <= k]]
    IN  CASE ~Sound(<<where>>) -> Blame(<<where>>)
          [] Sound(<<where>>) /\ \E k \in DOMAIN s.sets : s.sets[k].column \notin ToSet(ColumnNames(s.table)) ->
               NoPlan("crashes")
          [] OTHER -> IF Sound(planned)
                      THEN [op |-> "update", table |-> s.table, exprs |-> exprs, cols |-> <<>>,
                            children |-> <<Filter(where, table)>>]
                      ELSE Blame(planned)

PlanQuery(force, s) ==
    CASE s.kind = "select" -> PlanSelect(force, s)
      [] s.kind = "insert" -> PlanInsert(force, s)
      [] s.kind = "delete" -> PlanDelete(s)
      [] s.kind = "update" -> PlanUpdate(s)
=============================================================================
