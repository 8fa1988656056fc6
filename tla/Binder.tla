------------------------------- MODULE Binder -------------------------------
(***************************************************************************)
(* The binder (binder/binder.cpp): the names of a parsed statement are     *)
(* resolved against the tables of its FROM clause and the aliases of its   *)
(* select list.  One Binder object binds all statements of an SQL string;  *)
(* what it keeps between them is [table_names, aliases, adding_alias].     *)
(*                                                                         *)
(* A parsed expression is a tree of nodes with args.  A column reference   *)
(* is <<column>> or <<table, column>>; a resolved one is <<table, column>> *)
(* or the <<alias>> it stands for.  An exception is the expression         *)
(* ThrowExpr in place of what would have been bound; CrashExpr stands for  *)
(* a null pointer that is dereferenced later.                              *)
(***************************************************************************)
EXTENDS Expressions, SequencesExt

CONSTANT Columns   \* table -> sequence of [name, type]: what the catalog holds

Tables == DOMAIN Columns

Ref(name) == [kind |-> "ref", name |-> name, args |-> <<>>]
ThrowExpr == [kind |-> "throw", args |-> <<>>]
CrashExpr == [kind |-> "crash", args |-> <<>>]
NoExpr == [kind |-> "none", args |-> <<>>]

RECURSIVE Holds(_, _)
Holds(e, kind) == e.kind = kind \/ \E i \in DOMAIN e.args : Holds(e.args[i], kind)

NewBinder == [table_names |-> {}, aliases |-> {}, adding_alias |-> TRUE]

(***************************************************************************)
(* Table references.  A FROM item is [kind |-> "base", table, name] (name  *)
(* is the alias when there is one) or [kind |-> "join", type, left, right, *)
(* cond].  The tables below a reference, in order.                         *)
(***************************************************************************)
RECURSIVE Bases(_)
Bases(ref) == IF ref.kind = "base" THEN <<ref>> ELSE Bases(ref.left) \o Bases(ref.right)

ColumnNames(table) == [i \in DOMAIN Columns[table] |-> Columns[table][i].name]

\* A qualified name matches by its table alone: that the table has such a
\* column is the planner's to find out.
Matches(base, name) ==
    IF Len(name) > 1 THEN name[1] = base.name ELSE name[1] \in ToSet(ColumnNames(base.table))

\* NoExpr is the null pointer.
ResolveColumnInternal(bases, name) ==
    LET found == {i \in DOMAIN bases : Matches(bases[i], name)} IN
    IF found = {} THEN NoExpr
    ELSE IF Cardinality(found) > 1 THEN ThrowExpr
    ELSE Ref(<<bases[CHOOSE i \in found : TRUE].name, Last(name)>>)

\* table_ is null until a FROM clause is bound: scope is then NoScope.
NoScope == [known |-> FALSE, bases |-> <<>>]
Scope(bases) == [known |-> TRUE, bases |-> bases]

AliasesOf(b, name) == {a \in b.aliases : a[1] = name}

ResolveColumn(b, scope, name) ==
    LET column == ResolveColumnInternal(scope.bases, name) IN
    CASE ~scope.known -> CrashExpr
      [] scope.known /\ scope.bases = <<>> -> ThrowExpr
      [] scope.known /\ scope.bases /= <<>> ->
           IF column.kind = "none"
           THEN IF Len(name) /= 1 \/ Cardinality(AliasesOf(b, name[1])) /= 1
                THEN ThrowExpr ELSE Ref(name)
           ELSE IF ~b.adding_alias /\ Len(name) = 1 /\ AliasesOf(b, name[1]) /= {}
                THEN ThrowExpr ELSE column

RECURSIVE BindExpression(_, _, _)
BindExpression(b, scope, e) ==
    IF e.kind = "ref" THEN ResolveColumn(b, scope, e.name)
    ELSE [e EXCEPT !.args = [i \in DOMAIN e.args |-> BindExpression(b, scope, e.args[i])]]

\* A table name, or the alias in its place, is used once in an SQL string.
\* Mutant of NamesOf: the table's own name is taken too.
NamesOfBoth(base) == {base.name, base.table}

NamesOf(base) == {base.name}

BindBaseTableRef(b, base) ==
    IF NamesOf(base) \cap b.table_names /= {} \/ base.table \notin Tables THEN <<>>
    ELSE <<[b EXCEPT !.table_names = @ \cup NamesOf(base)]>>

\* <<>> when a name is used twice or no table has it.
BindBases(b, bases) ==
    FoldLeft(LAMBDA acc, base : IF acc = <<>> THEN <<>> ELSE BindBaseTableRef(acc[1], base), <<b>>, bases)

RECURSIVE BindJoins(_, _)
BindJoins(b, ref) ==
    IF ref.kind = "base" THEN ref
    ELSE [ref EXCEPT
            !.left = BindJoins(b, @),
            !.right = BindJoins(b, @),
            !.cond = IF @.kind = "using"
                     THEN LET side(r) == LET c == ResolveColumnInternal(Bases(r), @.name)
                                         IN  IF c.kind = "none" THEN CrashExpr ELSE c
                          IN  Op("binary", "=", <<side(ref.left), side(ref.right)>>)
                     ELSE BindExpression(b, Scope(Bases(ref)), @)]

\* A list of FROM items is a left-deep cross join; its condition is true.
CrossJoin(left, right) ==
    [kind |-> "join", type |-> "cross", left |-> left, right |-> right, cond |-> Const(Bool(TRUE))]
FromTree(items) == FoldLeft(CrossJoin, Head(items), Tail(items))

RECURSIVE RefThrows(_)
RefThrows(ref) ==
    ref.kind /= "base" /\ (Holds(ref.cond, "throw") \/ RefThrows(ref.left) \/ RefThrows(ref.right))

(***************************************************************************)
(* The select list.                                                        *)
(***************************************************************************)
GetAllColumns(bases) ==
    FlattenSeq([i \in DOMAIN bases |->
                  [j \in DOMAIN Columns[bases[i].table] |->
                     Ref(<<bases[i].name, Columns[bases[i].table][j].name>>)]])

\* A star takes the place of all that was bound before it.
BindTarget(acc, scope, target) ==
    LET bound == BindExpression(acc.binder, scope, target)
    IN  CASE target.kind = "star" -> [acc EXCEPT !.exprs = GetAllColumns(scope.bases)]
          [] target.kind = "alias" ->
               [binder |-> [acc.binder EXCEPT !.aliases = @ \cup {<<target.op, bound.args[1]>>}],
                exprs |-> Append(acc.exprs, bound)]
          [] OTHER -> [acc EXCEPT !.exprs = Append(@, bound)]

BindSelectList(b, scope, list) ==
    FoldLeft(LAMBDA acc, target : BindTarget(acc, scope, target), [binder |-> b, exprs |-> <<>>], list)

(***************************************************************************)
(* Statements.  BindStatement returns [binder, stmt]; the statement        *)
(* "throws" or "crashes" in place of one that could not be bound.          *)
(***************************************************************************)
Refused == [kind |-> "throws"]

\* VALUES lists are bound before any table: a column there meets a null
\* pointer, or what an earlier statement of the string has left.
BindValues(b, rows) ==
    [i \in DOMAIN rows |-> [j \in DOMAIN rows[i] |-> BindExpression(b, NoScope, rows[i][j])]]

AnyThrows(exprs) == \E i \in DOMAIN exprs : Holds(exprs[i], "throw")

\* s with FROM and WHERE bound; list is its bound select list.
BindOrderBy(s, scope, list) ==
    LET after == [list.binder EXCEPT !.adding_alias = FALSE]
        order == [i \in DOMAIN s.order |-> [s.order[i] EXCEPT !.expr = BindExpression(after, scope, @)]]
        bad == \/ AnyThrows(s.where) \/ AnyThrows(list.exprs)
               \/ \E i \in DOMAIN order : Holds(order[i].expr, "throw")
               \/ s.from /= <<>> /\ RefThrows(s.from[1])
    IN  [binder |-> after, stmt |-> IF bad THEN Refused ELSE [s EXCEPT !.list = list.exprs, !.order = order]]

\* The WHERE clause is bound before the select list adds its aliases.
BindClauses(b, s, scope) ==
    BindOrderBy([s EXCEPT !.where = [i \in DOMAIN @ |-> BindExpression(b, scope, @[i])]], scope,
                BindSelectList(b, scope, s.list))

BindFrom(b, s) ==
    IF s.from = <<>> THEN BindClauses(b, s, Scope(<<>>))
    ELSE LET tree == FromTree(s.from)
         IN  BindClauses(b, [s EXCEPT !.from = <<BindJoins(b, tree)>>], Scope(Bases(tree)))

BindSelectStatement(b, s) ==
    LET named == BindBases(b, FlattenSeq([i \in DOMAIN s.from |-> Bases(s.from[i])])) IN
    IF named = <<>> \/ (s.from = <<>> /\ \E i \in DOMAIN s.list : s.list[i].kind = "star")
    THEN [binder |-> b, stmt |-> Refused]
    ELSE BindFrom(named[1], s)

\* The bound statement with its WHERE clause; TRUE when there is none.
BindFiltered(b, s, base) ==
    LET where == IF s.where = <<>> THEN Const(Bool(TRUE)) ELSE BindExpression(b, Scope(<<base>>), s.where[1])
    IN  [binder |-> b, stmt |-> IF Holds(where, "throw") THEN Refused ELSE [s EXCEPT !.where = <<where>>]]

Base(table) == [kind |-> "base", table |-> table, name |-> table]

BindDeleteStatement(b, s) == BindFiltered(b, s, Base(s.table))

\* A column that the table lacks stays in the list, as a null pointer.
BindUpdateStatement(b, s) ==
    LET exprs == [i \in DOMAIN s.sets |-> BindExpression(b, Scope(<<Base(s.table)>>), s.sets[i].expr)]
    IN  IF AnyThrows(exprs) THEN [binder |-> b, stmt |-> Refused]
        ELSE BindFiltered(b, [s EXCEPT !.sets = [i \in DOMAIN @ |-> [@[i] EXCEPT !.expr = exprs[i]]]], Base(s.table))

\* The source is a VALUES list or a SELECT.
BindInsertStatement(b, s) ==
    LET rows == BindValues(b, s.rows)
        crash == \E i \in DOMAIN rows : \E j \in DOMAIN rows[i] : Holds(rows[i][j], "crash")
        into(query) == [query EXCEPT !.stmt = IF @.kind = "select" THEN [s EXCEPT !.query = query.stmt] ELSE @]
    IN  IF \E i \in DOMAIN s.columns : s.columns[i] \notin ToSet(ColumnNames(s.table))
        THEN [binder |-> b, stmt |-> Refused]
        ELSE IF s.rows /= <<>> THEN [binder |-> b, stmt |-> IF crash THEN [kind |-> "crashes"] ELSE [s EXCEPT !.rows = rows]]
        ELSE into(BindSelectStatement(b, s.query))

\* INSERT, DELETE and UPDATE, once the name of their table is taken.
BindModification(b, s) ==
    CASE s.kind = "insert" -> BindInsertStatement(b, s)
      [] s.kind = "delete" -> BindDeleteStatement(b, s)
      [] s.kind = "update" -> BindUpdateStatement(b, s)

BindStatement(b, s) ==
    IF s.kind = "select" THEN BindSelectStatement(b, s)
    ELSE LET named == BindBaseTableRef(b, Base(s.table))
         IN  IF named = <<>> THEN [binder |-> b, stmt |-> Refused] ELSE BindModification(named[1], s)
=============================================================================
