------------------------------- MODULE MCQuery -------------------------------
(* Two tables, t1(a INT) and t2(a INT, b VARCHAR), and the statements that   *)
(* clients send: every clause, alone and with those it interacts with.       *)
EXTENDS Query

MCColumns == [t1 |-> <<[name |-> "a", type |-> "INT"]>>,
              t2 |-> <<[name |-> "a", type |-> "INT"], [name |-> "b", type |-> "VARCHAR"]>>]

N(n) == Const(Num(n))
S(n) == Const(Str(n))
D(n) == Const(Value("DOUBLE", n))
Nul == Const(Null)
a == Ref(<<"a">>)
b == Ref(<<"b">>)
C(t, c) == Ref(<<t, c>>)
B(op, x, y) == Op("binary", op, <<x, y>>)
L(es) == Op("list", "", es)
As(e, name) == Op("alias", name, <<e>>)
Star == [kind |-> "star", args |-> <<>>]
T(table, name) == [kind |-> "base", table |-> table, name |-> name]
J(type, l, r, cond) == [kind |-> "join", type |-> type, left |-> l, right |-> r, cond |-> cond]
Using(c) == [kind |-> "using", name |-> <<c>>, args |-> <<>>]

From(items) == [kind |-> "select", from |-> items, list |-> <<Star>>, where |-> <<>>, order |-> <<>>,
                limit |-> <<>>, offset |-> <<>>, lock |-> FALSE, distinct |-> FALSE]
Where(items, e) == [From(items) EXCEPT !.where = <<e>>]
Asc(e) == [expr |-> e, desc |-> FALSE]
Desc(e) == [expr |-> e, desc |-> TRUE]

T1 == <<Base("t1")>>
T2 == <<Base("t2")>>
Both == <<Base("t1"), Base("t2")>>
Inner(cond) == <<J("inner", Base("t1"), Base("t2"), cond)>>
Equi == B("=", C("t1", "a"), C("t2", "a"))
Chain == J("inner", J("inner", T("t1", "x"), T("t1", "y"), B("=", C("x", "a"), C("y", "a"))), T("t1", "z"),
           B("=", C("y", "a"), C("z", "a")))

Insert1(table, vals) == [kind |-> "insert", table |-> table, columns |-> <<>>, rows |-> <<vals>>, query |-> From(<<>>)]
InsertSelect(table, q) == [kind |-> "insert", table |-> table, columns |-> <<>>, rows |-> <<>>, query |-> q]
Delete1(table, where) == [kind |-> "delete", table |-> table, where |-> where]
Update1(table, sets, where) == [kind |-> "update", table |-> table, sets |-> sets, where |-> where]
Set1(c, e) == <<[column |-> c, expr |-> e]>>

Queries == {
  \* predicates
  Where(T1, B("=", a, N(1))), Where(T1, B(">", a, N(1))), Where(T1, Op("not", "", <<B("=", a, N(1))>>)),
  Where(T1, Op("null_test", "is_null", <<a>>)), Where(T1, B("=", a, L(<<N(1), N(2)>>))),
  Where(T1, B("between", a, L(<<N(1), N(2)>>))), Where(T1, B("=", B("/", N(2), B("-", a, N(1))), N(2))),
  Where(T2, B("and", B(">", a, N(1)), B("=", b, S(2)))), Where(T2, B("or", B("=", a, N(1)), B("=", b, S(2)))),
  Where(T2, Op("cast", "BOOL", <<b>>)), Where(T2, B("=", a, b)), Where(T1, B("=", C("t2", "a"), N(1))),
  Where(T1, B("=", a, B("-", D(2), D(1)))), Where(T1, B("=", B("+", a, D(1)), N(2))),
  \* joins
  From(Both), From(Inner(Equi)), From(Inner(B("=", C("t2", "a"), C("t1", "a")))), From(Inner(Using("a"))),
  From(Inner(B("<", C("t1", "a"), C("t2", "a")))), From(<<J("left", Base("t1"), Base("t2"), Equi)>>),
  Where(Inner(Equi), B("=", b, S(1))), Where(Both, Equi), Where(Both, B("=", C("t1", "a"), N(1))),
  Where(Both, B("=", C("t2", "a"), N(1))), Where(Both, B("and", Equi, B("=", b, S(2)))),
  From(<<T("t1", "x"), T("t1", "y")>>), From(<<Chain>>), From(<<T("t1", "x"), T("t1", "x")>>),
  From(Inner(Op("null_test", "is_null", <<C("t2", "a")>>))), From(Inner(B("=", C("t2", "b"), S(1)))),
  \* select list
  [From(T2) EXCEPT !.list = <<b, a>>], [From(T1) EXCEPT !.list = <<a, Star>>],
  [From(T1) EXCEPT !.list = <<B("+", a, N(2))>>], [From(T1) EXCEPT !.distinct = TRUE], [From(T1) EXCEPT !.lock = TRUE],
  [From(<<>>) EXCEPT !.list = <<N(1)>>],
  \* ORDER BY and LIMIT
  [From(T2) EXCEPT !.order = <<Asc(b)>>], [From(T2) EXCEPT !.order = <<Desc(a), Asc(b)>>],
  [From(Both) EXCEPT !.order = <<Asc(C("t1", "a"))>>], [From(Both) EXCEPT !.order = <<Desc(b), Asc(C("t1", "a"))>>],
  [From(T2) EXCEPT !.list = <<As(a, "x")>>, !.order = <<Desc(Ref(<<"x">>))>>],
  [From(T1) EXCEPT !.limit = <<N(1)>>], [From(T1) EXCEPT !.offset = <<N(1)>>],
  [From(Both) EXCEPT !.order = <<Asc(C("t2", "a"))>>, !.limit = <<N(2)>>, !.offset = <<N(1)>>],
  [Where(T2, B("and", B(">", a, N(1)), B("=", b, S(2)))) EXCEPT !.limit = <<N(1)>>]}

Modifications == {
  Insert1("t1", <<N(1)>>), Insert1("t1", <<N(2)>>), Insert1("t1", <<Nul>>), Insert1("t1", <<S(1)>>),
  Insert1("t2", <<N(1), S(1)>>), Insert1("t2", <<N(1), N(1)>>), Insert1("t1", <<a>>),
  Insert1("t1", <<B("+", D(1), D(1))>>), Insert1("t1", <<D(1)>>),
  [Insert1("t2", <<S(2)>>) EXCEPT !.columns = <<"b">>],
  [Insert1("t2", <<S(2), N(2)>>) EXCEPT !.columns = <<"b", "a">>],
  [Insert1("t1", <<N(1)>>) EXCEPT !.rows = <<<<N(1)>>, <<S(2)>>>>],
  InsertSelect("t2", [From(T1) EXCEPT !.list = <<a, S(1)>>]), InsertSelect("t1", From(T2)),
  Delete1("t1", <<>>), Delete1("t2", <<B("=", a, N(1))>>),
  Update1("t1", Set1("a", B("+", a, N(1))), <<>>), Update1("t1", Set1("a", S(1)), <<B("=", a, N(1))>>),
  Update1("t2", Set1("a", N(2)), <<B("and", B("=", a, N(1)), B("=", b, S(1)))>>), Update1("t1", Set1("c", N(1)), <<>>)}

Batches == {
  <<From(T1), From(T2)>>, <<From(T1), Where(T1, B("=", a, N(1)))>>, <<From(<<T("t1", "x")>>), From(T1)>>,
  <<Insert1("t1", <<N(1)>>), From(T1)>>, <<[From(T1) EXCEPT !.list = <<As(a, "b")>>], From(T2)>>,
  <<[From(T1) EXCEPT !.list = <<As(a, "b")>>], [From(T2) EXCEPT !.list = <<b>>]>>,
  <<[From(T1) EXCEPT !.list = <<As(a, "x")>>], Where(T2, B("=", Ref(<<"x">>), N(1)))>>}

MCStrings == {<<s>> : s \in Queries \cup Modifications} \cup Batches

MCSettings == {<<"none", FALSE>>, <<"none", TRUE>>, <<"merge", FALSE>>, <<"merge", TRUE>>, <<"hash", TRUE>>}
=============================================================================
