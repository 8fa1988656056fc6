----------------------------- MODULE Expressions -----------------------------
(***************************************************************************)
(* Values and operator expressions (common/value.cpp and                   *)
(* operators/expressions/).  An expression is evaluated on one record      *)
(* (Evaluate) or, as a join condition, on two (EvaluateJoin).  An          *)
(* exception is the value Thrown, undefined behaviour the value Undefined; *)
(* both end the statement.                                                 *)
(*                                                                         *)
(* A value is its type and a number: a BOOL is 0 or 1, a VARCHAR the rank  *)
(* of the string among the strings in use ('f' is 1, 't' is 2), a DOUBLE a *)
(* whole one (so a DOUBLE is divided only where the quotient is whole).    *)
(* LIKE and functions are left out.                                        *)
(***************************************************************************)
EXTENDS Integers, Sequences, FiniteSets

CONSTANT MaxInt   \* the largest int32_t

ASSUME MaxIntAssumption == MaxInt \in Nat \ {0}

Value(type, val) == [type |-> type, val |-> val]
Null == Value("NULL", 0)
Bool(b) == Value("BOOL", IF b THEN 1 ELSE 0)
Num(n) == Value("INT", n)
Str(rank) == Value("VARCHAR", rank)
List(vs) == [type |-> "LIST", val |-> 0, values |-> vs]

Thrown == Value("throws", 0)
Undefined == Value("undefined", 0)
Failed(v) == v.type \in {"throws", "undefined"}
FirstFailure(vs) == vs[CHOOSE i \in DOMAIN vs : Failed(vs[i]) /\ \A j \in 1 .. i - 1 : ~Failed(vs[j])]

IsNull(v) == v.type = "NULL"
IsTrue(v) == v.type = "BOOL" /\ v.val = 1
Numeric == {"INT", "DOUBLE"}
Ordered == Numeric \cup {"VARCHAR"}

\* Value::Less, Greater and Equal refuse two types and the unordered ones,
\* NULL among them.
Sortable(v, w) == v.type = w.type /\ v.type \in Ordered

(***************************************************************************)
(* Expressions.  Every node has its arguments in args.                     *)
(***************************************************************************)
Const(v) == [kind |-> "const", value |-> v, args |-> <<>>]
Column(idx, type, name, left) ==
    [kind |-> "column", idx |-> idx, type |-> type, name |-> name, left |-> left, args |-> <<>>]
Op(kind, op, args) == [kind |-> kind, op |-> op, args |-> args]

Comparisons == {"=", "!=", "<", "<=", ">", ">=", "between", "not_between", "in", "not_in"}
Arithmetics == {"+", "-", "*", "/"}

\* The type an expression is planned with; arithmetic is always INT.
TypeOf(e) == CASE e.kind = "const" -> e.value.type
               [] e.kind = "column" -> e.type
               [] e.kind \in {"comparison", "logic", "null_test"} -> "BOOL"
               [] e.kind = "arithmetic" -> "INT"
               [] e.kind = "list" -> "LIST"
               [] e.kind = "cast" -> e.op

(***************************************************************************)
(* What the nodes compute from the values of their arguments.              *)
(***************************************************************************)
DoComparison(op, x, y) == CASE op = "=" -> x = y
                            [] op = "!=" -> x /= y
                            [] op = "<" -> x < y
                            [] op = "<=" -> x <= y
                            [] op = ">" -> x > y
                            [] op = ">=" -> x >= y

Not(v) == IF v.type = "BOOL" THEN Bool(v.val = 0) ELSE Thrown

\* The upper bound is read only when the lower one holds.
Between(v, lo, hi) ==
    IF v.type \notin Numeric \/ lo.type /= v.type THEN Thrown
    ELSE IF v.val < lo.val THEN Bool(FALSE)
    ELSE IF hi.type /= v.type THEN Thrown
    ELSE Bool(v.val <= hi.val)

\* The list is read up to the first member that is equal.
In(v, list) ==
    LET hit == {i \in DOMAIN list : list[i] = v}
        bad == {i \in DOMAIN list : v.type \notin Ordered \/ list[i].type /= v.type}
    IN  IF \E h \in hit : \A b \in bad : h < b THEN Bool(TRUE)
        ELSE IF bad /= {} THEN Thrown
        ELSE Bool(FALSE)

Compare(op, v, w) ==
    IF IsNull(v) \/ IsNull(w) THEN Null
    ELSE LET negated == op \in {"not_between", "not_in"}
             found == CASE op \in {"between", "not_between"} -> Between(v, w.values[1], w.values[2])
                        [] op \in {"in", "not_in"} -> In(v, w.values)
                        [] OTHER -> IF \/ {v.type, w.type} \subseteq Numeric
                                       \/ v.type = "VARCHAR" /\ w.type = "VARCHAR"
                                    THEN Bool(DoComparison(op, v.val, w.val))
                                    ELSE Thrown
         IN  IF negated /\ ~Failed(found) THEN Not(found) ELSE found

\* AND and OR of a NULL and anything are NULL.
Combine(op, v, w) ==
    IF IsNull(v) \/ IsNull(w) THEN Null
    ELSE IF v.type /= "BOOL" \/ w.type /= "BOOL" THEN Thrown
    ELSE Bool(IF op = "and" THEN IsTrue(v) /\ IsTrue(w) ELSE IsTrue(v) \/ IsTrue(w))

Abs(n) == IF n < 0 THEN -n ELSE n
Quotient(x, y) == IF (x < 0) = (y < 0) THEN Abs(x) \div Abs(y) ELSE -(Abs(x) \div Abs(y))

Calculated(op, x, y) == CASE op = "+" -> x + y
                          [] op = "-" -> x - y
                          [] op = "*" -> x * y
                          [] op = "/" -> Quotient(x, y)

\* Mutant of ToInt: the result is kept as it is.
ToIntWide(n) == Num(n)

ToInt(n) == IF n \in -MaxInt - 1 .. MaxInt THEN Num(n) ELSE Undefined

\* Two INTs make an INT: a result that is no int32_t, and a division by zero,
\* are undefined.  Two DOUBLEs make a DOUBLE, whatever the planned type.
Compute(op, v, w) ==
    IF IsNull(v) \/ IsNull(w) THEN Null
    ELSE IF v.type \notin Numeric \/ w.type /= v.type THEN Thrown
    ELSE IF v.type = "DOUBLE" THEN Value("DOUBLE", Calculated(op, v.val, w.val))
    ELSE IF op = "/" /\ w.val = 0 THEN Undefined
    ELSE ToInt(Calculated(op, v.val, w.val))

CastAsBool(v) == CASE v.type = "BOOL" -> v
                   [] v.type = "VARCHAR" /\ v.val \in {1, 2} -> Bool(v.val = 2)
                   [] OTHER -> Thrown

Apply(e, vs) ==
    IF \E i \in DOMAIN vs : Failed(vs[i]) THEN FirstFailure(vs)
    ELSE CASE e.kind = "comparison" -> Compare(e.op, vs[1], vs[2])
           [] e.kind = "logic" /\ e.op = "not" -> Not(vs[1])
           [] e.kind = "logic" /\ e.op /= "not" -> Combine(e.op, vs[1], vs[2])
           [] e.kind = "arithmetic" -> Compute(e.op, vs[1], vs[2])
           [] e.kind = "null_test" -> Bool(IsNull(vs[1]) = (e.op = "is_null"))
           [] e.kind = "list" -> List(vs)
           [] e.kind = "cast" -> IF e.op = "BOOL" THEN CastAsBool(vs[1]) ELSE Thrown

(***************************************************************************)
(* Evaluation on a record, a sequence of values, and on a pair of them.    *)
(***************************************************************************)
GetValue(record, idx) == IF idx > Len(record) THEN Thrown ELSE record[idx]

RECURSIVE Evaluate(_, _)
Evaluate(e, record) ==
    CASE e.kind = "const" -> e.value
      [] e.kind = "column" -> GetValue(record, e.idx)
      [] OTHER -> Apply(e, [i \in DOMAIN e.args |-> Evaluate(e.args[i], record)])

\* NOT, IS NULL, casts and lists evaluate their arguments on the left record.
LeftOnly(e) == e.kind \in {"null_test", "list", "cast"} \/ (e.kind = "logic" /\ e.op = "not")

RECURSIVE EvaluateJoin(_, _, _)
EvaluateJoin(e, left, right) ==
    CASE e.kind = "const" -> e.value
      [] e.kind = "column" -> GetValue(IF e.left THEN left ELSE right, e.idx)
      [] OTHER -> Apply(e, [i \in DOMAIN e.args |->
                              IF LeftOnly(e) THEN Evaluate(e.args[i], left)
                              ELSE EvaluateJoin(e.args[i], left, right)])
=============================================================================
