--------------------------- MODULE QuerySemantics ---------------------------
(***************************************************************************)
(* What SQL says a statement means, stated on the parsed statement and     *)
(* without plans: the joined rows for which all conditions hold, in Kleene *)
(* logic.  The reference that the query engine is compared with in Query.  *)
(***************************************************************************)
EXTENDS Executors

NoStatement == [kind |-> "none"]

(***************************************************************************)
(* Rows.  A pick of one rid for each table of the FROM clause makes the    *)
(* row [bases, records].                                                   *)
(***************************************************************************)
BasesOf(s) == IF s.kind = "select" THEN FlattenSeq([i \in DOMAIN s.from |-> Bases(s.from[i])])
              ELSE <<Base(s.table)>>

Picks(db, bases) ==
    LET longest == Max({Len(db[t]) : t \in Tables})
    IN  {a \in [DOMAIN bases -> 1 .. longest] : \A i \in DOMAIN bases : a[i] \in DOMAIN db[bases[i].table]}

RowOf(db, bases, a) == [bases |-> bases, records |-> [i \in DOMAIN bases |-> db[bases[i].table][a[i]]]]

Lookup(row, name) ==
    LET i == CHOOSE i \in DOMAIN row.bases : Matches(row.bases[i], name)
        names == ColumnNames(row.bases[i].table)
    IN  row.records[i][CHOOSE j \in DOMAIN names : names[j] = Last(name)]

(***************************************************************************)
(* The value of a parsed expression.                                       *)
(***************************************************************************)
Calculate(op, v, w) ==
    CASE op \in Arithmetics -> Value(v.type, Calculated(op, v.val, w.val))
      [] op = "between" -> Bool(w.values[1].val <= v.val /\ v.val <= w.values[2].val)
      [] w.type = "LIST" /\ op \in {"=", "!="} -> Bool((\E k \in DOMAIN w.values : w.values[k] = v) = (op = "="))
      [] OTHER -> Bool(DoComparison(op, v.val, w.val))

RECURSIVE Meaning(_, _)
Meaning(e, row) ==
    LET vs == [i \in DOMAIN e.args |-> Meaning(e.args[i], row)]
        decided == Bool(e.op = "or")   \* what one side alone decides AND and OR to be
        unknown == \E i \in DOMAIN vs : IsNull(vs[i])
    IN  CASE e.kind = "const" -> e.value
          [] e.kind = "ref" -> Lookup(row, e.name)
          [] e.kind = "alias" -> vs[1]
          [] e.kind = "list" -> List(vs)
          [] e.kind = "null_test" -> Bool(unknown = (e.op = "is_null"))
          [] e.kind = "binary" /\ e.op \in {"and", "or"} ->
               IF decided \in Range(vs) THEN decided ELSE IF unknown THEN Null ELSE Bool(e.op = "and")
          [] e.kind = "binary" /\ e.op \notin {"and", "or"} -> IF unknown THEN Null ELSE Calculate(e.op, vs[1], vs[2])
          [] e.kind = "not" -> IF unknown THEN Null ELSE Bool(vs[1].val = 0)
          [] e.kind = "cast" -> CastAsBool(vs[1])

(***************************************************************************)
(* Queries.                                                                *)
(***************************************************************************)
\* USING compares the column of the table on either side that has it.
On(ref) ==
    IF ref.cond.kind /= "using" THEN ref.cond
    ELSE LET side(r) == LET bs == Bases(r)
                            i == CHOOSE i \in DOMAIN bs : Matches(bs[i], ref.cond.name)
                        IN  Ref(<<bs[i].name, Last(ref.cond.name)>>)
         IN  Op("binary", "=", <<side(ref.left), side(ref.right)>>)

RECURSIVE Ons(_)
Ons(ref) == IF ref.kind = "base" THEN {} ELSE {On(ref)} \cup Ons(ref.left) \cup Ons(ref.right)

Conditions(s) == Range(s.where) \cup (IF s.kind = "select" THEN UNION {Ons(s.from[i]) : i \in DOMAIN s.from} ELSE {})

\* The picks that make rows of the answer.
Answers(db, s) ==
    {a \in Picks(db, BasesOf(s)) :
       \A c \in Conditions(s) : IsTrue(Meaning(c, RowOf(db, BasesOf(s), a)))}

Targets(s) == FlattenSeq([i \in DOMAIN s.list |->
                            IF s.list[i].kind = "star" THEN GetAllColumns(BasesOf(s)) ELSE <<s.list[i]>>])

Image(db, s, a) == [i \in DOMAIN Targets(s) |-> Meaning(Targets(s)[i], RowOf(db, BasesOf(s), a))]

\* ORDER BY may name an alias of the select list.
KeyOf(db, s, a, k) ==
    LET e == s.order[k].expr
        named == {t \in Range(s.list) : t.kind = "alias" /\ e = Ref(<<t.op>>)}
    IN  Meaning(IF named = {} THEN e ELSE CHOOSE t \in named : TRUE, RowOf(db, BasesOf(s), a))

Earlier(db, s, a, b) ==
    \E k \in DOMAIN s.order :
        /\ Before(s.order[k].desc, KeyOf(db, s, a, k), KeyOf(db, s, b, k))
        /\ \A j \in 1 .. k - 1 : KeyOf(db, s, a, j) = KeyOf(db, s, b, j)

SameBag(seq, S, image(_)) ==
    \A v \in Range(seq) \cup {image(a) : a \in S} :
        Cardinality({i \in DOMAIN seq : seq[i] = v}) = Cardinality({a \in S : image(a) = v})

Slice(s, seq) ==
    LET first == IF s.offset = <<>> THEN 1 ELSE s.offset[1].value.val + 1
        last == IF s.limit = <<>> THEN Len(seq) ELSE first + s.limit[1].value.val - 1
    IN  SubSeq(seq, first, IF last < Len(seq) THEN last ELSE Len(seq))

\* vals is an answer to the query s: the bag of the images of Answers, and
\* with ORDER BY or LIMIT a slice of one of its orderings.
IsAnswer(db, s, vals) ==
    LET answers == Answers(db, s)
        ordered(q) == \A i, j \in DOMAIN q : i < j => ~Earlier(db, s, q[j], q[i])
    IN  IF s.order \o s.limit \o s.offset = <<>>
        THEN SameBag(vals, answers, LAMBDA a : Image(db, s, a))
        ELSE \E q \in SetToSeqs(answers) :
               ordered(q) /\ vals = Slice(s, [i \in DOMAIN q |-> Image(db, s, q[i])])

(***************************************************************************)
(* Modifications: after is db with the statement s carried out.            *)
(***************************************************************************)
SetTo(db, s, rid) ==
    [i \in DOMAIN Columns[s.table] |->
       LET sets == {k \in DOMAIN s.sets : s.sets[k].column = Columns[s.table][i].name}
       IN  IF sets = {} THEN db[s.table][rid][i]
           ELSE Meaning(s.sets[CHOOSE k \in sets : TRUE].expr, RowOf(db, BasesOf(s), <<rid>>))]

IsModification(db, s, after) ==
    LET hit == {a[1] : a \in Answers(db, s)}
        old == db[s.table]
    IN  /\ \A t \in Tables \ {s.table} : after[t] = db[t]
        /\ CASE s.kind = "delete" -> SameBag(after[s.table], DOMAIN old \ hit, LAMBDA r : old[r])
             [] s.kind = "update" -> SameBag(after[s.table], DOMAIN old,
                                             LAMBDA r : IF r \in hit THEN SetTo(db, s, r) ELSE old[r])

\* A new row has the values of the columns that the statement lists, or of
\* all columns, and NULL in the others.
NewRow(s, vals) ==
    [i \in DOMAIN Columns[s.table] |->
       IF s.columns = <<>> THEN vals[i]
       ELSE LET at == {k \in DOMAIN s.columns : s.columns[k] = Columns[s.table][i].name}
            IN  IF at = {} THEN Null ELSE vals[CHOOSE k \in at : TRUE]]

IsInsertion(db, s, after) ==
    LET added == SubSeq(after[s.table], Len(db[s.table]) + 1, Len(after[s.table]))
    IN  /\ \A t \in Tables : IsPrefix(db[t], after[t]) /\ (t = s.table \/ after[t] = db[t])
        /\ IF s.rows /= <<>>
           THEN added = [i \in DOMAIN s.rows |->
                           NewRow(s, [j \in DOMAIN s.rows[i] |-> Meaning(s.rows[i][j], [bases |-> <<>>, records |-> <<>>])])]
           ELSE SameBag(added, Answers(db, s.query), LAMBDA a : NewRow(s, Image(db, s.query, a)))
=============================================================================
