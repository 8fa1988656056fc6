------------------------------ MODULE Optimizer ------------------------------
(***************************************************************************)
(* The optimizer (optimizer/optimizer.cpp), with join_order_algorithm_ at  *)
(* its default NONE: conjunctions in filters are split, then predicates    *)
(* are pushed down to the joins and scans they mention.                    *)
(*                                                                         *)
(* The push-down works on members of the Optimizer that all its functions  *)
(* share; here they are threaded through as                                *)
(* [filter_predicate, is_connected, success].  A pushed predicate keeps    *)
(* the column indexes it was planned with.                                 *)
(***************************************************************************)
EXTENDS Planner

NewMembers == [filter_predicate |-> <<>>, is_connected |-> <<>>, success |-> FALSE]

(***************************************************************************)
(* SplitPredicates.                                                        *)
(***************************************************************************)
IsAnd(p) == p.op = "filter" /\ p.pred.kind = "logic" /\ p.pred.op = "and"

\* Mutant of SplitFilter: the left conjunct is lost.
SplitFilterLossy(p) == Filter(p.pred.args[2], p.children[1])

\* The right conjunct is filtered above the left one.
SplitFilter(p) == Filter(p.pred.args[2], Filter(p.pred.args[1], p.children[1]))

RECURSIVE SplitPredicates(_)
SplitPredicates(p) ==
    [p EXCEPT !.children = [i \in DOMAIN @ |->
        SplitPredicates(IF IsAnd(@[i]) THEN SplitFilter(@[i]) ELSE @[i])]]

(***************************************************************************)
(* PushDown.  It stops at every operator but filters, projections, nested  *)
(* loop joins and scans.                                                   *)
(***************************************************************************)
IsColumn(e) == e.kind = "column"

\* The table that ToString of an expression starts with.
RECURSIVE LeadingTable(_)
LeadingTable(e) ==
    CASE IsColumn(e) -> e.name[1]
      [] e.kind = "const" -> ""
      [] e.kind \in {"list"} \/ (e.kind = "logic" /\ e.op = "not") -> ""
      [] OTHER -> LeadingTable(e.args[1])

\* Only a comparison is remembered, but every filter adds to is_connected.
Remember(m, pred) ==
    LET compares == pred.kind = "comparison"
        connects == compares /\ IsColumn(pred.args[1]) /\ IsColumn(pred.args[2])
    IN  [filter_predicate |-> IF compares THEN Append(m.filter_predicate, pred) ELSE m.filter_predicate,
         is_connected |-> Append(m.is_connected, connects),
         success |-> FALSE]

FirstOf(S) == CHOOSE i \in S : \A j \in S : i <= j

\* The first predicate of two columns of this join becomes its condition, in
\* place of the one it had.
PushIntoJoin(m, p) ==
    LET names == {p.cols[i].name : i \in DOMAIN p.cols}
        fits == {i \in DOMAIN m.filter_predicate :
                   m.is_connected[i] /\ \A k \in 1 .. 2 : LET e == m.filter_predicate[i].args[k]
                                                          IN  IsColumn(e) /\ e.name \in names}
    IN  IF fits = {} THEN [plan |-> p, members |-> m]
        ELSE [plan |-> [p EXCEPT !.cond = m.filter_predicate[FirstOf(fits)]],
              members |-> [m EXCEPT !.success = TRUE]]

\* Mutant of PushIntoScan: the predicate counts as pushed and is not.
PushIntoScanLossy(m, p) ==
    LET fits == {i \in DOMAIN m.filter_predicate :
                   ~m.is_connected[i] /\ LeadingTable(m.filter_predicate[i].args[1]) = p.name}
    IN  IF fits = {} THEN [plan |-> p, members |-> m]
        ELSE [plan |-> p, members |-> [m EXCEPT !.success = TRUE]]

\* The first predicate that starts with the scanned table.
PushIntoScan(m, p) ==
    LET fits == {i \in DOMAIN m.filter_predicate :
                   ~m.is_connected[i] /\ LeadingTable(m.filter_predicate[i].args[1]) = p.name}
    IN  IF fits = {} THEN [plan |-> p, members |-> m]
        ELSE [plan |-> Filter(m.filter_predicate[FirstOf(fits)], p),
              members |-> [m EXCEPT !.success = TRUE]]

RECURSIVE PushDown(_, _)
PushDown(m, p) ==
    CASE p.op = "filter" ->
           LET below == PushDown(Remember(m, p.pred), p.children[1])
           IN  IF below.members.success THEN below
               ELSE [below EXCEPT !.plan = [p EXCEPT !.children = <<below.plan>>]]
      [] p.op = "projection" ->
           LET below == PushDown(m, p.children[1])
           IN  [below EXCEPT !.plan = [p EXCEPT !.children = <<below.plan>>]]
      [] p.op = "nested_loop" ->
           LET here == PushIntoJoin(m, p)
               left == PushDown(here.members, p.children[1])
               right == PushDown(left.members, p.children[2])
           IN  [plan |-> [here.plan EXCEPT !.children = <<left.plan, right.plan>>],
                members |-> right.members]
      [] p.op = "scan" -> PushIntoScan(m, p)
      [] OTHER -> [plan |-> [p EXCEPT !.children = [i \in DOMAIN @ |-> SplitPredicates(@[i])]],
                   members |-> m]

Optimize(p) == PushDown(NewMembers, SplitPredicates(p)).plan
=============================================================================
