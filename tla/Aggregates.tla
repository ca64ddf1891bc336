----------------------------- MODULE Aggregates -----------------------------
(***************************************************************************)
(* aggregate() of the three drivers over the rows a filter selects: groups *)
(* by the values of some fields, one aggregation per group, and having.    *)
(* Rows are selected by their ids, which are in the order of insertion.    *)
(* An answer is the set of groups with their values: its order and pages   *)
(* are left out, and so is having on averages.                             *)
(***************************************************************************)
EXTENDS Filters, FiniteSets

CONSTANT NoField  \* count without a field

Null == [type |-> "null", val |-> <<>>]
Quotient(n, d) == [type |-> "quotient", val |-> <<n, d>>]

Present(rows, ids, field) == {i \in ids : rows[i][field] # Missing}
Relevant(rows, ids, field) == IF field = NoField THEN ids ELSE Present(rows, ids, field)
Total(rows, ids, field) == MapThenSumSet(LAMBDA i : rows[i][field].val[1], ids)

-----------------------------------------------------------------------------
(* The value of an aggregation in a group. *)

(* Mutant: the smaller value is kept if it comes later. *)
KeptSwapped(op, p, c) == IF Less(p, c) THEN p ELSE c

(* A value that is missing is not larger and not smaller than any other. *)
Kept(op, p, c) ==
  LET stays == IF op = "max" THEN Less(c, p) ELSE Less(p, c)
  IN  IF stays THEN p ELSE c

(* reduce() starts with the first record itself, which is never larger and *)
(* never smaller than a value.                                             *)
Extreme(op, rows, ids, field) ==
  LET kept[n \in 0..Len(rows)] ==
        IF n = 0 THEN Missing ELSE IF n \in ids THEN Kept(op, kept[n - 1], rows[n][field]) ELSE kept[n - 1]
  IN  kept[Len(rows)]

OrNull(v) == IF v = Missing THEN Null ELSE v

InMemoryValue(op, field, rows, ids) ==
  LET present == Present(rows, ids, field)
  IN  CASE op = "count" -> Number(Cardinality(Relevant(rows, ids, field)))
        [] op = "sum" -> Number(Total(rows, present, field))
        [] op = "avg" -> IF present # ids THEN Null ELSE Quotient(Total(rows, ids, field), Cardinality(ids))
        [] op \in {"max", "min"} -> OrNull(Extreme(op, rows, ids, field))

(* SQL and MongoDB leave missing values out; of none, SQL has no sum and   *)
(* MongoDB the sum 0.                                                      *)
DatabaseValue(op, field, rows, ids, noSum) ==
  LET present == Present(rows, ids, field)
      Numbers == {rows[i][field].val[1] : i \in present}
  IN  CASE op = "count" -> Number(Cardinality(Relevant(rows, ids, field)))
        [] op = "sum" -> IF present = {} THEN noSum ELSE Number(Total(rows, present, field))
        [] op = "avg" -> IF present = {} THEN Null ELSE Quotient(Total(rows, present, field), Cardinality(present))
        [] op = "max" -> IF present = {} THEN Null ELSE Number(Max(Numbers))
        [] op = "min" -> IF present = {} THEN Null ELSE Number(Min(Numbers))

-----------------------------------------------------------------------------
(* Groups and having, a set with one condition on the value or none. *)

(* The operators on numbers; "is" stands for a plain one. *)
HavingOperators == {"is", "eq", "ne", "in", "nin", "gt", "gte", "lt", "lte"}

GroupOf(row, by) == [k \in by |-> OrNull(row[k])]

Groups(rows, ids, by) == {GroupOf(rows[i], by) : i \in ids}

InGroup(rows, ids, by, g) == {i \in ids : GroupOf(rows[i], by) = g}

OfNothing(op) == [group |-> <<>>, value |-> IF op = "count" THEN Number(0) ELSE Null]

InMemoryAggregate(rows, ids, by, op, field, having) ==
  IF ids = {} /\ by = {} THEN {OfNothing(op)}
  ELSE {r \in {[group |-> g, value |-> InMemoryValue(op, field, rows, InGroup(rows, ids, by, g))] :
                 g \in Groups(rows, ids, by)} :
          \A c \in having : FieldHolds(r.value, c)}

Reduced(rows, ids, by, op, field, noSum) ==
  {[group |-> g, value |-> DatabaseValue(op, field, rows, InGroup(rows, ids, by, g), noSum)] :
     g \in Groups(rows, ids, by)}

Meets(value, having) == \A c \in having : \A x \in DOMAIN c : OperatorHolds(value, c, x)

(* Without groups an answer that is empty, be it for having, stands for    *)
(* the aggregation of nothing.                                             *)
OrOfNothing(found, by, op) == IF by = {} /\ found = {} THEN {OfNothing(op)} ELSE found

(* HAVING is unknown of NULL, which counts as no. *)
HavingHolds(value, having) == having = {} \/ (value # Null /\ Meets(value, having))

SqlAggregate(rows, ids, by, op, field, having) ==
  OrOfNothing({r \in Reduced(rows, ids, by, op, field, Null) : HavingHolds(r.value, having)}, by, op)

MongoAggregate(rows, ids, by, op, field, having) ==
  OrOfNothing({r \in Reduced(rows, ids, by, op, field, Number(0)) : Meets(r.value, having)}, by, op)
=============================================================================
