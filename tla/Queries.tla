------------------------------ MODULE Queries -------------------------------
(***************************************************************************)
(* One filter on its way through the three drivers.  A filter is an object *)
(* of conditions on fields and of logical operators with lists of filters; *)
(* all three walk it in the same order, going down into every list, and    *)
(* each keeps what it has got so far: the in-memory driver and MongoDB the *)
(* rows that satisfy it, the SQL driver the WHERE clause, by what it says  *)
(* of each row.  The caller's next entry is chosen on the way, so a state  *)
(* with no list under way has a whole query.  Middlewares that scope       *)
(* queries put them under $and.  Functions in place of a filter are left   *)
(* out.                                                                    *)
(***************************************************************************)
EXTENDS MongoFilters, SqlFilters, Aggregates

CONSTANTS
  Rows,        \* the rows of the entity, in the order of insertion
  Conditions,  \* [fields -> sets of conditions]
  Questions,   \* what aggregate() is asked: [by, op, field, having]
  MaxEntries,  \* bound on the conditions and logical operators
  MaxMembers   \* bound on the filters in a list

VARIABLES
  list,     \* the list under way, or the filter itself
  outer,    \* the lists around it, the outermost first
  odd,      \* what is unusual about the filter
  entries

vars == <<list, outer, odd, entries>>

RowIds == DOMAIN Rows

(* Operands are there and of the operator's type; "mode" is for strings. *)
OperandOf(cond, op) ==
  CASE op \in {"is", "eq", "ne"}         -> IsNumber(cond[op]) \/ IsString(cond[op])
    [] op \in {"in", "nin"}              -> \A x \in cond[op] : IsNumber(x) \/ IsString(x)
    [] op \in {"gte", "gt", "lte", "lt"} -> IsNumber(cond[op])
    [] op = "exists"                     -> cond[op] \in BOOLEAN
    [] op \in Texts                      -> IsString(cond[op])

ASSUME QueriesAssumption ==
  /\ MaxEntries \in Nat /\ MaxMembers \in Nat
  /\ Rows \in Seq({Rows[i] : i \in RowIds})
  /\ \A i \in RowIds : \A k \in DOMAIN Conditions :
       Rows[i][k] = Missing \/ IsNumber(Rows[i][k]) \/ IsString(Rows[i][k])

ASSUME ConditionsAssumption ==
  \A k \in DOMAIN Conditions : \A c \in Conditions[k] :
    /\ Operators(c) # {} /\ Operators(c) \subseteq UNION {Families[i] : i \in DOMAIN Families}
    /\ \A op \in Operators(c) : OperandOf(c, op)
    /\ "eq" \in DOMAIN c /\ Mode(c) = "insensitive" => IsString(c.eq)

ASSUME QuestionsAssumption ==
  \A q \in Questions :
    /\ q.op \in {"count", "sum", "avg", "max", "min"} /\ (q.op = "avg" => q.having = {})
    /\ q.op # "count" => /\ q.field # NoField
                        /\ \A i \in RowIds : Rows[i][q.field] = Missing \/ IsNumber(Rows[i][q.field])
    /\ \A c \in q.having : DOMAIN c # {} /\ DOMAIN c \subseteq HavingOperators

-----------------------------------------------------------------------------
(* A list under way: how many members it has, the last one being walked;   *)
(* the keys of that one; for the in-memory driver and for MongoDB the rows *)
(* the members before it amount to and those that satisfy it so far; the   *)
(* builder of the SQL driver for each row, and whether qb.or is pending.   *)

Logical == {"$and", "$or", "$nor"}

Unread(op) == [met |-> IF op = "$and" THEN RowIds ELSE {}, last |-> RowIds]

List(op) ==
  [op |-> op, members |-> 0, keys |-> {}, memory |-> Unread(op), mongo |-> Unread(op),
   builder |-> [i \in RowIds |-> Builder], or |-> FALSE]

(* every and some of the members *)
Counted(op, rows) ==
  [met |-> IF op = "$and" THEN rows.met \cap rows.last ELSE rows.met \cup rows.last, last |-> RowIds]

Ended(l) ==
  IF l.members = 0 THEN l
  ELSE [l EXCEPT !.memory = Counted(l.op, l.memory), !.mongo = Counted(l.op, l.mongo)]

NextMember(l) ==
  [op |-> l.op, members |-> l.members + 1, keys |-> {}, memory |-> Ended(l).memory, mongo |-> Ended(l).mongo,
   builder |-> l.builder, or |-> Headed(l.op)]

Answer(op, rows) == IF op = "$nor" THEN RowIds \ rows.met ELSE rows.met

Narrowed(rows, by) == [met |-> rows.met, last |-> rows.last \cap by]

(* The next entry of the last member, satisfied by these rows. *)
Entered(l, key, inMemory, inMongo, word, holds) ==
  [op |-> l.op, members |-> l.members, keys |-> l.keys \cup {key},
   memory |-> Narrowed(l.memory, inMemory), mongo |-> Narrowed(l.mongo, inMongo),
   builder |-> [i \in RowIds |-> Joined(l.builder[i], IF l.or THEN "or" ELSE word, holds[i])], or |-> FALSE]

Odd(what, is) == IF is THEN {what} ELSE {}

(* $or and $nor are best the first entry in their builder, or set apart by qb.or. *)
LateAlternative(l, op) ==
  Odd("alternative after entries", Headed(op) /\ l.keys # {})
    \cup Odd("alternative in a later member", Headed(op) /\ l.keys = {} /\ l.op = "$and" /\ l.members > 1)

EndsEmpty(l) == Odd("empty member", l.members > 0 /\ l.keys = {})

-----------------------------------------------------------------------------
Init == list = NextMember(List("$and")) /\ outer = <<>> /\ odd = {} /\ entries = 0

CanEnter(key) == list.members > 0 /\ key \notin list.keys

AddCondition(k) ==
  \E c \in Conditions[k] :
    /\ entries < MaxEntries /\ CanEnter(k)
    /\ entries' = entries + 1
    /\ list' = Entered(list, k, {i \in RowIds : FieldHolds(Rows[i][k], c)},
                       {i \in RowIds : AdaptedHolds(Rows[i][k], c)},
                       "and", [i \in RowIds |-> ConditionHolds(Rows[i][k], c)])
    /\ odd' = odd \cup Odd("ignored operator", ~AllLookedAt(c)) \cup Odd("negation", Negates(c))
    /\ UNCHANGED outer

Open(op) ==
  /\ entries < MaxEntries /\ CanEnter(op)
  /\ entries' = entries + 1
  /\ outer' = Append(outer, list)
  /\ list' = List(op)
  /\ odd' = odd \cup LateAlternative(list, op) \cup Odd("negation", op = "$nor")

AddMember ==
  /\ outer # <<>> /\ list.members < MaxMembers
  /\ list' = NextMember(list)
  /\ odd' = odd \cup EndsEmpty(list)
  /\ UNCHANGED <<outer, entries>>

Close ==
  LET ended == Ended(list)
  IN  /\ outer # <<>>
      /\ list' = Entered(outer[Len(outer)], ended.op, Answer(ended.op, ended.memory), Answer(ended.op, ended.mongo),
                         Word(ended.op), [i \in RowIds |-> Group(ended.op, Clause(ended.builder[i]))])
      /\ outer' = SubSeq(outer, 1, Len(outer) - 1)
      /\ odd' = odd \cup EndsEmpty(list) \cup Odd("empty list", list.members = 0)
      /\ UNCHANGED entries

Next ==
  \/ \E k \in DOMAIN Conditions : AddCondition(k)
  \/ \E op \in Logical : Open(op)
  \/ AddMember
  \/ Close

Spec == Init /\ [][Next]_vars
-----------------------------------------------------------------------------
WholeQuery == outer = <<>>

(* The rows each driver returns for a whole query. *)
FromMemory == list.memory.last
FromMongo == list.mongo.last
FromSql == {i \in RowIds : Chosen(list.builder[i])}

Complete(row) == \A k \in DOMAIN Conditions : row[k] # Missing

(* A query selects the same rows from MongoDB and from the in-memory       *)
(* driver that stands in for it in tests: whenever conditions have         *)
(* operators of one family and no empty text, and no list is empty, which  *)
(* MongoDB refuses.                                                        *)
(* (adaptFilter and adaptToSchema; filterEntity)                           *)
MongoAsInMemory ==
  WholeQuery /\ odd \cap {"ignored operator", "empty list"} = {} => FromMongo = FromMemory

(* A query selects the same rows from an SQL database: if, besides, no     *)
(* member is empty and $or and $nor come first in their builder, and for   *)
(* rows without NULL or filters without a negation.                        *)
(* (buildWhereConditions; filterEntity)                                    *)
SqlAsInMemory ==
  WholeQuery /\ odd \subseteq {"negation"} =>
    \A i \in RowIds : Complete(Rows[i]) \/ odd = {} => (i \in FromSql <=> i \in FromMemory)

(* Whatever a filter selects, the three drivers aggregate it alike: if no  *)
(* row misses the field, unless it is only counted, having has operators   *)
(* of one family and, without groups, there is no having.  MongoDB refuses *)
(* to count a field.  (the three _aggregate, buildHavingConditions)        *)
Askable(q) ==
  /\ \A c \in q.having : AllLookedAt(c)
  /\ q.by = {} => q.having = {}
  /\ q.op = "count" \/ \A i \in FromMemory : Rows[i][q.field] # Missing

CountsField(q) == q.op = "count" /\ q.field # NoField

AggregatesAgree ==
  WholeQuery =>
    \A q \in {p \in Questions : Askable(p)} :
      LET answer == InMemoryAggregate(Rows, FromMemory, q.by, q.op, q.field, q.having)
      IN  /\ answer = SqlAggregate(Rows, FromMemory, q.by, q.op, q.field, q.having)
          /\ CountsField(q) \/ answer = MongoAggregate(Rows, FromMemory, q.by, q.op, q.field, q.having)

(* filters.md: $and is verified if all the set conditions are true.  Of a  *)
(* query that is one $and, without anything else that is unusual, the SQL  *)
(* driver selects only rows for which all conditions are true.             *)
(* (buildWhereConditions: orWhere)                                         *)
AndNarrows ==
  WholeQuery /\ list.keys = {"$and"} /\ odd \subseteq {"alternative in a later member"} => FromSql \subseteq FromMemory
=============================================================================
