----------------------------- MODULE SqlFilters -----------------------------
(***************************************************************************)
(* The WHERE clause the SQL driver builds with Knex, and what it says of a *)
(* row.                                                                    *)
(*                                                                         *)
(* A statement is False, Unknown (a comparison with NULL) or True of a     *)
(* row, or Nothing: a group without statements, which leaves no trace.     *)
(* The statements of a builder are joined by and or by or, and and binds   *)
(* closer: run is what the last statements joined by and amount to, done   *)
(* what those before the last or do.  So the clause for the builder is the *)
(* greater of the two, Nothing if there are no statements.                 *)
(***************************************************************************)
EXTENDS Filters

Nothing == -1
False == 0
Unknown == 1
True == 2

Truth(b) == IF b THEN True ELSE False

Lesser(p, q) == IF p < q THEN p ELSE q
Greater(p, q) == IF p < q THEN q ELSE p

(* whereIn with an empty list becomes 1 = 0; NULL is the missing value. *)
ColumnHolds(v, cond, op) ==
  CASE op = "exists" \/ v # Missing -> Truth(OperatorHolds(v, cond, op))
    [] op \in {"in", "nin"} /\ v = Missing /\ cond[op] = {} -> Truth(op = "nin")
    [] OTHER -> Unknown

(* The statements for a condition, one for each operator, are joined by and. *)
ConditionHolds(v, cond) ==
  LET holds == {ColumnHolds(v, cond, op) : op \in Operators(cond)}
  IN  IF False \in holds THEN False ELSE IF Unknown \in holds THEN Unknown ELSE True

Builder == [done |-> Nothing, run |-> Nothing]

Clause(b) == Greater(b.done, b.run)

(* One more statement.  The word of the first one is dropped. *)
Joined(b, word, holds) ==
  CASE holds = Nothing -> b
    [] holds # Nothing /\ word = "or" -> [done |-> Clause(b), run |-> holds]
    [] holds # Nothing /\ word # "or" -> [b EXCEPT !.run = IF @ = Nothing THEN holds ELSE Lesser(@, holds)]

(* orWhere, andWhere and not.orWhere *)
Word(op) == IF op = "$and" THEN "and" ELSE "or"

Group(op, holds) == IF op = "$nor" /\ holds # Nothing THEN True - holds ELSE holds

(* Mutant: the members of $or and $nor are not set apart by qb.or. *)
HeadedPlain(op) == FALSE

(* qb.or: the next statement, the first one of a member, is joined by or. *)
Headed(op) == op \in {"$or", "$nor"}

Chosen(b) == Clause(b) \in {True, Nothing}
=============================================================================
