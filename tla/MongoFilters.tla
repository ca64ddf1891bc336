---------------------------- MODULE MongoFilters ----------------------------
(***************************************************************************)
(* What the MongoDB driver makes of a condition, and what MongoDB says of  *)
(* it.                                                                     *)
(*                                                                         *)
(* A condition becomes an object of $-operators.  The text operators of a  *)
(* condition share one regular expression; eq without case is one, too,    *)
(* unless a text operator takes its place.                                 *)
(***************************************************************************)
EXTENDS Filters

(* ^starts, contains and ends$ where they are there, or ^exact$. *)
Regex(parts, options) == [parts |-> parts, options |-> options]

EqIgnoresCase(cond) == "eq" \in DOMAIN cond /\ Mode(cond) = "insensitive"

(* Mutant: the expression for eq is not anchored. *)
RegexesUnanchored(cond) ==
  LET texts == DOMAIN cond \cap Texts
  IN  IF texts # {} THEN {Regex([op \in texts |-> cond[op].val], IF Mode(cond) = "sensitive" THEN "" ELSE "i")}
      ELSE IF EqIgnoresCase(cond) THEN {Regex([op \in {"contains"} |-> cond.eq.val], "i")}
      ELSE {}

Regexes(cond) ==
  LET texts == DOMAIN cond \cap Texts
  IN  IF texts # {} THEN {Regex([op \in texts |-> cond[op].val], IF Mode(cond) = "sensitive" THEN "" ELSE "i")}
      ELSE IF EqIgnoresCase(cond) THEN {Regex([op \in {"exact"} |-> cond.eq.val], "i")}
      ELSE {}

(* The expressions look behind .* : what is contained ends where, or after, the start does. *)
RegexHolds(v, r) ==
  LET Fold(s) == IF r.options = "i" THEN InLowerCase(String(s)).val ELSE s
      t == Fold(v.val)
      Part(op) == Fold(r.parts[op])
      Has(op) == op \in DOMAIN r.parts
  IN  /\ v.type = "string"
      /\ Has("exact") => t = Part("exact")
      /\ Has("startsWith") => StartsWith(t, Part("startsWith"))
      /\ Has("endsWith") => EndsWith(t, Part("endsWith"))
      /\ Has("contains") =>
           \E i \in 0..Len(t) :
             /\ OccursAfter(i, Part("contains"), t)
             /\ Has("startsWith") => i + Len(Part("contains")) >= Len(Part("startsWith"))

(* Operators that become $-operators of the same name, or a plain value. *)
Plain(cond) == Operators(cond) \ (Texts \cup (IF EqIgnoresCase(cond) THEN {"eq"} ELSE {}))

AdaptedHolds(v, cond) ==
  /\ \A op \in Plain(cond) : OperatorHolds(v, cond, op)
  /\ \A r \in Regexes(cond) : RegexHolds(v, r)
=============================================================================
