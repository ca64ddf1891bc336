------------------------------ MODULE Filters -------------------------------
(***************************************************************************)
(* Conditions on the value of a field, and what the in-memory driver says  *)
(* of them.                                                                *)
(*                                                                         *)
(* A value is a number, a string (the codes of its characters) or Missing. *)
(* A condition maps operators to operands; "is" stands for a plain value.  *)
(* Left out: null operands, list values, the order of strings (numbers are *)
(* compared with gt, gte, lt, lte and in sorts), and characters with a     *)
(* meaning in LIKE or in regular expressions.                              *)
(***************************************************************************)
EXTENDS Integers, Sequences, SequencesExt

Number(n) == [type |-> "number", val |-> <<n>>]
String(s) == [type |-> "string", val |-> s]
Missing == [type |-> "undefined", val |-> <<>>]

IsNumber(v) == v.type = "number" /\ v = Number(v.val[1]) /\ v.val[1] \in Int
IsString(v) == v.type = "string" /\ v = String(v.val) /\ v.val \in Seq(Nat)

Texts == {"contains", "startsWith", "endsWith"}

-----------------------------------------------------------------------------
(* What an operator says of a value.  Text operators ignore the case       *)
(* unless told otherwise, eq only when told so.                            *)

InLowerCase(v) ==
  IF v.type = "string" THEN String([i \in DOMAIN v.val |-> v.val[i] + IF v.val[i] \in 65..90 THEN 32 ELSE 0])
  ELSE v

Mode(cond) == IF "mode" \in DOMAIN cond THEN cond.mode ELSE "none"

Less(v, x) == v.type = "number" /\ x.type = "number" /\ v.val[1] < x.val[1]

(* s is in t, after its first i characters. *)
OccursAfter(i, s, t) == i + Len(s) <= Len(t) /\ \A j \in 1..Len(s) : t[i + j] = s[j]

StartsWith(t, s) == OccursAfter(0, s, t)
EndsWith(t, s) == Len(s) <= Len(t) /\ OccursAfter(Len(t) - Len(s), s, t)

TextHolds(op, t, s) ==
  CASE op = "contains"   -> \E i \in 0..Len(t) : OccursAfter(i, s, t)
    [] op = "startsWith" -> StartsWith(t, s)
    [] op = "endsWith"   -> EndsWith(t, s)

IgnoresCase(cond, op) == IF op = "eq" THEN Mode(cond) = "insensitive" ELSE Mode(cond) # "sensitive"

OperatorHolds(v, cond, op) ==
  LET x == cond[op]
      Fold(w) == IF IgnoresCase(cond, op) THEN InLowerCase(w) ELSE w
  IN  CASE op = "is"     -> v = x
        [] op = "eq"     -> Fold(v) = Fold(x)
        [] op = "ne"     -> v # x
        [] op = "in"     -> v \in x
        [] op = "nin"    -> v \notin x
        [] op = "lt"     -> Less(v, x)
        [] op = "gt"     -> Less(x, v)
        [] op = "lte"    -> Less(v, x) \/ (v = x /\ v.type = "number")
        [] op = "gte"    -> Less(x, v) \/ (v = x /\ v.type = "number")
        [] op = "exists" -> x <=> v # Missing
        [] op \in Texts  -> v.type = "string" /\ TextHolds(op, Fold(v).val, Fold(x).val)

-----------------------------------------------------------------------------
(* Of a condition the in-memory driver looks at one family of operators    *)
(* only, the first that is there; the families exclude each other in the   *)
(* order of its early returns.                                             *)

Families == << {"eq", "ne", "in", "nin"}, {"gte", "gt", "lte", "lt"}, {"exists"},
               {"contains"}, {"startsWith"}, {"endsWith"}, {"is"} >>

(* "mode" is no operator of its own, and the in-memory driver takes an     *)
(* empty text for none.                                                    *)
Operators(cond) == DOMAIN cond \ {"mode"}
Given(cond) == {op \in Operators(cond) : op \in Texts => cond[op].val # <<>>}

Family(cond) == Families[Min({i \in DOMAIN Families : Families[i] \cap Given(cond) # {}})]

FieldHolds(v, cond) ==
  Given(cond) # {} /\ \A op \in Family(cond) \cap Given(cond) : OperatorHolds(v, cond, op)

AllLookedAt(cond) == Operators(cond) \subseteq Family(cond) \cap Given(cond)

Negates(cond) == DOMAIN cond \cap {"ne", "nin"} # {}
=============================================================================
