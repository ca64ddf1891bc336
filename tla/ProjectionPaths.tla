-------------------------- MODULE ProjectionPaths --------------------------
(***************************************************************************)
(* Projections again, each as the function from the paths it names to Yes, *)
(* No, or Obj for an object, whose fields are then the longer paths; below *)
(* Yes and No nothing is named.  In this form the operators of             *)
(* projections.utils.ts need no recursion and can be reasoned about; that  *)
(* they are those of the code, which module Projections has on trees, is   *)
(* checked by OperatorsAgree of module QueriedFields, and proved of the    *)
(* equations by which the code recurs in module ComputedProofs.            *)
(***************************************************************************)
EXTENDS Naturals, Sequences

CONSTANTS
  Yes, No,  \* the projections true and false
  Obj       \* an object

Above(n) == {SubSeq(n, 1, i) : i \in 0..(Len(n) - 1)}
UpTo(n) == Above(n) \cup {n}

IsProjection(p) ==
  /\ <<>> \in DOMAIN p
  /\ \A n \in DOMAIN p :
       /\ p[n] \in {Yes, No, Obj}
       /\ \A m \in Above(n) : m \in DOMAIN p /\ p[m] = Obj

ASSUME ValuesAssumption == Yes # No /\ Yes # Obj /\ No # Obj

IsTrue(p) == p[<<>>] = Yes

(* Whether a path is below one that is selected as a whole, or below one   *)
(* that is excluded.                                                       *)
Covered(p, n) == \E m \in Above(n) \cap DOMAIN p : p[m] = Yes
Excludes(p, n) == \E m \in Above(n) \cap DOMAIN p : p[m] = No

(* getProjection *)
At(p, n) == IF Covered(p, n) THEN Yes ELSE IF n \in DOMAIN p THEN p[n] ELSE No

Selects(p, n) == At(p, n) # No

(* getTraversing of a projection, which does not look into true or false.  *)
Mentions(p, n) == n \in DOMAIN p /\ p[n] # No

(* setTraversing, which does not change what true or false stand for.      *)
WithAll(p, paths) ==
  LET reached == {k \in paths : \A m \in Above(k) \cap DOMAIN p : p[m] = Obj}
      made == UNION {Above(k) : k \in reached}
  IN [n \in {m \in DOMAIN p : Above(m) \cap reached = {}} \cup made \cup reached |->
        IF n \in reached THEN Yes ELSE IF n \in made THEN Obj ELSE p[n]]

Strongest(V) == IF Yes \in V THEN Yes ELSE IF Obj \in V THEN Obj ELSE No
Weakest(V) == IF No \in V THEN No ELSE IF Obj \in V THEN Obj ELSE Yes

(* Mutant: what the second projection names replaces what the first has.   *)
MergeReplacing(p, q) ==
  [n \in DOMAIN p \cup DOMAIN q |-> IF n \in DOMAIN q THEN q[n] ELSE p[n]]

Merge(p, q) ==
  [n \in {m \in DOMAIN p \cup DOMAIN q : ~Covered(p, m) /\ ~Covered(q, m)} |->
     Strongest({At(p, n), At(q, n)})]

Has(p, n) == n \in DOMAIN p \/ Covered(p, n)

Intersect(p, q) ==
  [n \in {m \in DOMAIN p \cup DOMAIN q : Has(p, m) /\ Has(q, m)} |->
     Weakest({At(p, n), At(q, n)})]

(* Mutant: a field in common is enough. *)
IntersectedShallow(p, q) ==
  /\ ~(No \in {p[<<>>], q[<<>>]})
  /\ IsTrue(p) \/ IsTrue(q) \/ (DOMAIN p \cap DOMAIN q) \ {<<>>} # {}

(* Whether something is selected by both. *)
Intersected(p, q) ==
  \E n \in DOMAIN p \cap DOMAIN q : No \notin {p[n], q[n]} /\ Yes \in {p[n], q[n]}

(* Mutant: fields the container does not mention are not compared. *)
ContainedLoosely(container, p) ==
  \A n \in DOMAIN p \cap DOMAIN container :
    \/ container[n] \in {Yes, p[n]}
    \/ container[n] # No /\ p[n] = No

Contained(container, p) ==
  \A n \in DOMAIN p :
    \/ At(container, n) = Yes
    \/ /\ n \in DOMAIN container
       /\ \/ container[n] = p[n]
          \/ container[n] # No /\ p[n] = No

IsEmptyProjection(p) == \A n \in DOMAIN p : p[n] = Obj
=============================================================================
