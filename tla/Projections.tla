---------------------------- MODULE Projections -----------------------------
(***************************************************************************)
(* Projections are trees: true, false, or an object with a projection for  *)
(* some of the fields.  The operators are those of projections.utils.ts;   *)
(* a path is the sequence of the steps of a dotted name.                   *)
(***************************************************************************)
EXTENDS ProjectionPaths

Booleans == {Yes, No}
NoFields == [k \in {} |-> Yes]

(* The paths of a tree, and the tree of paths. *)
RECURSIVE Paths(_)
Paths(t) ==
  IF t \in Booleans THEN [n \in {<<>>} |-> t]
  ELSE LET below == [k \in DOMAIN t |-> Paths(t[k])]
       IN [n \in {<<>>} \cup UNION {{<<k>> \o m : m \in DOMAIN below[k]} : k \in DOMAIN t} |->
             IF n = <<>> THEN Obj ELSE below[Head(n)][Tail(n)]]

RECURSIVE Tree(_)
Tree(p) ==
  IF p[<<>>] # Obj THEN p[<<>>]
  ELSE [k \in {Head(n) : n \in DOMAIN p \ {<<>>}} |->
          Tree([m \in {Tail(n) : n \in {x \in DOMAIN p \ {<<>>} : Head(x) = k}} |-> p[<<k>> \o m]])]

(* Mutant: an object of the second projection replaces that of the first.  *)
MergeShallow(p, q) ==
  IF Yes \in {p, q} THEN Yes
  ELSE IF p = No THEN q
  ELSE IF q = No THEN p
  ELSE [k \in DOMAIN p \cup DOMAIN q |-> IF k \in DOMAIN q THEN q[k] ELSE p[k]]

RECURSIVE MergeProjections(_, _)
MergeProjections(p, q) ==
  IF Yes \in {p, q} THEN Yes
  ELSE IF p = No THEN q
  ELSE IF q = No THEN p
  ELSE [k \in DOMAIN p \cup DOMAIN q |->
          IF k \notin DOMAIN p THEN q[k]
          ELSE IF k \notin DOMAIN q THEN p[k]
          ELSE MergeProjections(p[k], q[k])]

RECURSIVE IntersectProjections(_, _)
IntersectProjections(p, q) ==
  IF No \in {p, q} THEN No
  ELSE IF p = Yes THEN q
  ELSE IF q = Yes THEN p
  ELSE [k \in DOMAIN p \cap DOMAIN q |-> IntersectProjections(p[k], q[k])]

RECURSIVE IsProjectionIntersected(_, _)
IsProjectionIntersected(p, q) ==
  /\ No \notin {p, q}
  /\ \/ Yes \in {p, q}
     \/ \E k \in DOMAIN p \cap DOMAIN q : IsProjectionIntersected(p[k], q[k])

RECURSIVE IsProjectionContained(_, _)
IsProjectionContained(container, p) ==
  \/ container = Yes \/ p = container
  \/ container # No /\ p = No
  \/ /\ Booleans \cap {container, p} = {}
     /\ \A k \in DOMAIN p : k \in DOMAIN container /\ IsProjectionContained(container[k], p[k])

RECURSIVE GetProjection(_, _)
GetProjection(p, path) ==
  IF path = <<>> \/ p \in Booleans THEN p
  ELSE IF Head(path) \in DOMAIN p THEN GetProjection(p[Head(path)], Tail(path))
  ELSE No

RECURSIVE IsEmptyTree(_)
IsEmptyTree(p) ==
  p \notin Booleans /\ \A k \in DOMAIN p : IsEmptyTree(p[k])

(* Whether getTraversing of a projection finds something: it does not look *)
(* into true or false.                                                     *)
RECURSIVE IsTraversed(_, _)
IsTraversed(p, path) ==
  IF path = <<>> THEN p # No
  ELSE p \notin Booleans /\ Head(path) \in DOMAIN p /\ IsTraversed(p[Head(path)], Tail(path))

(* setTraversing to true, which does not change true or false. *)
RECURSIVE SetTraversing(_, _)
SetTraversing(p, path) ==
  IF path = <<>> THEN Yes
  ELSE IF p \in Booleans THEN p
  ELSE [k \in DOMAIN p \cup {Head(path)} |->
          IF k # Head(path) THEN p[k]
          ELSE SetTraversing(IF k \in DOMAIN p THEN p[k] ELSE NoFields, Tail(path))]
=============================================================================
