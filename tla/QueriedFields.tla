--------------------------- MODULE QueriedFields ----------------------------
(***************************************************************************)
(* Finds with computed fields that GraphQL queries ask for, and projection *)
(* trees beside their paths.                                               *)
(***************************************************************************)
EXTENDS ComputedFields, Selections

CONSTANTS
  Queries,    \* selection sets of GraphQL queries that are handed on
  RecordType  \* the type of the records

(* The projection of a query. *)
ProjectionOf == [q \in Queries |-> Paths(InfoToProjection(NoFields, q, RecordType))]

-----------------------------------------------------------------------------
(* Properties *)

(* A query is answered with all it asks for, however it is cut into        *)
(* fragments.  A fragment must not select of a field what was already      *)
(* selected of it, nor hold one on a type with more fields: what was       *)
(* selected first, or those fields, are then lost.                         *)
QueryAnswered ==
  pc = "done" /\ Sound =>
    \A q \in Queries :
      Mergeable(q) /\ asked = ProjectionOf[q] => \A l \in Wanted(q) : Answered(l)

(* Whether a tree is what paths have at a node. *)
Same(value, tree) == IF tree \in Booleans THEN value = tree ELSE value = Obj

(* The operators on paths, of which ComputedFields is made, are those of   *)
(* the code, which recur on trees.                                         *)
OperatorsAgree ==
  pc \in {"inject", "relations"} =>
    LET p == Tree(projection) IN
    /\ Paths(p) = projection
    /\ IsEmptyTree(p) <=> IsEmptyProjection(projection)
    /\ \A n \in Nodes :
         /\ Same(At(projection, n), GetProjection(p, n))
         /\ IsTraversed(p, n) <=> Mentions(projection, n)
    /\ \A k \in Stored : SetTraversing(p, k) = Tree(WithAll(projection, {k}))
    /\ \A c \in Containers :
         LET q == Tree(c) IN
         /\ MergeProjections(p, q) = Tree(Merge(projection, c))
         /\ IntersectProjections(p, q) = Tree(Intersect(projection, c))
         /\ IsProjectionIntersected(p, q) <=> Intersected(projection, c)
         /\ IsProjectionContained(q, p) <=> Contained(c, projection)
=============================================================================
