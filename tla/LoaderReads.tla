---------------------------- MODULE LoaderReads -----------------------------
(***************************************************************************)
(* DataLoaders with a record of the reads each loader has caused, to be    *)
(* compared with what the documentation says of the N+1 problem.           *)
(***************************************************************************)
EXTENDS DataLoaders

VARIABLE reads  \* Loader -> the key sets of its batches, in order

Batched == {f \in DOMAIN frames' \ DOMAIN frames : f.loader # Null}

Record ==
  reads' = [l \in DOMAIN reads \cup {f.loader : f \in Batched} |->
    (IF l \in DOMAIN reads THEN reads[l] ELSE <<>>)
    \o (IF \E f \in Batched : f.loader = l
        THEN <<(CHOOSE f \in Batched : f.loader = l).keys>> ELSE <<>>)]

ReadsSpec ==
  /\ Init /\ reads = [l \in {} |-> <<>>]
  /\ [][Next /\ Record]_<<vars, reads>>

(* The linked entities of the records of one find are loaded together: a   *)
(* loader reads a second time only when its keys do not fit into one page. *)
ImmuneToNPlusOne ==
  \A l \in DOMAIN reads :
     Len(reads[l]) > 1 =>
       Cardinality(UNION {reads[l][n] : n \in DOMAIN reads[l]}) > PageSize
=============================================================================
