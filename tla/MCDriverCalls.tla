--------------------------- MODULE MCDriverCalls ----------------------------
(* A small instance of DriverCalls for TLC: a user for whom deletions are  *)
(* soft and an administrator for whom they are not.                        *)
EXTENDS DriverCalls, TLC

CONSTANTS user, admin

Plain == [op |-> "findPage", ids |-> Ids, live |-> {TRUE, FALSE, None},
        rec |-> NoChanges, raw |-> FALSE, limit |-> None]

MCRequests ==
  {[Plain EXCEPT !.op = op] : op \in Operations}
  \cup {[Plain EXCEPT !.op = "updateAll", !.raw = TRUE],
        [Plain EXCEPT !.op = "replaceOne", !.rec.live = TRUE],
        [Plain EXCEPT !.limit = 1]}

MCChains == {<<"default", "audit", "soft">>, <<"soft", "default", "audit">>}

(* The instance is one the theorems of DriverProofs speak of. *)
ASSUME OrdinaryInstance == FullChains /\ OrdinaryRequests
=============================================================================
