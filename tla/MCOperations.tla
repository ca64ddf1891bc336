--------------------------- MODULE MCOperations ----------------------------
(* Small instances of Operations for TLC. *)
EXTENDS Operations, TLC

CONSTANTS tx1, tx2, db1, s1, s2, op1, op2

(* The middlewares of the user have both functions. *)
MCHooks == [i \in 1..UserCount |-> {"before", "after"}]

(* Both transactions are given a session for the datasource. *)
MCSessions == [t \in Txs |-> [ds \in Datasources |-> IF t = tx1 THEN s1 ELSE s2]]

(* The operations can be exchanged, and the transactions with their sessions. *)
Exchanged(x, y) == (x :> y) @@ (y :> x)
Symmetric ==
  {p @@ q : p \in Permutations({op1, op2}),
            q \in {[v \in {tx1, tx2, s1, s2} |-> v], Exchanged(tx1, tx2) @@ Exchanged(s1, s2)}}
=============================================================================
