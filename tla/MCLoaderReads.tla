--------------------------- MODULE MCLoaderReads ----------------------------
(* A find of two users and their posts, for TLC. *)
EXTENDS LoaderReads

CONSTANTS users, posts, a, b, c, o1

MCDaos == {users, posts}
MCRelations ==
  [d \in MCDaos |->
     IF d = users
     THEN <<[kind |-> "foreign", dao |-> posts, join |-> Null, required |-> FALSE]>>
     ELSE <<>>]

WithPosts == <<[plan |-> <<>>, limit |-> Null]>>
MCPlans == [d \in MCDaos |-> IF d = users THEN {<<>>, WithPosts} ELSE {<<>>}]
MCQuery == [o \in {o1} |-> [dao |-> users, plan |-> WithPosts]]
TwoUsers ==
  [d \in MCDaos |-> IF d = users THEN {[id |-> k, refs |-> {}] : k \in {a, b}}
                    ELSE {[id |-> c, refs |-> {a}]}]
MCWorkloads ==
  {[query |-> MCQuery, db |-> TwoUsers, writes |-> {}, driverPages |-> FALSE, maxFailures |-> 0]}
=============================================================================
