-------------------------- MODULE MCSecurityPolicy --------------------------
(* A small instance of SecurityPolicy for TLC: posts with an author and a  *)
(* team, of which some permissions show the content only.                  *)
EXTENDS SecurityPolicy, TLC

CONSTANTS x1, x2, v1, v2, userId, teamId, region, creator, team, manage, view, audit,
          root, title, content, author, others, nobody, writer, writer2, pair, chief

(* The key region means nothing for posts. *)
MCDomainMap == (userId :> creator) @@ (teamId :> team) @@ (region :> None)

Deny == [read |-> {}, create |-> FALSE, update |-> FALSE, delete |-> FALSE]
MCPolicy ==
  (manage :> [read |-> Nodes, create |-> TRUE, update |-> TRUE, delete |-> FALSE])
    @@ (view :> [Deny EXCEPT !.read = {root, content}])
    @@ (audit :> [Deny EXCEPT !.read = {root, author}, !.delete = TRUE])

(* By default, titles may be seen. *)
MCDefault == [Deny EXCEPT !.read = {root, title}]

ByUser(v) == (userId :> v)
MCContextOf ==
  (nobody :> (audit :> {(region :> v1)}))
    @@ (writer :> (manage :> {ByUser(v1)}))
    @@ (writer2 :> ((manage :> {ByUser(v1)}) @@ (view :> Everywhere)))
    @@ (pair :> ((manage :> {(userId :> v1) @@ (teamId :> v2)})
                  @@ (audit :> {ByUser(v2), (teamId :> v1) @@ (region :> v1)})))
    @@ (chief :> ((manage :> {ByUser(v1), ByUser(v2)}) @@ (audit :> Everywhere)))

MCProjections == {{root}, {root, title}, {root, content}, Nodes}

NoDomain == [k \in {} |-> {}]
MCDomains ==
  {NoDomain, (userId :> {v1}), (userId :> {v1, v2}), (teamId :> {}),
   (region :> {v1}), (userId :> {v1}) @@ (teamId :> {v1, v2}),
   (userId :> {v1}) @@ (teamId :> {v2})}

(* Updates that move a record to another user, or leave it where it is. *)
MCChanges == {[f \in Fields |-> IF f = creator THEN v ELSE Keep] : v \in {v2, Keep}}
=============================================================================
