------------------------ MODULE MCStoredDocuments --------------------------
(* A small schema for TLC: a required scalar and an optional one, and an   *)
(* optional object with a required scalar, a required object and an        *)
(* optional one.                                                           *)
EXTENDS StoredDocuments, TLC

CONSTANTS v1, v2

Live == <<"live">>
Note == <<"note">>
E == <<"e">>
EA == <<"e", "a">>
EF == <<"e", "f">>
EFC == <<"e", "f", "c">>
EG == <<"e", "g">>
EGD == <<"e", "g", "d">>

MCLeaves == {Live, Note, EA, EFC, EGD}
MCEmbeddeds == {E, EF, EG}
MCOrder == <<Live, Note, EA, EFC, EGD>>
MCRequired == {Live, EA, EF, EFC}
MCAlias == (Live :> "active") @@ (Note :> "note") @@ (E :> "cred") @@ (EA :> "user") @@ (EF :> "f")
             @@ (EFC :> "c") @@ (EG :> "another") @@ (EGD :> "d")

Object(v, g) == (E :> Obj) @@ (EA :> v) @@ (EF :> Obj) @@ (EFC :> v) @@ g

(* The optional object: missing, null, with a null, with a value. *)
Optionals == {<<>>, EG :> NoValue, (EG :> Obj) @@ (EGD :> NoValue), (EG :> Obj) @@ (EGD :> v2)}

(* Records without the object, with a null in its place, and with it. *)
MCRecords ==
  {(Live :> v1), (Live :> v2) @@ (Note :> v1) @@ (E :> NoValue)}
    \cup {(Live :> v1) @@ (Note :> v2) @@ Object(v2, g) : g \in Optionals}
    \cup {(Live :> v1) @@ (Note :> NoValue) @@ Object(v1, (EG :> Obj) @@ (EGD :> v2))}

Changing(keys, to) == [keys |-> keys, to |-> to]

(* One field, two fields of one object, nulls, and objects listed in part or in full. *)
MCUpdates ==
  {Changing({l}, l :> v1) : l \in MCLeaves}
    \cup {Changing({l}, l :> NoValue) : l \in {Live, Note, EGD, E, EG, EF}}
    \cup {Changing({EA, EGD}, (EA :> v2) @@ (EGD :> v2)), Changing({Live, EFC}, (Live :> NoValue) @@ (EFC :> v2))}
    \cup {Changing({E}, Object(v1, g)) : g \in Optionals}
    \cup {Changing({EG}, (EG :> Obj) @@ (EGD :> v1)), Changing({EG}, EG :> Obj)}

(* The object left out, whole, or with some of its fields. *)
MCSelectable ==
  {(Live :> Whole) @@ (Note :> Whole), (Live :> Whole) @@ (E :> Whole)}
    \cup {(E :> Obj) @@ f @@ g :
            f \in {<<>>, EA :> Whole, (EA :> Whole) @@ (EF :> Whole), (EF :> Obj) @@ (EFC :> Whole)},
            g \in {<<>>, EG :> Whole, EG :> Obj, (EG :> Obj) @@ (EGD :> Whole)}}
=============================================================================
