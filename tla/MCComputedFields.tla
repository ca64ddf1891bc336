-------------------------- MODULE MCComputedFields --------------------------
(* A small instance of ComputedFields for TLC: persons with a computed     *)
(* name, a label made of it and of a computed line of the address, an      *)
(* author, and a country in the address whose key lies outside of it.      *)
EXTENDS QueriedFields, TLC

CONSTANTS id, first, full, label, authorId, countryId, address, street, line,
          country, author, name, others, fullName, labelled, addressLine, dependency,
          Person, Entity, Address, Country, Author, Scalar, person, entity

Object(ks) == [k \in ks |-> Yes]

MCId == <<id>>
MCStored == {<<id>>, <<first>>, <<authorId>>, <<countryId>>, <<address, street>>}
MCLeaves ==
  MCStored \cup {<<full>>, <<label>>, <<address, line>>, <<address, country, name>>, <<author, name>>}
MCRelations ==
  {[field |-> <<author>>, key |-> <<authorId>>],
   [field |-> <<address, country>>, key |-> <<countryId>>]}

MCFieldsOf ==
  (fullName :> Paths(Object({full}))) @@ (labelled :> Paths(Object({label})))
    @@ (addressLine :> Paths(address :> Object({line})))
    @@ (dependency :> Paths(author :> Object({name})))
MCRequiredOf ==
  (fullName :> Paths(Object({first})))
    @@ (labelled :> Paths(Object({full}) @@ (address :> Object({line}))))
    @@ (addressLine :> Paths(address :> Object({street})))
    @@ (dependency :> Paths(address :> Object({line})))

MCChains ==
  {c \in [1..4 -> Middlewares] : /\ {c[i] : i \in 1..4} = Middlewares
                                 /\ dependency \in {c[1], c[3]}}

Absent == {NoFields}
Either(k, ps) == {k :> p : p \in ps} \cup Absent
Addresses ==
  {Yes, NoFields, Object({street}), Object({line}), country :> NoFields,
   Object({street}) @@ (country :> Object({name}))}

Projections ==
  {Yes} \cup
  {u @@ l @@ a @@ w : u \in Either(full, {Yes, No}), l \in Either(label, {Yes}),
                      a \in Either(address, Addresses),
                      w \in Either(author, {NoFields, Object({name})}) \cup {Object({first})}}

(* Queries of one or two selections.   Entity is an interface of Person.   *)
MCTypes == {Person, Entity, Address, Country, Author, Scalar}
MCFieldType ==
  LET fields == (address :> Address) @@ (full :> Scalar) @@ (id :> Scalar) IN
  (Entity :> fields)
    @@ (Person :> ((author :> Author) @@ [f \in {first, label} |-> Scalar] @@ fields))
    @@ (Address :> ((country :> Country) @@ [f \in {street, line} |-> Scalar]))
    @@ [t \in {Country, Author} |-> name :> Scalar]
    @@ (Scalar :> [f \in {} |-> Scalar])
MCKeyOf == (Entity :> entity) @@ (Person :> person)
    @@ (Address :> address) @@ (Country :> country) @@ (Author :> author)

Of(f, s) == Field(f, <<s>>)
Line == Field(line, Leaf)
CountryName == Of(country, Field(name, Leaf))
Selectable ==
  {Field(full, Leaf), Of(address, Field(street, Leaf)), Of(author, Field(name, Leaf)),
   Field(address, <<CountryName, Fragment(Address, <<Line, CountryName>>)>>),
   Fragment(Person, <<Field(first, Leaf), Of(address, CountryName)>>),
   Fragment(Entity, <<Field(id, Leaf), Fragment(Person, <<Of(address, Line)>>)>>)}
MCQueries == UNION {[1..n -> Selectable] : n \in 1..2}

MCContainers == {Paths(t) : t \in
  {Yes, No, NoFields, Object({first, author}),
   Object({id, full}) @@ (address :> (Object({line}) @@ (country :> NoFields)))}}

MCAsked == {Paths(t) : t \in Projections} \cup {ProjectionOf[q] : q \in Queries}

MCNodes ==
  MCLeaves \cup UNION {DOMAIN p : p \in MCAsked}
    \cup {<<>>, <<others>>, <<address>>, <<address, others>>, <<address, country>>,
          <<address, country, others>>, <<author>>, <<author, others>>}
=============================================================================
