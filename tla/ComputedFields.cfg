\* Finds of persons, by projections and by queries, through four middlewares in every order.
CONSTANTS
  Yes = Yes
  No = No
  Obj = Obj
  id = id
  first = first
  full = full
  label = label
  authorId = authorId
  countryId = countryId
  address = address
  street = street
  line = line
  country = country
  author = author
  name = name
  others = others
  fullName = fullName
  labelled = labelled
  addressLine = addressLine
  dependency = dependency
  Person = Person
  Entity = Entity
  Address = Address
  Country = Country
  Author = Author
  Scalar = Scalar
  person = person
  entity = entity
  Leaf = Leaf
  Types <- MCTypes
  Unions = {}
  FieldType <- MCFieldType
  KeyOf <- MCKeyOf
  Queries <- MCQueries
  RecordType = Person
  Leaves <- MCLeaves
  Nodes <- MCNodes
  Stored <- MCStored
  Id <- MCId
  Relations <- MCRelations
  Middlewares = {fullName, labelled, addressLine, dependency}
  FieldsOf <- MCFieldsOf
  RequiredOf <- MCRequiredOf
  Computes = {fullName, labelled, addressLine}
  Chains <- MCChains
  Asked <- MCAsked
  Containers <- MCContainers
SPECIFICATION Spec
CHECK_DEADLOCK FALSE
INVARIANTS
  ComputedFromComplete
  AnswerComplete
  OnlyTheNeeded
  TreesAreSets
  QueryAnswered
  OperatorsAgree
