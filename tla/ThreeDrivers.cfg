\* A query of up to 3 entries, walked by the three drivers; or rows sorted
\* by up to 3 sort objects; or one record written up to four times.
CONSTANTS
  Rows <- MCRows
  Conditions <- MCConditions
  Questions <- MCQuestions
  NoField = NoField
  MaxEntries = 3
  MaxMembers = 2
  Unsorted <- MCUnsorted
  SortObjects <- MCSortObjects
  MaxSorts = 3
  v1 = v1
  v2 = v2
  Leaves <- MCLeaves
  Embeddeds <- MCEmbeddeds
  Order <- MCOrder
  Required <- MCRequired
  Alias <- MCAlias
  Scalars = {v1, v2}
  Records <- MCRecords
  Updates <- MCUpdates
  Selectable <- MCSelectable
  MaxWrites = 4
  NoValue = NoValue
  Obj = Obj
  Whole = Whole
  Absent = Absent
  Failed = Failed
SPECIFICATION QueryOrWrites
CHECK_DEADLOCK FALSE
INVARIANTS
  MongoAsInMemory
  SqlAsInMemory
  CriteriaInOrder
  AggregatesAgree
  StoredAsWritten
  RequiredPresent
