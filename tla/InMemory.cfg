\* Callers insert an id twice, update ids, or keep ids unique.
CONSTANTS
  Ids = {a, b}
  Fields = {f}
  Vals = {v}
  Null = Null
  AnyVal = AnyVal
  Keep = Keep
  GrowthThreshold = 2
  GrowthStep = 1
  MaxLength = 4
  Filters <- MCFilters
  Changes <- MCChanges
SPECIFICATION Spec
SYMMETRY Symmetric
INVARIANTS
  TypeOK
  SlotsAccounted
  IndexExact
  IndexedReadIsScan
PROPERTIES
  InsertKeepsRecords
  ImplementsCollection
