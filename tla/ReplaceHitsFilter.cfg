\* replaceOne against the documented choice of the record.
CONSTANTS
  Ids = {a, b}
  Fields = {f, g}
  Vals = {v}
  Null = Null
  AnyVal = AnyVal
  Keep = Keep
  GrowthThreshold = 2
  GrowthStep = 2
  MaxLength = 2
  Filters <- MCFilters
  Changes <- MCChanges
SPECIFICATION ReplaceSpec
PROPERTY ReplaceHitsFilter
