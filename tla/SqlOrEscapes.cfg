\* A query of two members, scoped by a middleware, goes to an SQL database.
CONSTANTS
  Rows <- MCRows
  Conditions <- MCFewConditions
  Questions <- MCQuestions
  NoField = NoField
  MaxEntries = 4
  MaxMembers = 2
SPECIFICATION Spec
CHECK_DEADLOCK FALSE
INVARIANTS
  AndNarrows
