SPECIFICATION Spec
CONSTANTS
  Contexts <- BothContexts
  MaxPromises = 4
  Unmade = Unmade
  Origin = Origin
INVARIANTS TypeOK BooksExact
PROPERTY LinkSpec
CHECK_DEADLOCK FALSE
