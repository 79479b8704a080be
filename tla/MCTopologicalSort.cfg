SPECIFICATION Spec
CONSTANTS
  authors = authors
  books = books
  reviews = reviews
  Tables <- MCTables
  Inputs <- MCInputs
CHECK_DEADLOCK FALSE
INVARIANTS
  TypeOK
  Bookkeeping
  SortedIsOrder
  CircularIsCyclic
