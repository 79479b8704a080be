SPECIFICATION Spec
CONSTANTS
  authors = authors
  books = books
  name = name
  author = author
  code = code
  unset = unset
  none = none
  noTx = noTx
  Tables <- MCTables
  Columns <- MCColumns
  Required <- MCRequired
  Unique <- MCUnique
  ForeignKey <- MCForeignKey
  Default <- MCDefault
  Values <- MCValues
  Rank <- MCRank
  Accepted <- MCAccepted
  Null = unset
  NoRow = none
  MaxId = 6
  Persistent = TRUE
  RowCounts <- MCRowCounts
  BatchSize = 2
  Generated <- MCGenerated
  Writable <- MCWritable
  MaxAttempts = 1
  MaxStarts = 3
  NoTx = noTx
CHECK_DEADLOCK FALSE
INVARIANTS
  TypeOK
  DurableContentsSound
  BatchesBounded
  OnlyEmptyIsSeeded
PROPERTIES
  RowsKept
  IdsNeverReused
  HandsOverSeeded
  StartupEnds
