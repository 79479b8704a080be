SPECIFICATION Spec
CONSTANTS
  users = users
  posts = posts
  email = email
  nick = nick
  author = author
  bad = bad
  unset = unset
  none = none
  badId = badId
  malformed = malformed
  noRequest = noRequest
  noAnswer = noAnswer
  noConn = noConn
  noWrite = noWrite
  noTotal = noTotal
  k1 = k1
  k2 = k2
  Tables <- MCTables
  Columns <- MCColumns
  Required <- MCRequired
  Unique <- MCUnique
  ForeignKey <- MCForeignKey
  Default <- MCDefault
  Values <- MCValues
  Rank <- MCRank
  Accepted <- MCAccepted
  Null = unset
  NoRow = none
  MaxId = 2
  Requests <- FileRequests
  BadId = badId
  Malformed = malformed
  NoRequest = noRequest
  NoAnswer = noAnswer
  Clients = {c1, c2}
  Conns <- TwoConns
  InitConn = k1
  NoConn = noConn
  Seeded <- MCSeeded
  SeedRows = 1
  NoTotal = noTotal
  NoWrite = noWrite
SYMMETRY ClientSymmetry
PROPERTIES
  ReferencedRowsAreKept
