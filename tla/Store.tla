------------------------------- MODULE Store -------------------------------
(***************************************************************************)
(* The tables of a parsed schema and what a single SQL statement of        *)
(* package db does to them: which rows it reads, which constraint it       *)
(* breaks, which contents it leaves behind. The contents `tbl' are a       *)
(* parameter of every operator, so that the handlers (Crud) and the        *)
(* abstract service (CrudService) share one meaning of a statement.        *)
(*                                                                         *)
(* A row maps the declared columns of its table to values; the implicit    *)
(* `id' column is the index under which the row is kept. Column types,     *)
(* ranges, lengths and patterns are abstracted to the set of values that   *)
(* validateColumn accepts for the column.                                  *)
(***************************************************************************)
EXTENDS Integers, FiniteSets

CONSTANTS
  Tables,      \* names of the tables of the schema
  Columns,     \* Columns[t]: names of the declared columns of table t
  Required,    \* the <<table, column>> pairs declared "required"
  Unique,      \* the <<table, column>> pairs declared "unique"
  ForeignKey,  \* maps <<table, column>> pairs to the table they reference
  Default,     \* maps <<table, column>> pairs to their default value
  Values,      \* the values a JSON body can give a column, null excepted
  Accepted,    \* Accepted[t][c]: the values validateColumn lets through
  Null,        \* JSON null in a body, SQL NULL in a row
  Rank,        \* Rank[v]: the place of value v in the order of SQLite
  NoRow,       \* marks an id that has no row
  MaxId        \* bound: ids run from 1 to MaxId

\* The declared columns, each with its table.
Cells == UNION {{t} \X Columns[t] : t \in Tables}

ASSUME SchemaAssumption ==
  /\ Required \subseteq Cells
  /\ Unique \subseteq Cells
  /\ DOMAIN ForeignKey \subseteq Cells
  /\ \A p \in DOMAIN ForeignKey : ForeignKey[p] \in Tables
  /\ DOMAIN Default \subseteq Cells
  /\ \A p \in DOMAIN Default : Default[p] \in Values

ASSUME ValueAssumption ==
  /\ MaxId \in Nat
  /\ Null \notin Values
  /\ Rank \in [Values -> Nat \ {0}]
  /\ \A t \in Tables : \A c \in Columns[t] : Accepted[t][c] \subseteq Values
  /\ \A t \in Tables : NoRow \notin [Columns[t] -> Values \cup {Null}]

Ids == 1..MaxId

Row(t) == [Columns[t] -> Values \cup {Null}]

\* A decoded JSON object; fields that are not columns of t are ignored by
\* every reader, so they are left out.
Data(t) == UNION {[S -> Values \cup {Null}] : S \in SUBSET Columns[t]}

AnyRow == {NoRow} \cup (UNION {Row(t) : t \in Tables})

Contents == {tbl \in [Tables -> [Ids -> AnyRow]] :
               \A t \in Tables : \A i \in Ids : tbl[t][i] \in Row(t) \cup {NoRow}}

Live(tbl, t) == {i \in Ids : tbl[t][i] # NoRow}

Written(tbl, t, i, row) == [tbl EXCEPT ![t] = [@ EXCEPT ![i] = row]]

-----------------------------------------------------------------------------
(* Package validation *)

\* ValidateCreate works on a copy of the body in which every absent column
\* that has a default has received it.
Cleaned(t, data) ==
  [c \in DOMAIN data \cup {d \in Columns[t] : <<t, d>> \in DOMAIN Default} |->
     IF c \in DOMAIN data THEN data[c] ELSE Default[<<t, c>>]]

\* Mutated form: the branch for an absent required column is missing.
CreateUnrequired(t, data) ==
  \E c \in DOMAIN Cleaned(t, data) : Cleaned(t, data)[c] \notin Accepted[t][c]

CreateInvalid(t, data) ==
  \E c \in Columns[t] :
    \/ c \in DOMAIN Cleaned(t, data) /\ Cleaned(t, data)[c] \notin Accepted[t][c]
    \/ c \notin DOMAIN Cleaned(t, data) /\ <<t, c>> \in Required

UpdateInvalid(t, data) ==
  \E c \in DOMAIN data : data[c] \notin Accepted[t][c]

-----------------------------------------------------------------------------
(* Statements of package db, and the constraints CreateTable declares *)

\* The row an INSERT of the given columns creates: the others are NULL.
Inserted(t, data) ==
  [c \in Columns[t] |-> IF c \in DOMAIN data THEN data[c] ELSE Null]

\* Mutated form: the columns the body leaves out are set to NULL.
Replaced(t, row, data) ==
  [c \in Columns[t] |-> IF c \in DOMAIN data THEN data[c] ELSE Null]

\* The row an UPDATE leaves: only the columns of the body are assigned.
Updated(t, row, data) ==
  [c \in Columns[t] |-> IF c \in DOMAIN data THEN data[c] ELSE row[c]]

NotNullBroken(t, row, assigned) ==
  \E c \in assigned : <<t, c>> \in Required /\ row[c] = Null

\* Mutated form: CreateTable leaves the UNIQUE clause out.
UniqueUndeclared(tbl, t, i, row, assigned) == FALSE

UniqueBroken(tbl, t, i, row, assigned) ==
  \E c \in assigned, j \in Live(tbl, t) \ {i} :
    <<t, c>> \in Unique /\ row[c] # Null /\ tbl[t][j][c] = row[c]

\* A value of a foreign key column that no row of the referenced table has.
Dangling(tbl, t, c, v) ==
  /\ <<t, c>> \in DOMAIN ForeignKey
  /\ v # Null
  /\ v \notin Live(tbl, ForeignKey[<<t, c>>])

ReferenceBroken(tbl, t, row, assigned) ==
  \E c \in assigned : Dangling(tbl, t, c, row[c])

\* The foreign key columns of table u that refer to table t.
Referring(u, t) ==
  {c \in Columns[u] : <<u, c>> \in DOMAIN ForeignKey /\ ForeignKey[<<u, c>>] = t}

Referenced(tbl, t, i) ==
  \E u \in Tables : \E c \in Referring(u, t), j \in Live(tbl, u) : tbl[u][j][c] = i

\* The constraint that writing `row' as row i of t breaks, in the order in
\* which SQLite finds them; fk is the foreign_keys pragma of the connection.
\* An INSERT assigns every column, an UPDATE those it names. Foreign keys
\* are checked when the statement ends, on the table with the row.
WriteBreaks(fk, tbl, t, i, row, assigned) ==
  IF NotNullBroken(t, row, assigned) THEN "notnull"
  ELSE IF UniqueBroken(tbl, t, i, row, assigned) THEN "unique"
  ELSE IF fk = "on" /\ ReferenceBroken(Written(tbl, t, i, row), t, row, assigned)
  THEN "foreignkey"
  ELSE "nothing"

DeleteBreaks(fk, tbl, t, i) ==
  IF fk = "on" /\ Referenced(Written(tbl, t, i, NoRow), t, i) THEN "foreignkey" ELSE "nothing"

\* What row i has in the column of ORDER BY, NULL the smallest; sanitizeSort
\* puts id for a name that is no column.
SortKey(tbl, q, i) ==
  IF q.sort \notin Columns[q.table] THEN i
  ELSE LET v == tbl[q.table][i][q.sort] IN IF v = Null THEN 0 ELSE Rank[v]

\* No row of S has to come after one of T.
InFront(tbl, q, S, T) ==
  \A i \in S, j \in T :
    IF q.descending THEN SortKey(tbl, q, i) >= SortKey(tbl, q, j)
    ELSE SortKey(tbl, q, i) <= SortKey(tbl, q, j)

\* LIMIT limit OFFSET (page - 1) * limit: skipped are the ids before those of
\* the page P, rest those after it.
IsPage(tbl, q, skipped, P, rest) ==
  LET offset == (q.page - 1) * q.limit
  IN /\ Cardinality(skipped) <= offset /\ Cardinality(P) <= q.limit
     /\ Cardinality(skipped) = offset \/ P \cup rest = {}
     /\ Cardinality(P) = q.limit \/ rest = {}
     /\ InFront(tbl, q, skipped, P \cup rest) /\ InFront(tbl, q, P, rest)

\* SELECT * ... ORDER BY sort LIMIT limit OFFSET offset, for a list q. Which of
\* several rows with the same key come first is left to SQLite.
PageIds(tbl, q) ==
  {P \in SUBSET Live(tbl, q.table) : \E skipped \in SUBSET (Live(tbl, q.table) \ P) :
     IsPage(tbl, q, skipped, P, Live(tbl, q.table) \ (skipped \cup P))}

\* Those pages, as functions from the ids of their rows.
Pages(tbl, q) == {[i \in P |-> tbl[q.table][i]] : P \in PageIds(tbl, q)}

-----------------------------------------------------------------------------
(* What the constraints promise about the contents as a whole *)

\* No two rows of a table agree on a unique column (NULLs never clash).
UniqueIn(tbl) ==
  \A t \in Tables : \A c \in Columns[t] : <<t, c>> \in Unique =>
    \A i, j \in Live(tbl, t) :
      i # j /\ tbl[t][i][c] # Null => tbl[t][i][c] # tbl[t][j][c]

\* Every foreign key value is NULL or the id of a row of the referenced table.
ReferencesIn(tbl) ==
  \A t \in Tables : \A c \in Columns[t] : \A i \in Live(tbl, t) :
    ~Dangling(tbl, t, c, tbl[t][i][c])
=============================================================================
