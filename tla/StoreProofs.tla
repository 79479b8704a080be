---------------------------- MODULE StoreProofs -----------------------------
(***************************************************************************)
(* What one statement preserves: a write that breaks no constraint leaves  *)
(* contents of which the constraints hold as a whole.                      *)
(***************************************************************************)
EXTENDS Store, TLAPS

LEMMA LiveType ==
  ASSUME NEW tbl \in Contents, NEW t \in Tables, NEW i \in Live(tbl, t)
  PROVE  i \in Ids /\ tbl[t][i] \in Row(t)
  BY DEF Contents, Live

LEMMA WrittenType ==
  ASSUME NEW tbl \in Contents, NEW t \in Tables, NEW i \in Ids,
         NEW row \in Row(t) \cup {NoRow}
  PROVE  Written(tbl, t, i, row) \in Contents
  <1>1. row \in AnyRow
    BY DEF AnyRow
  <1> QED BY <1>1 DEF Written, Contents

\* Reading the contents that a write leaves.
LEMMA WrittenValue ==
  ASSUME NEW tbl \in Contents, NEW t \in Tables, NEW i \in Ids, NEW row,
         NEW u \in Tables, NEW j \in Ids
  PROVE  Written(tbl, t, i, row)[u][j] = IF u = t /\ j = i THEN row ELSE tbl[u][j]
  BY DEF Written, Contents

LEMMA InsertedType ==
  ASSUME NEW t \in Tables, NEW data \in Data(t)
  PROVE  Inserted(t, data) \in Row(t)
  BY DEF Inserted, Row, Data

LEMMA UpdatedType ==
  ASSUME NEW t \in Tables, NEW row \in Row(t), NEW data \in Data(t)
  PROVE  Updated(t, row, data) \in Row(t)
  BY DEF Updated, Row, Data

LEMMA CleanedType ==
  ASSUME NEW t \in Tables, NEW data \in Data(t)
  PROVE  Cleaned(t, data) \in Data(t)
  <1> DEFINE S == DOMAIN data \cup {d \in Columns[t] : <<t, d>> \in DOMAIN Default}
  <1>1. PICK R \in SUBSET Columns[t] : data \in [R -> Values \cup {Null}]
    BY DEF Data
  <1>2. S \in SUBSET Columns[t]
    BY <1>1
  <1>3. Cleaned(t, data) \in [S -> Values \cup {Null}]
    BY <1>1, SchemaAssumption DEF Cleaned
  <1> QED BY <1>2, <1>3 DEF Data

\* A write leaves unique columns unique if none of the columns it assigns
\* clashes and the others hold NULL or what the row held before.
LEMMA WriteKeepsUnique ==
  ASSUME NEW tbl \in Contents, UniqueIn(tbl),
         NEW t \in Tables, NEW i \in Ids, NEW row \in Row(t), NEW assigned,
         ~UniqueBroken(tbl, t, i, row, assigned),
         \A c \in Columns[t] \ assigned :
           row[c] = Null \/ (i \in Live(tbl, t) /\ row[c] = tbl[t][i][c])
  PROVE  UniqueIn(Written(tbl, t, i, row))
  <1> DEFINE new == Written(tbl, t, i, row)
  <1>1. SUFFICES ASSUME NEW u \in Tables, NEW c \in Columns[u], <<u, c>> \in Unique,
                        NEW j \in Live(new, u), NEW k \in Live(new, u),
                        j # k, new[u][j][c] # Null, new[u][j][c] = new[u][k][c]
                 PROVE  FALSE
    BY DEF UniqueIn
  <1>2. j \in Ids /\ k \in Ids
    BY DEF Live
  <1>3. \A l \in Ids : new[u][l] = IF u = t /\ l = i THEN row ELSE tbl[u][l]
    BY WrittenValue
  <1>4. \A l \in {j, k} : ~(u = t /\ l = i) => l \in Live(tbl, u)
    BY <1>2, <1>3 DEF Live
  <1>5. CASE u = t /\ (j = i \/ k = i)
    <2>1. PICK l \in {j, k} \ {i} : l \in Live(tbl, t) /\ tbl[t][l][c] = row[c]
      BY <1>1, <1>2, <1>3, <1>4, <1>5
    <2>2. row[c] # Null
      BY <1>1, <1>2, <1>3, <1>5
    <2>3. CASE c \in assigned
      BY <1>1, <1>5, <2>1, <2>2, <2>3 DEF UniqueBroken
    <2>4. CASE c \notin assigned
      BY <1>1, <1>5, <2>1, <2>2, <2>4 DEF UniqueIn
    <2> QED BY <2>3, <2>4
  <1>6. CASE ~(u = t /\ (j = i \/ k = i))
    BY <1>1, <1>2, <1>3, <1>4, <1>6 DEF UniqueIn
  <1> QED BY <1>5, <1>6

LEMMA DeleteKeepsUnique ==
  ASSUME NEW tbl \in Contents, UniqueIn(tbl), NEW t \in Tables, NEW i \in Ids
  PROVE  UniqueIn(Written(tbl, t, i, NoRow))
  <1> DEFINE new == Written(tbl, t, i, NoRow)
  <1>1. \A u \in Tables : \A l \in Live(new, u) : l \in Live(tbl, u) /\ new[u][l] = tbl[u][l]
    BY WrittenValue DEF Live
  <1> QED BY <1>1 DEF UniqueIn

\* A write of a row does not make other references dangle, and its own are
\* checked in the columns it assigns.
LEMMA WriteKeepsReferences ==
  ASSUME NEW tbl \in Contents, ReferencesIn(tbl),
         NEW t \in Tables, NEW i \in Ids, NEW row \in Row(t), NEW assigned,
         ~ReferenceBroken(Written(tbl, t, i, row), t, row, assigned),
         \A c \in Columns[t] \ assigned :
           row[c] = Null \/ (i \in Live(tbl, t) /\ row[c] = tbl[t][i][c])
  PROVE  ReferencesIn(Written(tbl, t, i, row))
  <1> DEFINE new == Written(tbl, t, i, row)
  <1>1. \A u \in Tables : \A l \in Ids :
          new[u][l] = IF u = t /\ l = i THEN row ELSE tbl[u][l]
    BY WrittenValue
  <1>2. row # NoRow
    BY ValueAssumption DEF Row
  <1>3. \A u \in Tables : Live(tbl, u) \subseteq Live(new, u)
    BY <1>1, <1>2 DEF Live
  <1>4. SUFFICES ASSUME NEW u \in Tables, NEW c \in Columns[u], NEW j \in Live(new, u)
                 PROVE  ~Dangling(new, u, c, new[u][j][c])
    BY DEF ReferencesIn
  <1>5. j \in Ids
    BY DEF Live
  <1>6. \A v : Dangling(new, u, c, v) => Dangling(tbl, u, c, v)
    <2>1. <<u, c>> \in DOMAIN ForeignKey => ForeignKey[<<u, c>>] \in Tables
      BY SchemaAssumption
    <2> QED BY <1>3, <2>1 DEF Dangling
  <1>7. CASE u = t /\ j = i
    <2>1. new[u][j][c] = row[c]
      BY <1>1, <1>5, <1>7
    <2>2. CASE c \in assigned
      BY <1>7, <2>1, <2>2 DEF ReferenceBroken
    <2>3. CASE c \notin assigned
      BY <1>6, <1>7, <2>1, <2>3 DEF ReferencesIn, Dangling
    <2> QED BY <2>2, <2>3
  <1>8. CASE ~(u = t /\ j = i)
    <2>1. new[u][j] = tbl[u][j] /\ j \in Live(tbl, u)
      BY <1>1, <1>5, <1>8 DEF Live
    <2> QED BY <1>6, <2>1 DEF ReferencesIn
  <1> QED BY <1>7, <1>8

LEMMA DeleteKeepsReferences ==
  ASSUME NEW tbl \in Contents, ReferencesIn(tbl),
         NEW t \in Tables, NEW i \in Ids,
         ~Referenced(Written(tbl, t, i, NoRow), t, i)
  PROVE  ReferencesIn(Written(tbl, t, i, NoRow))
  <1> DEFINE new == Written(tbl, t, i, NoRow)
  <1>1. \A u \in Tables : \A l \in Ids :
          new[u][l] = IF u = t /\ l = i THEN NoRow ELSE tbl[u][l]
    BY WrittenValue
  <1>2. SUFFICES ASSUME NEW u \in Tables, NEW c \in Columns[u], NEW j \in Live(new, u),
                        Dangling(new, u, c, new[u][j][c])
                 PROVE  FALSE
    BY DEF ReferencesIn
  <1>3. j \in Live(tbl, u) /\ new[u][j] = tbl[u][j]
    BY <1>1 DEF Live
  <1>4. /\ <<u, c>> \in DOMAIN ForeignKey /\ ForeignKey[<<u, c>>] \in Tables
        /\ new[u][j][c] # Null
        /\ new[u][j][c] \notin Live(new, ForeignKey[<<u, c>>])
    BY <1>2, SchemaAssumption DEF Dangling
  <1>5. new[u][j][c] \in Live(tbl, ForeignKey[<<u, c>>])
    BY <1>3, <1>4 DEF ReferencesIn, Dangling
  <1>6. ForeignKey[<<u, c>>] = t /\ new[u][j][c] = i
    BY <1>1, <1>4, <1>5 DEF Live
  <1>7. c \in Referring(u, t)
    BY <1>4, <1>6 DEF Referring
  <1> QED BY <1>2, <1>6, <1>7 DEF Referenced
=============================================================================
