---------------------------- MODULE StartupProofs ----------------------------
(***************************************************************************)
(* Proofs about Startup, for every schema, number of rows and size of a    *)
(* batch, every generator, and any number of crashes and restarts.         *)
(***************************************************************************)
EXTENDS Startup, StoreProofs, FiniteSetTheorems

(***************************************************************************)
(* Counting                                                                *)
(***************************************************************************)

\* Division with rest has one rest.
LEMMA RestUnique ==
  ASSUME NEW b \in Nat \ {0}, NEW q \in Nat, NEW p \in Nat,
         NEW r \in 0..(b - 1), NEW s \in 0..(b - 1), b * q + r = b * p + s
  PROVE  r = s
  <1>1. ASSUME NEW k \in Nat \ {0} PROVE b * k >= b
    OBVIOUS
  <1>2. ASSUME NEW x \in Nat, NEW y \in Nat, x < y PROVE b * x + b <= b * y
    <2>1. y = x + (y - x) /\ y - x \in Nat \ {0}
      BY <1>2
    <2>2. b * y = b * x + b * (y - x)
      BY <2>1
    <2> QED BY <1>1, <2>1, <2>2
  <1>3. ~(q < p)
    <2> SUFFICES ASSUME q < p PROVE FALSE
      OBVIOUS
    <2>1. b * q + b <= b * p
      BY <1>2
    <2> QED BY <2>1
  <1>4. ~(p < q)
    <2> SUFFICES ASSUME p < q PROVE FALSE
      OBVIOUS
    <2>1. b * p + b <= b * q
      BY <1>2
    <2> QED BY <2>1
  <1> QED BY <1>3, <1>4

\* Counting one row more fills a batch or adds one to what is over.
LEMMA NextRest ==
  ASSUME NEW n \in Nat, NEW b \in Nat \ {0}
  PROVE  (n + 1) % b = IF n % b = b - 1 THEN 0 ELSE (n % b) + 1
  <1> DEFINE q == n \div b
             r == n % b
             p == (n + 1) \div b
             s == (n + 1) % b
  <1>1. q \in Nat /\ r \in 0..(b - 1) /\ n = b * q + r
    OBVIOUS
  <1>2. p \in Nat /\ s \in 0..(b - 1) /\ n + 1 = b * p + s
    OBVIOUS
  <1> HIDE DEF p, s, q, r
  <1>3. CASE r = b - 1
    <2>1. n + 1 = b * (q + 1) + 0
      BY <1>1, <1>3
    <2>2. 0 = s
       BY <1>1, <1>2, <2>1, RestUnique
    <2> QED BY <1>3, <2>2 DEF r, s
  <1>4. CASE r # b - 1
    <2>1. b * q + (r + 1) = b * p + s /\ r + 1 \in 0..(b - 1)
      BY <1>1, <1>2, <1>4
    <2>2. r + 1 = s
      BY <1>1, <1>2, <2>1, RestUnique
    <2> QED BY <1>4, <2>2 DEF r, s
  <1> QED BY <1>3, <1>4

\* Sets of ids are finite.
LEMMA IdsCount ==
  ASSUME NEW S \in SUBSET Ids
  PROVE  IsFiniteSet(S) /\ Cardinality(S) \in Nat
  <1>1. IsFiniteSet(Ids)
    BY FS_Interval, ValueAssumption DEF Ids
  <1>2. IsFiniteSet(S)
    BY <1>1, FS_Subset
  <1> QED BY <1>2, FS_CardinalityType

(***************************************************************************)
(* The inductive invariant                                                 *)
(***************************************************************************)

Seeding == pc \in {"begin", "insert", "batch"}

\* A database whose constraints hold, and whose ids have all been given out.
Sound(state) ==
  /\ ReferencesIn(state.rows) /\ UniqueIn(state.rows)
  /\ \A t \in Tables : Live(state.rows, t) \subseteq 1..state.seq[t]

\* No foreign key column of a row is empty.
AllRefer(state) ==
  \A p \in DOMAIN ForeignKey : \A i \in Live(state.rows, p[1]) : state.rows[p[1]][i][p[2]] # Null

\* The open transaction only adds rows to what is committed, under new ids.
Extends ==
  \A t \in Tables :
    /\ db.seq[t] <= tx.seq[t]
    /\ \A i \in 1..db.seq[t] : tx.rows[t][i] = db.rows[t][i]

\* The open transaction keeps the constraints, too, and holds what this run has
\* inserted and nothing else.
TxSound ==
  tx # NoTx =>
    /\ Sound(tx) /\ AllRefer(tx) /\ Extends
    /\ \A t \in Tables : Live(tx.rows, t) = given[t]

\* The tables still to be seeded come after those they refer to, which are
\* seeded in full. None of them has rows but the one at hand.
OrderSound ==
  /\ IsInjective(order)
  /\ tx # NoTx => order # <<>>
  /\ pc \in {"down", "check"} => given = NoneGiven
  /\ Seeding =>
       /\ rowPerTable > 0
       /\ \A k \in DOMAIN order : \A j \in k..Len(order) : order[j] \notin Parents(ForeignKey, order[k])
       /\ \A k \in DOMAIN order : k > 1 \/ pc = "begin" => given[order[k]] = {}
       /\ \A t \in Tables \ Range(order) : Cardinality(given[t]) = rowPerTable

\* The table at hand has no more rows than were asked for, and the transaction
\* as many of them as came after the last full batch.
BatchSound ==
  tx # NoTx =>
    LET t == Head(order)
        n == Cardinality(given[t])
    IN /\ n <= rowPerTable
       /\ pc = "batch" => n % BatchSize = 0
       /\ Cardinality(given[t] \ Live(db.rows, t)) = IF pc = "batch" THEN BatchSize ELSE n % BatchSize

IInv ==
  /\ TypeOK
  /\ Sound(db) /\ (Seeding => AllRefer(db))
  /\ TxSound
  /\ OrderSound
  /\ OnlyEmptyIsSeeded
  /\ BatchSound

-----------------------------------------------------------------------------
(* Databases *)

LEMMA BlankSound ==
  /\ Blank \in States /\ Sound(Blank)
  /\ \A t \in Tables : Live(Blank.rows, t) = {}
  <1>1. \A t \in Tables : Live(Blank.rows, t) = {}
    BY DEF Blank, Live
  <1>2. Blank.rows \in Contents
    BY DEF Blank, Contents, AnyRow
  <1>3. Blank.seq \in [Tables -> 0..MaxId]
    BY ValueAssumption DEF Blank
  <1>4. Blank = [rows |-> Blank.rows, seq |-> Blank.seq]
    BY DEF Blank
  <1>5. Blank \in States
    BY <1>2, <1>3, <1>4 DEF States
  <1> QED BY <1>1, <1>5 DEF Sound, ReferencesIn, UniqueIn

\* One INSERT that breaks no constraint.
Added(s, t, row) ==
  [rows |-> Written(s.rows, t, NextId(s, t), row), seq |-> [s.seq EXCEPT ![t] = NextId(s, t)]]

\* What it leaves alone, and what it adds.
AddedTo(s, new, t, i, row) ==
  /\ \A u \in Tables : \A j \in Ids :
       new.rows[u][j] = IF u = t /\ j = i THEN row ELSE s.rows[u][j]
  /\ new.seq \in [Tables -> 0..MaxId]
  /\ \A u \in Tables : s.seq[u] <= new.seq[u]
  /\ \A u \in Tables : Live(new.rows, u) = Live(s.rows, u) \cup IF u = t THEN {i} ELSE {}

LEMMA AddedSound ==
  ASSUME NEW s \in States, Sound(s), NEW t \in Tables, NEW row \in Row(t),
         NextId(s, t) <= MaxId,
         WriteBreaks("on", s.rows, t, NextId(s, t), row, Columns[t]) = "nothing"
  PROVE  /\ Added(s, t, row) \in States /\ Sound(Added(s, t, row))
         /\ NextId(s, t) \in Ids /\ NextId(s, t) \notin Live(s.rows, t)
         /\ AddedTo(s, Added(s, t, row), t, NextId(s, t), row)
  <1> DEFINE i == NextId(s, t)
             new == Added(s, t, row)
  <1>1. /\ s.rows \in Contents /\ s.seq \in [Tables -> 0..MaxId] /\ MaxId \in Nat
        /\ i = s.seq[t] + 1
    BY ValueAssumption DEF States, NextId
  <1>2. i \in Ids /\ i \notin Live(s.rows, t)
    BY <1>1 DEF Ids, Sound
  <1>3. new.rows = Written(s.rows, t, i, row) /\ new.seq = [s.seq EXCEPT ![t] = i]
    BY DEF Added
  <1>4. new.rows \in Contents
    BY <1>1, <1>2, <1>3, WrittenType
  <1>5. new.seq \in [Tables -> 0..MaxId] /\ \A u \in Tables : s.seq[u] <= new.seq[u]
    BY <1>1, <1>2, <1>3 DEF Ids
  <1>6. new \in States
    BY <1>4, <1>5 DEF States, Added
  <1>7. \A u \in Tables : \A j \in Ids :
          new.rows[u][j] = IF u = t /\ j = i THEN row ELSE s.rows[u][j]
    BY <1>1, <1>2, <1>3, WrittenValue
  <1>8. row # NoRow
    BY ValueAssumption DEF Row
  <1>9. \A u \in Tables : Live(new.rows, u) = Live(s.rows, u) \cup IF u = t THEN {i} ELSE {}
    BY <1>2, <1>7, <1>8 DEF Live
  <1>10. /\ ~UniqueBroken(s.rows, t, i, row, Columns[t])
         /\ ~ReferenceBroken(Written(s.rows, t, i, row), t, row, Columns[t])
    BY DEF WriteBreaks
  <1>11. UniqueIn(new.rows)
    BY <1>1, <1>2, <1>3, <1>10, WriteKeepsUnique DEF Sound
  <1>12. ReferencesIn(new.rows)
    BY <1>1, <1>2, <1>3, <1>10, WriteKeepsReferences DEF Sound
  <1>13. \A u \in Tables : Live(new.rows, u) \subseteq 1..new.seq[u]
    <2> TAKE u \in Tables
    <2>1. Live(s.rows, u) \subseteq 1..s.seq[u] /\ s.seq[u] \in Nat /\ new.seq[u] \in Nat
      BY <1>1, <1>5 DEF Sound
    <2>2. u = t => i \in 1..new.seq[u]
      BY <1>1, <1>2, <1>3 DEF Ids
    <2> QED BY <1>5, <1>9, <2>1, <2>2
  <1> QED BY <1>2, <1>5, <1>6, <1>7, <1>9, <1>11, <1>12, <1>13 DEF Sound, AddedTo

\* One DELETE that breaks no constraint.
Removed(s, t, i) == [s EXCEPT !.rows = Written(s.rows, t, i, NoRow)]

LEMMA RemovedSound ==
  ASSUME NEW s \in States, Sound(s), NEW t \in Tables, NEW i \in Live(s.rows, t),
         DeleteBreaks("on", s.rows, t, i) = "nothing"
  PROVE  /\ Removed(s, t, i) \in States /\ Sound(Removed(s, t, i))
         /\ \A u \in Tables : \A j \in Ids :
              Removed(s, t, i).rows[u][j] = IF u = t /\ j = i THEN NoRow ELSE s.rows[u][j]
  <1> DEFINE new == Removed(s, t, i)
  <1>1. s.rows \in Contents /\ s.seq \in [Tables -> 0..MaxId] /\ s = [rows |-> s.rows, seq |-> s.seq]
    BY DEF States
  <1>2. new.rows = Written(s.rows, t, i, NoRow) /\ new.seq = s.seq
    BY <1>1 DEF Removed
  <1>3. i \in Ids
    BY DEF Live
  <1>4. new.rows \in Contents
    BY <1>1, <1>2, <1>3, WrittenType
  <1>5. new \in States
    BY <1>1, <1>4 DEF States, Removed
  <1>6. ~Referenced(Written(s.rows, t, i, NoRow), t, i)
    BY DEF DeleteBreaks
  <1>7. UniqueIn(new.rows) /\ ReferencesIn(new.rows)
    BY <1>1, <1>2, <1>3, <1>6, DeleteKeepsUnique, DeleteKeepsReferences DEF Sound
  <1>8. \A u \in Tables : \A j \in Ids :
          new.rows[u][j] = IF u = t /\ j = i THEN NoRow ELSE s.rows[u][j]
    BY <1>1, <1>2, <1>3, WrittenValue
  <1>9. \A u \in Tables : Live(new.rows, u) \subseteq Live(s.rows, u)
    BY <1>8 DEF Live
  <1>10. \A u \in Tables : Live(new.rows, u) \subseteq 1..new.seq[u]
    BY <1>2, <1>9 DEF Sound
  <1> QED BY <1>5, <1>7, <1>8, <1>10 DEF Sound

-----------------------------------------------------------------------------
(* Steps outside a transaction *)

LEMMA NoAttemptsType == NoAttempts \in [Unique -> 0..MaxAttempts]
  BY StartupAssumption DEF NoAttempts

LEMMA InitIInv == Init => IInv
  <1> SUFFICES ASSUME Init PROVE IInv
    OBVIOUS
  <1>1. TypeOK
    BY BlankSound, NoAttemptsType, StartupAssumption DEF Init, TypeOK, NoneGiven
  <1>2. Sound(db)
    BY BlankSound DEF Init
  <1>3. OrderSound
    BY DEF Init, OrderSound, Seeding, IsInjective
  <1> QED BY <1>1, <1>2, <1>3
          DEF Init, IInv, Seeding, TxSound, OnlyEmptyIsSeeded, BatchSound

LEMMA NotSeeding ==
  ASSUME TypeOK, Sound(db), tx = NoTx, pc \in {"down", "check", "serve"},
         IsInjective(order), pc \in {"down", "check"} => given = NoneGiven
  PROVE  IInv
  BY DEF IInv, Seeding, TxSound, OrderSound, OnlyEmptyIsSeeded, BatchSound

LEMMA RowCount == ASSUME IInv PROVE rowPerTable \in Int
  BY StartupAssumption DEF IInv, TypeOK

\* The end of the process, which is a step of Check, Fail and Crash.
LEMMA ExitKeeps ==
  ASSUME IInv, Exit
  PROVE  IInv'
  <1>1. db' \in States /\ Sound(db)'
    BY BlankSound DEF IInv, TypeOK, Exit, Sound
  <1>2. TypeOK'
    BY <1>1, NoAttemptsType DEF IInv, TypeOK, Exit, NoneGiven
  <1>3. /\ tx' = NoTx /\ pc' = "down" /\ given' = NoneGiven /\ order' = <<>>
    BY DEF Exit
  <1>4. IsInjective(order')
    BY <1>3 DEF IsInjective
  <1>5. pc' \in {"down", "check", "serve"} /\ (NoneGiven' = NoneGiven)
    BY <1>3 DEF NoneGiven
  <1> QED BY <1>1, <1>2, <1>3, <1>4, <1>5
          DEF IInv, Seeding, TxSound, OrderSound, OnlyEmptyIsSeeded, BatchSound

LEMMA StartKeeps ==
  ASSUME IInv, Start
  PROVE  IInv'
  <1>1. TypeOK'
    BY StartupAssumption DEF IInv, TypeOK, Start
  <1>2. /\ Sound(db)' /\ tx' = NoTx /\ pc' = "check"
        /\ IsInjective(order') /\ given' = NoneGiven
    BY DEF IInv, TypeOK, OrderSound, Start, Sound
  <1> QED BY <1>1, <1>2
          DEF IInv, Seeding, TxSound, OrderSound, OnlyEmptyIsSeeded, BatchSound, NoneGiven

\* A request changes the committed rows when no transaction is open.
LEMMA RequestKeeps ==
  ASSUME IInv, pc = "serve", db' \in States, Sound(db)', UNCHANGED <<tx, pc, order, given, attempts, rowPerTable, starts>>
  PROVE  IInv'
  <1>1. TypeOK'
    BY DEF IInv, TypeOK
  <1>2. tx' = NoTx /\ pc' = "serve" /\ IsInjective(order')
    BY DEF IInv, TypeOK, OrderSound
  <1> QED BY <1>1, <1>2
          DEF IInv, Seeding, TxSound, OrderSound, OnlyEmptyIsSeeded, BatchSound

LEMMA CreateKeeps ==
  ASSUME IInv, Create
  PROVE  IInv'
  <1> PICK t \in Tables : \E row \in Writable[t] :
          /\ pc = "serve" /\ NextId(db, t) <= MaxId
          /\ WriteBreaks("on", db.rows, t, NextId(db, t), row, Columns[t]) = "nothing"
          /\ db' = Added(db, t, row)
          /\ UNCHANGED <<tx, pc, order, given, attempts, rowPerTable, starts>>
    BY DEF Create, Added
  <1>1. PICK row \in Writable[t] :
          /\ pc = "serve" /\ NextId(db, t) <= MaxId
          /\ WriteBreaks("on", db.rows, t, NextId(db, t), row, Columns[t]) = "nothing"
          /\ db' = Added(db, t, row)
          /\ UNCHANGED <<tx, pc, order, given, attempts, rowPerTable, starts>>
    OBVIOUS
  <1>2. row \in Row(t)
    BY StartupAssumption
  <1>3. db \in States /\ Sound(db)
    BY DEF IInv, TypeOK
  <1>4. Added(db, t, row) \in States /\ Sound(Added(db, t, row))
    BY <1>1, <1>2, <1>3, AddedSound
  <1>5. db' \in States /\ Sound(db)'
    BY <1>1, <1>4 DEF Sound
  <1> QED BY <1>1, <1>5, RequestKeeps

LEMMA DeleteKeeps ==
  ASSUME IInv, Delete
  PROVE  IInv'
  <1> PICK t \in Tables : \E i \in Live(db.rows, t) :
          /\ pc = "serve"
          /\ DeleteBreaks("on", db.rows, t, i) = "nothing"
          /\ db' = Removed(db, t, i)
          /\ UNCHANGED <<tx, pc, order, given, attempts, rowPerTable, starts>>
    BY DEF Delete, Removed
  <1>1. PICK i \in Live(db.rows, t) :
          /\ pc = "serve"
          /\ DeleteBreaks("on", db.rows, t, i) = "nothing"
          /\ db' = Removed(db, t, i)
          /\ UNCHANGED <<tx, pc, order, given, attempts, rowPerTable, starts>>
    OBVIOUS
  <1>2. db \in States /\ Sound(db)
    BY DEF IInv, TypeOK
  <1>3. Removed(db, t, i) \in States /\ Sound(Removed(db, t, i))
    BY <1>1, <1>2, RemovedSound
  <1>4. db' \in States /\ Sound(db)'
    BY <1>1, <1>3 DEF Sound
  <1> QED BY <1>1, <1>4, RequestKeeps

-----------------------------------------------------------------------------
(* Steps of Seed *)

\* An order of the dependencies has no table before one that it refers to.
LEMMA CheckKeeps ==
  ASSUME IInv, Check
  PROVE  IInv'
  <1>1. (tx = NoTx /\ tx' = tx) \/ Exit
    BY DEF IInv, TypeOK, Check
  <1>2. CASE Exit
    BY <1>2, ExitKeeps
  <1>3. CASE pc' = "serve" /\ UNCHANGED <<db, tx, order, given, attempts, rowPerTable, starts>>
    <2>1. TypeOK' /\ tx' = NoTx
      BY <1>3 DEF IInv, TypeOK, Check
    <2>2. Sound(db)' /\ IsInjective(order')
      BY <1>3 DEF IInv, Sound, OrderSound
    <2> QED BY <1>3, <2>1, <2>2
            DEF IInv, Seeding, TxSound, OrderSound, OnlyEmptyIsSeeded, BatchSound
  <1>4. CASE /\ rowPerTable > 0 /\ TablesEmpty /\ order' \in Orders
             /\ pc' = "begin" /\ UNCHANGED <<db, tx, given, attempts, rowPerTable, starts>>
    <2>1. DependencyOrder(Tables, ForeignKey, order')
      BY <1>4 DEF Orders
    <2>2. TypeOK' /\ tx' = NoTx
      BY <1>4, <2>1 DEF IInv, TypeOK, Check, DependencyOrder
    <2>3. Sound(db)' /\ given' = NoneGiven
      BY <1>4 DEF IInv, Sound, OrderSound, Check
    <2>4. \A t \in Tables : Live(db'.rows, t) = {} /\ given'[t] = {}
      BY <1>4, <2>3 DEF TablesEmpty, NoneGiven
    <2>5. AllRefer(db)'
      <3>1. \A p \in DOMAIN ForeignKey : p[1] \in Tables
        BY SchemaAssumption DEF Cells
      <3> QED BY <2>4, <3>1 DEF AllRefer
    <2>6. OrderSound'
      <3>1. IsInjective(order') /\ Range(order') = Tables /\ order' \in Seq(Tables)
        BY <2>1 DEF DependencyOrder
      <3>2. ASSUME NEW k \in DOMAIN order', NEW j \in k..Len(order'),
                   order'[j] \in Parents(ForeignKey, order'[k])
            PROVE  FALSE
        <4>1. DOMAIN order' = 1..Len(order') /\ Len(order') \in Nat
          BY <3>1
        <4>2. PICK l \in 1..(k - 1) : order'[j] = order'[l]
          BY <2>1, <3>2 DEF DependencyOrder
        <4>3. l = j
          BY <3>1, <4>1, <4>2 DEF IsInjective
        <4> QED BY <4>1, <4>2, <4>3
      <3>3. \A k \in DOMAIN order' : given'[order'[k]] = {}
        BY <2>4, <3>1
      <3> QED BY <1>4, <2>2, <3>1, <3>2, <3>3 DEF OrderSound
    <2>7. OnlyEmptyIsSeeded'
      BY <2>4 DEF OnlyEmptyIsSeeded
    <2> QED BY <2>2, <2>3, <2>5, <2>6, <2>7 DEF IInv, TxSound, BatchSound
  <1> QED BY <1>2, <1>3, <1>4, RowCount DEF Check

LEMMA BeginKeeps ==
  ASSUME IInv, Begin
  PROVE  IInv'
  <1>1. /\ pc = "begin" /\ tx = NoTx /\ Seeding
        /\ db' = db /\ order' = order /\ given' = given
        /\ attempts' = attempts /\ rowPerTable' = rowPerTable /\ starts' = starts
    BY DEF IInv, TypeOK, Begin, Seeding
  <1>2. Sound(db)' /\ AllRefer(db)'
    BY <1>1 DEF IInv, Sound, AllRefer
  <1>3. CASE order = <<>>
    <2>1. pc' = "serve" /\ tx' = NoTx
      BY <1>1, <1>3 DEF Begin
    <2>2. TypeOK' /\ IsInjective(order')
      BY <1>1, <2>1 DEF IInv, TypeOK, OrderSound
    <2> QED BY <1>2, <2>1, <2>2
            DEF IInv, Seeding, TxSound, OrderSound, OnlyEmptyIsSeeded, BatchSound
  <1>4. CASE order # <<>>
    <2>1. pc' = "insert" /\ tx' = db /\ tx' # NoTx
      BY <1>4, StartupAssumption DEF IInv, TypeOK, Begin
    <2>2. TypeOK'
      BY <1>1, <2>1 DEF IInv, TypeOK
    <2>3. \A t \in Tables : Live(db.rows, t) = given[t]
      BY <1>1 DEF IInv, OnlyEmptyIsSeeded
    <2>4. TxSound'
      <3>1. Sound(tx)' /\ AllRefer(tx)'
        BY <1>1, <2>1 DEF IInv, Sound, AllRefer
      <3>2. Extends'
        BY <1>1, <2>1 DEF IInv, TypeOK, States, Extends
      <3> QED BY <1>1, <2>1, <2>3, <3>1, <3>2 DEF TxSound
    <2>5. OrderSound'
      BY <1>1, <1>4, <2>1 DEF IInv, OrderSound, Seeding
    <2>6. OnlyEmptyIsSeeded'
      BY <1>1, <2>3 DEF OnlyEmptyIsSeeded
    <2>7. BatchSound'
      <3> DEFINE t == Head(order)
      <3>1. t = order[1] /\ 1 \in DOMAIN order /\ t \in Tables
        BY <1>4 DEF IInv, TypeOK
      <3>2. given[t] = {}
        BY <1>1, <3>1 DEF IInv, OrderSound
      <3>3. Cardinality({}) = 0 /\ rowPerTable >= 0 /\ 0 % BatchSize = 0
        BY <1>1, FS_EmptySet, StartupAssumption, RowCount DEF IInv, OrderSound
      <3>4. given[t] \ Live(db.rows, t) = {}
        BY <3>2
      <3> QED BY <1>1, <2>1, <3>2, <3>3, <3>4 DEF BatchSound
    <2> QED BY <1>2, <2>2, <2>4, <2>5, <2>6, <2>7 DEF IInv
  <1> QED BY <1>3, <1>4

\* The table at hand and the columns of the rows it may get: a reference has
\* a value, as the table it names has all its rows.
LEMMA SeedRowType ==
  ASSUME IInv, tx # NoTx, NEW row \in SeedRow(Head(order))
  PROVE  /\ Head(order) \in Tables /\ Head(order) = order[1] /\ 1 \in DOMAIN order
         /\ row \in Row(Head(order))
         /\ \A c \in Columns[Head(order)] : <<Head(order), c>> \in DOMAIN ForeignKey => row[c] # Null
  <1> DEFINE t == Head(order)
  <1>1. Seeding /\ order # <<>> /\ order \in Seq(Tables)
    BY DEF IInv, TypeOK, OrderSound, Seeding
  <1>2. t \in Tables /\ t = order[1] /\ 1 \in DOMAIN order
    BY <1>1
  <1>3. \A c \in Columns[t] : row[c] \in Choices(t, c)
    BY DEF SeedRow
  <1>4. ASSUME NEW c \in Columns[t], <<t, c>> \in DOMAIN ForeignKey
        PROVE  row[c] \in Values
    <2> DEFINE u == ForeignKey[<<t, c>>]
    <2>1. u \in Tables /\ u \in Parents(ForeignKey, t)
      BY <1>4, SchemaAssumption DEF Parents
    <2>2. u \notin Range(order)
      <3>1. \A j \in 1..Len(order) : order[j] # u
        BY <1>1, <1>2, <2>1 DEF IInv, OrderSound
      <3> QED BY <1>1, <3>1 DEF Range
    <2>3. Cardinality(given[u]) = rowPerTable /\ rowPerTable # 0
      BY <1>1, <2>1, <2>2, RowCount DEF IInv, OrderSound
    <2>4. given[u] # {} /\ given[u] \subseteq Ids
      BY <2>1, <2>3, FS_EmptySet DEF IInv, TypeOK
    <2>5. row[c] \in given[u]
      BY <1>3, <1>4, <2>4 DEF Choices
    <2> QED BY <2>4, <2>5, StartupAssumption
  <1>5. \A c \in Columns[t] : row[c] \in Values
    <2> TAKE c \in Columns[t]
    <2>1. CASE <<t, c>> \notin DOMAIN ForeignKey
      BY <1>2, <1>3, <2>1, StartupAssumption DEF Choices
    <2> QED BY <1>4, <2>1
  <1>6. row \in Row(t)
    BY <1>5 DEF SeedRow, Row
  <1> QED BY <1>2, <1>4, <1>6, ValueAssumption

\* Another draw touches neither the rows nor what is left to do.
LEMMA RedrawKeeps ==
  ASSUME IInv, Redraw
  PROVE  IInv'
  <1>1. UNCHANGED <<db, tx, pc, order, given, rowPerTable, starts>>
    BY DEF Redraw
  <1>2. PICK c \in Columns[Head(order)] :
          /\ attempts[<<Head(order), c>>] < MaxAttempts
          /\ attempts' = [attempts EXCEPT ![<<Head(order), c>>] = @ + 1]
    BY DEF Redraw
  <1>3. attempts' \in [Unique -> 0..MaxAttempts]
    <2> DEFINE p == <<Head(order), c>>
    <2>1. attempts \in [Unique -> 0..MaxAttempts] /\ MaxAttempts \in Nat
      BY StartupAssumption DEF IInv, TypeOK
    <2>2. p \in Unique => attempts[p] + 1 \in 0..MaxAttempts
      BY <1>2, <2>1
    <2> QED BY <1>2, <2>1, <2>2
  <1>4. TypeOK'
    BY <1>1, <1>3 DEF IInv, TypeOK
  <1>5. (Sound(db) /\ (Seeding => AllRefer(db)) /\ TxSound)'
    BY <1>1 DEF IInv, Sound, AllRefer, Extends, TxSound, Seeding
  <1>6. (OrderSound /\ OnlyEmptyIsSeeded)'
    BY <1>1 DEF IInv, OrderSound, Seeding, OnlyEmptyIsSeeded
  <1>7. BatchSound'
    BY <1>1 DEF IInv, BatchSound
  <1> QED BY <1>4, <1>5, <1>6, <1>7 DEF IInv

LEMMA InsertKeeps ==
  ASSUME IInv, Insert
  PROVE  IInv'
  <1> DEFINE t == Head(order)
             i == NextId(tx, t)
  <1>1. /\ Unfinished /\ i <= MaxId /\ pc = "insert" /\ tx # NoTx /\ tx \in States
        /\ db' = db /\ order' = order /\ attempts' = NoAttempts /\ rowPerTable' = rowPerTable /\ starts' = starts
        /\ given' = [given EXCEPT ![t] = @ \cup {i}]
        /\ pc' = IF BatchFull(Cardinality(given'[t])) THEN "batch" ELSE "insert"
    BY DEF IInv, TypeOK, Insert, Unfinished
  <1>2. PICK row \in SeedRow(t) :
          /\ WriteBreaks("on", tx.rows, t, i, row, Columns[t]) = "nothing"
          /\ tx' = Added(tx, t, row)
    BY DEF Insert, Added
  <1>3. /\ t \in Tables /\ t = order[1] /\ 1 \in DOMAIN order /\ row \in Row(t)
        /\ \A c \in Columns[t] : <<t, c>> \in DOMAIN ForeignKey => row[c] # Null
    BY <1>1, SeedRowType
  <1>4. Sound(tx) /\ AllRefer(tx) /\ Extends /\ \A u \in Tables : Live(tx.rows, u) = given[u]
    BY <1>1 DEF IInv, TxSound
  <1> DEFINE new == Added(tx, t, row)
  <1>5. /\ new \in States /\ Sound(new) /\ i \in Ids /\ i \notin Live(tx.rows, t)
        /\ AddedTo(tx, new, t, i, row)
    BY <1>1, <1>2, <1>3, <1>4, AddedSound
  <1>6. /\ given \in [Tables -> SUBSET Ids] /\ i \notin given[t]
        /\ given' \in [Tables -> SUBSET Ids]
        /\ \A u \in Tables : given'[u] = given[u] \cup IF u = t THEN {i} ELSE {}
    BY <1>1, <1>3, <1>4, <1>5 DEF IInv, TypeOK
  <1>7. tx' # NoTx /\ pc' \in {"insert", "batch"}
    BY <1>1, <1>2, <1>5, StartupAssumption
  <1>8. TypeOK'
    BY <1>1, <1>2, <1>5, <1>6, <1>7, NoAttemptsType DEF IInv, TypeOK
  <1>9. Sound(db)' /\ AllRefer(db)'
    BY <1>1 DEF IInv, Sound, AllRefer, Seeding
  <1>10. TxSound'
    <2>1. Sound(tx)'
      BY <1>2, <1>5 DEF Sound
    <2>2. AllRefer(tx)'
      <3> SUFFICES ASSUME NEW p \in DOMAIN ForeignKey, NEW j \in Live(new.rows, p[1])
                   PROVE  new.rows[p[1]][j][p[2]] # Null
        BY <1>2 DEF AllRefer
      <3>1. p[1] \in Tables /\ p[2] \in Columns[p[1]] /\ p = <<p[1], p[2]>>
        BY SchemaAssumption DEF Cells
      <3>2. CASE p[1] = t /\ j = i
        BY <1>3, <1>5, <3>1, <3>2 DEF AddedTo
      <3>3. CASE ~(p[1] = t /\ j = i)
        <4>1. j \in Live(tx.rows, p[1]) /\ j \in Ids
          BY <1>5, <3>1, <3>3 DEF Live, AddedTo
        <4> QED BY <1>4, <1>5, <3>1, <3>3, <4>1 DEF AllRefer, AddedTo
      <3> QED BY <3>2, <3>3
    <2>3. Extends'
      <3>1. \A u \in Tables : db.seq[u] \in 0..MaxId /\ tx.seq[u] \in 0..MaxId /\ new.seq[u] \in 0..MaxId
        BY <1>1, <1>5 DEF IInv, TypeOK, States, AddedTo
      <3>2. \A u \in Tables : db.seq[u] <= new.seq[u]
        BY <1>4, <1>5, <3>1, ValueAssumption DEF Extends, AddedTo
      <3>3. \A u \in Tables : \A j \in 1..db.seq[u] : j \in Ids /\ ~(u = t /\ j = i)
        BY <1>4, <3>1, ValueAssumption DEF Extends, NextId, Ids
      <3>4. \A u \in Tables : \A j \in 1..db.seq[u] : new.rows[u][j] = db.rows[u][j]
        BY <1>4, <1>5, <3>3 DEF Extends, AddedTo
      <3> QED BY <1>1, <1>2, <3>2, <3>4 DEF Extends
    <2>4. \A u \in Tables : Live(tx'.rows, u) = given'[u]
      BY <1>2, <1>4, <1>5, <1>6 DEF AddedTo
    <2> QED BY <2>1, <2>2, <2>3, <2>4 DEF TxSound
  <1>11. OrderSound'
    <2>1. Seeding /\ order # <<>> /\ order \in Seq(Tables) /\ IsInjective(order)
      BY <1>1 DEF IInv, TypeOK, OrderSound, Seeding
    <2>2. \A k \in DOMAIN order : k > 1 => order[k] \in Tables /\ order[k] # t
      BY <1>3, <2>1 DEF IsInjective
    <2>3. \A k \in DOMAIN order : k > 1 => given'[order[k]] = {}
      BY <1>1, <1>6, <2>1, <2>2 DEF IInv, OrderSound
    <2>4. t \in Range(order)
      BY <1>3 DEF Range
    <2>5. \A u \in Tables \ Range(order) : Cardinality(given'[u]) = rowPerTable
      BY <1>6, <2>1, <2>4 DEF IInv, OrderSound
    <2> QED BY <1>1, <1>7, <2>1, <2>3, <2>5 DEF IInv, OrderSound, Seeding
  <1>12. OnlyEmptyIsSeeded'
    <2>1. \A u \in Tables : Live(db.rows, u) \subseteq given[u] /\ (u # t => Live(db.rows, u) = given[u])
      BY <1>1 DEF IInv, OnlyEmptyIsSeeded
    <2>2. ASSUME NEW u \in Tables
          PROVE  /\ Live(db'.rows, u) \subseteq given'[u]
                 /\ u # Head(order') => Live(db'.rows, u) = given'[u]
      BY <1>1, <1>6, <2>1
    <2> QED BY <1>1, <1>7, <2>2 DEF OnlyEmptyIsSeeded
  <1>13. BatchSound'
    <2> DEFINE n == Cardinality(given[t])
               fresh == given[t] \ Live(db.rows, t)
    <2>1. /\ IsFiniteSet(given[t]) /\ n \in Nat /\ IsFiniteSet(fresh) /\ Cardinality(fresh) \in Nat
      BY <1>3, <1>6, IdsCount
    <2>2. n < rowPerTable /\ Cardinality(fresh) = n % BatchSize
      BY <1>1, <2>1, StartupAssumption DEF IInv, BatchSound, Unfinished
    <2>3. Cardinality(given'[t]) = n + 1
      BY <1>3, <1>6, <2>1, FS_AddElement
    <2>4. i \notin Live(db.rows, t) /\ i \notin fresh
      BY <1>1, <1>3, <1>6 DEF IInv, OnlyEmptyIsSeeded
    <2>5. given'[t] \ Live(db.rows, t) = fresh \cup {i}
      BY <1>3, <1>6, <2>4
    <2>6. Cardinality(given'[t] \ Live(db.rows, t)) = (n % BatchSize) + 1
      BY <2>1, <2>2, <2>4, <2>5, FS_AddElement
    <2>7. (n + 1) % BatchSize = IF n % BatchSize = BatchSize - 1 THEN 0 ELSE (n % BatchSize) + 1
      BY <2>1, NextRest, StartupAssumption
    <2>8. pc' = IF (n + 1) % BatchSize = 0 THEN "batch" ELSE "insert"
      BY <1>1, <2>3 DEF BatchFull
    <2>9. n % BatchSize \in 0..(BatchSize - 1)
      BY <2>1, StartupAssumption
    <2>10. n + 1 <= rowPerTable
      BY <2>1, <2>2, RowCount
    <2>11. pc' = "batch" => (n % BatchSize) + 1 = BatchSize
      BY <2>7, <2>8, <2>9, StartupAssumption
    <2>12. pc' # "batch" => (n + 1) % BatchSize = (n % BatchSize) + 1
      BY <2>7, <2>8, <2>9
    <2> QED BY <1>1, <2>3, <2>6, <2>8, <2>10, <2>11, <2>12 DEF BatchSound
  <1> QED BY <1>8, <1>9, <1>10, <1>11, <1>12, <1>13 DEF IInv

\* A commit in the middle of a table makes the rows of the batch durable.
LEMMA CommitBatchKeeps ==
  ASSUME IInv, CommitBatch
  PROVE  IInv'
  <1>1. /\ pc = "batch" /\ tx # NoTx /\ tx \in States /\ db' = tx /\ pc' = "insert"
        /\ tx' = tx /\ order' = order /\ given' = given
        /\ attempts' = attempts /\ rowPerTable' = rowPerTable /\ starts' = starts
    BY DEF IInv, TypeOK, CommitBatch
  <1>2. TypeOK'
    BY <1>1 DEF IInv, TypeOK
  <1>3. Sound(tx) /\ AllRefer(tx) /\ \A u \in Tables : Live(tx.rows, u) = given[u]
    BY <1>1 DEF IInv, TxSound
  <1>4. Sound(db)' /\ AllRefer(db)' /\ Sound(tx)' /\ AllRefer(tx)'
    BY <1>1, <1>3 DEF Sound, AllRefer
  <1>5. Extends'
    BY <1>1 DEF Extends, States
  <1>6. TxSound'
    BY <1>1, <1>3, <1>4, <1>5 DEF TxSound
  <1>7. OrderSound'
    BY <1>1 DEF IInv, OrderSound, Seeding
  <1>8. OnlyEmptyIsSeeded'
    BY <1>1, <1>3 DEF OnlyEmptyIsSeeded
  <1>9. BatchSound'
    <2> DEFINE t == Head(order)
    <2>1. t \in Tables
      BY <1>1 DEF IInv, TypeOK, OrderSound
    <2>2. given[t] \ Live(tx.rows, t) = {} /\ Cardinality({}) = 0
      BY <1>3, <2>1, FS_EmptySet
    <2>3. Cardinality(given[t]) <= rowPerTable /\ Cardinality(given[t]) % BatchSize = 0
      BY <1>1 DEF IInv, BatchSound
    <2> QED BY <1>1, <2>2, <2>3 DEF BatchSound
  <1> QED BY <1>2, <1>4, <1>6, <1>7, <1>8, <1>9 DEF IInv

\* The last commit of a table, which has all its rows then.
LEMMA CommitTableKeeps ==
  ASSUME IInv, CommitTable
  PROVE  IInv'
  <1> DEFINE t == Head(order)
  <1>1. /\ pc = "insert" /\ ~Unfinished /\ tx # NoTx /\ tx \in States /\ db' = tx /\ pc' = "begin"
        /\ tx' = NoTx /\ order' = Tail(order) /\ given' = given
        /\ attempts' = attempts /\ rowPerTable' = rowPerTable /\ starts' = starts
    BY DEF IInv, TypeOK, CommitTable
  <1>2. Seeding /\ order # <<>> /\ order \in Seq(Tables) /\ IsInjective(order)
    BY <1>1 DEF IInv, TypeOK, OrderSound, Seeding
  <1>3. /\ Len(order) \in Nat \ {0} /\ DOMAIN order = 1..Len(order)
        /\ order' \in Seq(Tables) /\ Len(order') = Len(order) - 1
        /\ DOMAIN order' = 1..(Len(order) - 1)
        /\ \A k \in DOMAIN order' : order'[k] = order[k + 1]
        /\ t = order[1] /\ t \in Tables
    BY <1>1, <1>2
  <1>4. TypeOK'
    BY <1>1, <1>3 DEF IInv, TypeOK
  <1>5. Sound(tx) /\ AllRefer(tx) /\ \A u \in Tables : Live(tx.rows, u) = given[u]
    BY <1>1 DEF IInv, TxSound
  <1>6. Sound(db)' /\ AllRefer(db)'
    BY <1>1, <1>5 DEF Sound, AllRefer
  <1>7. Cardinality(given[t]) = rowPerTable
    <2>1. Cardinality(given[t]) \in Nat
      BY <1>3, IdsCount DEF IInv, TypeOK
    <2>2. Cardinality(given[t]) <= rowPerTable
      BY <1>1 DEF IInv, BatchSound
    <2> QED BY <1>1, <2>1, <2>2, RowCount DEF Unfinished
  <1>8. Range(order') \cup {t} = Range(order)
    <2>1. Range(order') \subseteq Range(order)
      BY <1>3 DEF Range
    <2>2. ASSUME NEW k \in DOMAIN order, k # 1
          PROVE  order[k] \in Range(order')
      <3>1. k - 1 \in DOMAIN order' /\ order'[k - 1] = order[k]
        BY <1>3, <2>2
      <3> QED BY <3>1 DEF Range
    <2> QED BY <1>3, <2>1, <2>2 DEF Range
  <1>9. OrderSound'
    <2>1. IsInjective(order')
      <3> SUFFICES ASSUME NEW k \in DOMAIN order', NEW j \in DOMAIN order', order'[k] = order'[j]
                   PROVE  k = j
        BY DEF IsInjective
      <3>1. k + 1 \in DOMAIN order /\ j + 1 \in DOMAIN order /\ order[k + 1] = order[j + 1]
        BY <1>3
      <3>2. k + 1 = j + 1
        BY <1>2, <3>1 DEF IsInjective
      <3> QED BY <1>3, <3>2
    <2>2. ASSUME NEW k \in DOMAIN order', NEW j \in k..Len(order')
          PROVE  order'[j] \notin Parents(ForeignKey, order'[k])
      <3>1. /\ k + 1 \in DOMAIN order /\ j + 1 \in (k + 1)..Len(order) /\ j \in DOMAIN order'
        BY <1>3
      <3>2. order[j + 1] \notin Parents(ForeignKey, order[k + 1])
        BY <1>2, <3>1 DEF IInv, OrderSound
      <3> QED BY <1>3, <3>1, <3>2
    <2>3. ASSUME NEW k \in DOMAIN order'
          PROVE  given'[order'[k]] = {}
      <3>1. k + 1 \in DOMAIN order /\ k + 1 > 1
        BY <1>3
      <3>2. given[order[k + 1]] = {}
        BY <1>2, <3>1 DEF IInv, OrderSound
      <3> QED BY <1>1, <1>3, <3>2
    <2>4. \A u \in Tables \ Range(order') : Cardinality(given'[u]) = rowPerTable
      <3>1. \A u \in Tables \ Range(order) : Cardinality(given[u]) = rowPerTable
        BY <1>2 DEF IInv, OrderSound
      <3> QED BY <1>1, <1>7, <1>8, <3>1
    <2>5. rowPerTable > 0
      BY <1>2 DEF IInv, OrderSound
    <2> QED BY <1>1, <2>1, <2>2, <2>3, <2>4, <2>5 DEF OrderSound
  <1>10. OnlyEmptyIsSeeded'
    BY <1>1, <1>5 DEF OnlyEmptyIsSeeded
  <1> QED BY <1>1, <1>4, <1>6, <1>9, <1>10 DEF IInv, TxSound, BatchSound

\* In every state, crashes and restarts included, the committed database is
\* sound and so is what Seed has added to it.
THEOREM Invariance == Spec => []IInv
  <1>1. IInv /\ [Next]_vars => IInv'
    <2> SUFFICES ASSUME IInv, [Next]_vars PROVE IInv'
      OBVIOUS
    <2>1. CASE UNCHANGED vars
      <3>1. TypeOK' /\ Sound(db)' /\ (Seeding => AllRefer(db))' /\ TxSound'
        BY <2>1 DEF vars, IInv, TypeOK, Sound, AllRefer, Extends, TxSound, Seeding
      <3>2. OrderSound' /\ OnlyEmptyIsSeeded'
        BY <2>1 DEF vars, IInv, OrderSound, Seeding, OnlyEmptyIsSeeded
      <3>3. BatchSound'
        BY <2>1 DEF vars, IInv, BatchSound
      <3> QED BY <3>1, <3>2, <3>3 DEF IInv
    <2>2. CASE Fail
      BY <2>2, ExitKeeps DEF Fail
    <2>3. CASE Crash
      BY <2>3, ExitKeeps DEF Crash
    <2> QED BY <2>1, <2>2, <2>3, StartKeeps, CheckKeeps, BeginKeeps, RedrawKeeps, InsertKeeps, CommitBatchKeeps,
               CommitTableKeeps, CreateKeeps, DeleteKeeps DEF Next, Work
  <1> QED BY <1>1, InitIInv, PTL DEF Spec

-----------------------------------------------------------------------------
(* What follows *)

\* An open transaction is one of Seed, and the ids are those of the tables.
THEOREM TypeCorrect == Spec => []TypeOK
  <1>1. IInv => TypeOK
    BY DEF IInv
  <1> QED BY <1>1, Invariance, PTL

\* Whatever the moment of a crash, what is committed keeps the constraints
\* (seed.go:31, 86-100).
THEOREM DurableAlways == Spec => []DurableContentsSound
  <1>1. IInv => DurableContentsSound
    BY DEF IInv, Sound, DurableContentsSound
  <1> QED BY <1>1, Invariance, PTL

\* No transaction of Seed has more than batchSize inserts (seed.go:15-16).
THEOREM BatchesAlways == Spec => []BatchesBounded
  <1>1. IInv => BatchesBounded
    <2> SUFFICES ASSUME IInv, tx # NoTx
                 PROVE  Cardinality(UNION {{<<u, i>> : i \in Live(tx.rows, u) \ Live(db.rows, u)} : u \in Tables})
                          <= BatchSize
      BY DEF BatchesBounded
    <2> DEFINE t == Head(order)
               fresh == given[t] \ Live(db.rows, t)
               pairs == UNION {{<<u, i>> : i \in Live(tx.rows, u) \ Live(db.rows, u)} : u \in Tables}
    <2>1. t \in Tables
      BY DEF IInv, TypeOK, OrderSound
    <2>2. \A u \in Tables : Live(tx.rows, u) = given[u] /\ (u # t => Live(db.rows, u) = given[u])
      BY DEF IInv, TypeOK, TxSound, OnlyEmptyIsSeeded
    <2>3. pairs = {<<t, i>> : i \in fresh}
      BY <2>1, <2>2
    <2>4. IsFiniteSet(fresh) /\ Cardinality(fresh) \in Nat
      BY <2>1, IdsCount DEF IInv, TypeOK
    <2> DEFINE f == [i \in fresh |-> <<t, i>>]
    <2>5. f \in Surjection(fresh, pairs)
      BY <2>3 DEF Surjection
    <2>6. IsFiniteSet(pairs) /\ Cardinality(pairs) <= Cardinality(fresh)
      BY <2>4, <2>5, FS_Surjection
    <2>7. Cardinality(pairs) \in Nat
      BY <2>6, FS_CardinalityType
    <2>8. Cardinality(given[t]) \in Nat
      BY <2>1, IdsCount DEF IInv, TypeOK
    <2>9. Cardinality(fresh) <= BatchSize
      <3>1. Cardinality(given[t]) % BatchSize \in 0..(BatchSize - 1)
        BY <2>8, StartupAssumption
      <3>2. Cardinality(fresh) = IF pc = "batch" THEN BatchSize ELSE Cardinality(given[t]) % BatchSize
        BY DEF IInv, BatchSound
      <3> QED BY <3>1, <3>2, StartupAssumption
    <2> QED BY <2>4, <2>6, <2>7, <2>9, StartupAssumption
  <1> QED BY <1>1, Invariance, PTL

\* Seeding does not mix with earlier rows, and a table that is done has been
\* committed with all the rows that the run has given ids to.
THEOREM OnlyEmptyAlways == Spec => []OnlyEmptyIsSeeded
  <1>1. IInv => OnlyEmptyIsSeeded
    BY DEF IInv
  <1> QED BY <1>1, Invariance, PTL

\* What a step can do to the committed database: nothing, lose it with the
\* process, take over the transaction of Seed, or one request.
LEMMA CommittedSteps ==
  ASSUME IInv, [Next]_vars
  PROVE  \/ db' = db
         \/ ~Persistent
         \/ pc \in {"insert", "batch"} /\ tx # NoTx /\ db' = tx
         \/ pc = "serve" /\ \E t \in Tables : \E row \in Row(t) :
              /\ NextId(db, t) <= MaxId
              /\ db'.rows = Written(db.rows, t, NextId(db, t), row)
         \/ pc = "serve" /\ \E t \in Tables : \E i \in Live(db.rows, t) :
              db'.rows = Written(db.rows, t, i, NoRow)
  <1>1. CASE Exit
    BY <1>1 DEF Exit
  <1>2. CASE CommitBatch \/ CommitTable
    BY <1>2 DEF IInv, TypeOK, CommitBatch, CommitTable
  <1>3. CASE Create
    BY <1>3, StartupAssumption DEF Create
  <1>4. CASE Delete
    <2>1. db = [rows |-> db.rows, seq |-> db.seq]
      BY DEF IInv, TypeOK, States
    <2> QED BY <1>4, <2>1 DEF Delete
  <1>5. CASE Start \/ Begin \/ Redraw \/ Insert \/ UNCHANGED vars
    BY <1>5 DEF Start, Begin, Redraw, Insert, vars
  <1>6. CASE Check
    BY <1>1, <1>6 DEF Check
  <1>7. CASE Fail \/ Crash
    BY <1>1, <1>7 DEF Fail, Crash
  <1> QED BY <1>2, <1>3, <1>4, <1>5, <1>6, <1>7 DEF Next, Work

\* A committed row is changed by requests only; crashes, restarts and later
\* runs of Seed keep it (main.go:62-75).
THEOREM KeptAlways == Spec => RowsKept
  <1>1. IInv /\ [Next]_vars =>
          [\A t \in Tables : \A i \in Live(db.rows, t) :
             db'.rows[t][i] # db.rows[t][i] => pc = "serve" \/ ~Persistent]_vars
    <2> SUFFICES ASSUME IInv, [Next]_vars, pc # "serve", Persistent,
                        NEW t \in Tables, NEW i \in Live(db.rows, t)
                 PROVE  db'.rows[t][i] = db.rows[t][i]
      OBVIOUS
    <2>1. CASE db' = db
      BY <2>1
    <2>2. CASE tx # NoTx /\ db' = tx
      <3>1. Extends /\ i \in 1..db.seq[t]
        BY <2>2 DEF IInv, TxSound, Sound
      <3> QED BY <2>2, <3>1 DEF Extends
    <2> QED BY <2>1, <2>2, CommittedSteps
  <1> QED BY <1>1, Invariance, PTL DEF Spec, RowsKept

\* AUTOINCREMENT over the whole life of a file (db.go:51): an id whose row is
\* gone stays without a row, whoever inserts.
THEOREM NeverReused == Spec => IdsNeverReused
  <1>1. IInv /\ [Next]_vars =>
          [Persistent => \A t \in Tables : \A i \in 1..db.seq[t] :
             db.rows[t][i] = NoRow => db'.rows[t][i] = NoRow]_vars
    <2> SUFFICES ASSUME IInv, [Next]_vars, Persistent,
                        NEW t \in Tables, NEW i \in 1..db.seq[t], db.rows[t][i] = NoRow
                 PROVE  db'.rows[t][i] = NoRow
      OBVIOUS
    <2>1. /\ db.rows \in Contents /\ db.seq \in [Tables -> 0..MaxId]
      BY DEF IInv, TypeOK, States
    <2>2. i \in Ids
      BY <2>1, ValueAssumption DEF Ids
    <2>3. CASE db' = db
      BY <2>3
    <2>4. CASE tx # NoTx /\ db' = tx
      <3>1. Extends
        BY <2>4 DEF IInv, TxSound
      <3> QED BY <2>4, <3>1 DEF Extends
    <2>5. ASSUME NEW u \in Tables, NEW row \in Row(u), NextId(db, u) <= MaxId,
                 db'.rows = Written(db.rows, u, NextId(db, u), row)
          PROVE  db'.rows[t][i] = NoRow
      <3> DEFINE new == NextId(db, u)
                 before == db.rows
      <3>1. new \in Ids /\ ~(t = u /\ i = new)
        BY <2>1, <2>5, ValueAssumption DEF NextId, Ids
      <3>2. before \in Contents /\ db'.rows = Written(before, u, new, row) /\ before[t][i] = NoRow
        BY <2>1, <2>5
      <3> HIDE DEF new, before
      <3>3. Written(before, u, new, row)[t][i] = before[t][i]
        BY <2>2, <3>1, <3>2, WrittenValue
      <3> QED BY <3>2, <3>3
    <2>6. ASSUME NEW u \in Tables, NEW j \in Live(db.rows, u),
                 db'.rows = Written(db.rows, u, j, NoRow)
          PROVE  db'.rows[t][i] = NoRow
      <3>1. j \in Ids
        BY DEF Live
      <3> QED BY <2>1, <2>2, <2>6, <3>1, WrittenValue
    <2> QED BY <2>3, <2>4, <2>5, <2>6, CommittedSteps
  <1> QED BY <1>1, Invariance, PTL DEF Spec, IdsNeverReused

\* Requests are let in after seeding with the rows asked for in every table and no
\* reference left out (seed.go:31-64, README.md:84-86).
THEOREM HandsOverAlways == Spec => HandsOverSeeded
  <1>1. IInv /\ [Next]_vars =>
          [pc = "begin" /\ pc' = "serve" =>
             \A t \in Tables :
               /\ Cardinality(Live(db'.rows, t)) = rowPerTable
               /\ \A p \in DOMAIN ForeignKey : p[1] = t =>
                    \A i \in Live(db'.rows, t) : db'.rows[t][i][p[2]] # Null]_vars
    <2> SUFFICES ASSUME IInv, Next, pc = "begin", pc' = "serve", NEW t \in Tables
                 PROVE  /\ Cardinality(Live(db'.rows, t)) = rowPerTable
                        /\ \A p \in DOMAIN ForeignKey : p[1] = t =>
                             \A i \in Live(db'.rows, t) : db'.rows[t][i][p[2]] # Null
      BY DEF vars
    <2>1. Begin
      BY DEF Next, Work, Start, Check, Redraw, Insert, Fail, CommitBatch, CommitTable, Crash, Create, Delete, Exit,
             Unfinished
    <2>2. db' = db /\ order = <<>> /\ tx = NoTx /\ Seeding
      BY <2>1 DEF Begin, IInv, TypeOK, Seeding
    <2>3. t \notin Range(order) /\ Live(db.rows, t) = given[t]
      BY <2>2 DEF IInv, OnlyEmptyIsSeeded, Range
    <2>4. Cardinality(given[t]) = rowPerTable /\ AllRefer(db)
      BY <2>2, <2>3 DEF IInv, OrderSound
    <2> QED BY <2>2, <2>3, <2>4 DEF AllRefer
  <1> QED BY <1>1, Invariance, PTL DEF Spec, HandsOverSeeded
==============================================================================
