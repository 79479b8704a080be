----------------------------- MODULE CrudProofs -----------------------------
(***************************************************************************)
(* Proofs about Crud, for every schema, set of requests, number of clients *)
(* and size of the pool: its invariants and action properties, and at the  *)
(* end that it implements CrudService.                                     *)
(***************************************************************************)
EXTENDS Crud, StoreProofs, FiniteSetTheorems

(***************************************************************************)
(* Requests                                                                *)
(***************************************************************************)

\* What is known of a request that is not refused before its first statement.
LEMMA AcceptedRequest ==
  ASSUME NEW q \in Requests, EarlyRefusal(q) = {}
  PROVE  /\ q.op \in Ops
         /\ q.table \in Tables
         /\ q.op = "list" => q.page \in Nat \ {0} /\ q.limit \in 1..100
         /\ q.op \in WithId => q.id \in Ids
         /\ q.op = "create" => q.body \in Data(q.table) /\ ~CreateInvalid(q.table, q.body)
         /\ q.op = "update" => q.body \in Data(q.table) \cup {Malformed}
  <1>1. IsRequest(q)
    BY RequestAssumption
  <1>2. ~UnknownTable(q) /\ ~BadPath(q)
    BY DEF EarlyRefusal
  <1>3. q.op = "create" => ~BadBody(q) /\ ~InvalidBody(q)
    BY <1>2 DEF EarlyRefusal
  <1> QED BY <1>1, <1>2, <1>3
          DEF IsRequest, Ops, WithId, WithBody, UnknownTable, BadPath, BadBody, InvalidBody

LEMMA RefusalCodes ==
  ASSUME NEW q
  PROVE  EarlyRefusal(q) \subseteq {400, 404, 422}
  BY DEF EarlyRefusal

LEMMA ErrorIsAnswer ==
  ASSUME NEW code \in Codes
  PROVE  IsAnswer(Error(code))
  BY ValueAssumption DEF IsAnswer, Error, Answered, NoRows

LEMMA OneRowIsAnswer ==
  ASSUME NEW code \in Codes, NEW i \in Ids, NEW row, row # NoRow
  PROVE  IsAnswer(OneRow(code, i, row))
  BY ValueAssumption DEF IsAnswer, OneRow, Answered

LEMMA PageIsAnswer ==
  ASSUME NEW tbl, NEW q, NEW n \in 0..MaxId, NEW page \in Pages(tbl, q)
  PROVE  IsAnswer(Answered(200, page, n))
  <1>1. PICK P \in PageIds(tbl, q) : page = [i \in P |-> tbl[q.table][i]]
    BY DEF Pages
  <1>2. P \subseteq Live(tbl, q.table)
    BY DEF PageIds
  <1> QED BY <1>1, <1>2 DEF IsAnswer, Answered, Live, Codes

LEMMA CountType ==
  ASSUME NEW tbl, NEW t
  PROVE  Cardinality(Live(tbl, t)) \in 0..MaxId
  <1>1. IsFiniteSet(1..MaxId) /\ Cardinality(1..MaxId) = MaxId
    BY FS_Interval, ValueAssumption
  <1>2. Live(tbl, t) \subseteq 1..MaxId
    BY DEF Live, Ids
  <1>3. /\ IsFiniteSet(Live(tbl, t)) /\ Cardinality(Live(tbl, t)) <= Cardinality(1..MaxId)
    BY <1>1, <1>2, FS_Subset
  <1>4. Cardinality(Live(tbl, t)) \in Nat
    BY <1>3, FS_CardinalityType
  <1> QED BY <1>1, <1>3, <1>4, ValueAssumption

(***************************************************************************)
(* The actions by what they do to the database and to a client             *)
(***************************************************************************)

\* A client at a statement or a commit has an accepted request, and its fields
\* have their types.
LEMMA RequestAt ==
  ASSUME TypeOK, PlaceOK, NEW c \in Clients, pc[c] \in Statements \cup {"commit"}
  PROVE  /\ req[c] \in Requests
         /\ EarlyRefusal(req[c]) = {}
         /\ req[c].op \in OpsAt[pc[c]]
         /\ req[c].op \in Ops
         /\ req[c].table \in Tables
         /\ req[c].op \in WithId => req[c].id \in Ids
         /\ req[c].op = "create" =>
              /\ req[c].body \in Data(req[c].table)
              /\ ~CreateInvalid(req[c].table, req[c].body)
         /\ req[c].op = "update" => req[c].body \in Data(req[c].table) \cup {Malformed}
  <1>1. pc[c] # "idle"
    BY DEF Statements, Reads, Writes
  <1>2. req[c] \in Requests
    BY <1>1 DEF TypeOK
  <1>3. EarlyRefusal(req[c]) = {} /\ req[c].op \in OpsAt[pc[c]]
    BY DEF PlaceOK
  <1> QED BY <1>2, <1>3, AcceptedRequest

\* Only Commit changes the contents.
LEMMA OnlyCommitWrites ==
  ASSUME [Next]_vars
  PROVE  UNCHANGED <<rows, seq>> \/ \E c \in Clients : Commit(c)
  BY DEF Next, Step, Call, Acquire, AcquireFree, AcquireNew, Answer, Count, PageOf, Select,
         Exists, Reselect, Insert, Update, Delete, Busy, vars

\* What a commit writes has the type of a row.
LEMMA StagedType ==
  ASSUME TypeOK, PlaceOK, StagedOK, NEW c \in Clients, pc[c] = "commit"
  PROVE  /\ req[c].table \in Tables
         /\ req[c].op \in {"create", "update", "delete"}
         /\ staged[c].id \in Ids
         /\ req[c].op = "delete" => staged[c].row = NoRow
         /\ req[c].op # "delete" => staged[c].row \in Row(req[c].table)
  <1> DEFINE q == req[c]
  <1>1. /\ q.table \in Tables
        /\ q.op \in {"create", "update", "delete"}
        /\ q.op = "create" => q.body \in Data(q.table)
        /\ q.op = "update" => q.body \in Data(q.table) \cup {Malformed}
        /\ q.op \in WithId => q.id \in Ids
    BY RequestAt DEF OpsAt
  <1>2. staged[c] \in StagedWrites
    BY DEF PlaceOK, TypeOK
  <1>3. staged[c].id \in Ids
    BY <1>2 DEF StagedWrites
  <1>4. CASE q.op = "create"
    BY <1>1, <1>3, <1>4, CleanedType, InsertedType DEF StagedOK
  <1>5. CASE q.op = "update"
    <2>1. q.body \in Data(q.table)
      BY <1>1, <1>5 DEF PlaceOK, BadBody, WithBody
    <2>2. rows[q.table][q.id] \in Row(q.table)
      BY <1>1, <1>5, LiveType DEF StagedOK, Found, TypeOK
    <2> QED BY <1>1, <1>3, <1>5, <2>1, <2>2, UpdatedType DEF StagedOK
  <1>6. CASE q.op = "delete"
    BY <1>1, <1>3, <1>6 DEF StagedOK
  <1> QED BY <1>1, <1>4, <1>5, <1>6

(***************************************************************************)
(* Type correctness and the pool                                           *)
(***************************************************************************)

\* The two outcomes of a statement that writes.
LEMMA WriteOutcome ==
  ASSUME TypeOK, PlaceOK, NEW c \in Clients, Insert(c) \/ Update(c) \/ Delete(c)
  PROVE  /\ pc[c] \in Writes /\ conn[c] # NoConn
         /\ UNCHANGED <<rows, seq, req, total, open>>
         /\ \/ /\ \E code \in {400, 404, 409, 500} : Reply(c, Error(code))
               /\ Release(c) /\ UNCHANGED staged
            \/ /\ Goto(c, "commit") /\ UNCHANGED <<resp, conn>>
               /\ \E w \in StagedWrites : staged' = [staged EXCEPT ![c] = w]
  <1> USE DEF Goto, Release, Reply, Returns, Runs, Write
  <1> DEFINE Outcome ==
        \/ /\ \E code \in {400, 404, 409, 500} : Reply(c, Error(code))
           /\ Release(c) /\ UNCHANGED staged
        \/ /\ Goto(c, "commit") /\ UNCHANGED <<resp, conn>>
           /\ \E w \in StagedWrites : staged' = [staged EXCEPT ![c] = w]
  <1>1. /\ pc[c] \in Writes /\ conn[c] # NoConn
        /\ UNCHANGED <<rows, seq, req, total, open>>
    BY DEF Insert, Update, Delete, Writes
  <1> SUFFICES Outcome
    BY <1>1
  <1>2. ASSUME NEW i \in Ids, NEW row \in AnyRow, NEW broken, Write(c, i, row, broken)
        PROVE  Outcome
    <2>1. [id |-> i, row |-> row] \in StagedWrites
      BY DEF StagedWrites
    <2> QED BY <1>2, <2>1 DEF ConstraintStatus
  <1>3. CASE Insert(c)
    <2> DEFINE t == req[c].table
               data == Cleaned(t, req[c].body)
               row == Inserted(t, data)
    <2>1. pc[c] = "insert"
      BY <1>3 DEF Insert
    <2>2. t \in Tables /\ req[c].body \in Data(t)
      BY <2>1, RequestAt DEF Statements, Writes, OpsAt
    <2>3. row \in AnyRow
      BY <2>2, CleanedType, InsertedType DEF AnyRow
    <2>4. CASE InsertFails(t, data)
      BY <1>3, <2>4 DEF Insert
    <2>5. CASE ~InsertFails(t, data)
      <3>1. NextId(t) \in Ids
        BY <2>2, <2>5, ValueAssumption DEF InsertFails, NextId, TypeOK, Ids
      <3> QED BY <1>2, <1>3, <2>3, <2>5, <3>1 DEF Insert
    <2> QED BY <2>4, <2>5
  <1>4. CASE Update(c)
    <2> DEFINE t == req[c].table
               i == req[c].id
               row == Updated(t, rows[t][i], req[c].body)
    <2>1. pc[c] = "update"
      BY <1>4 DEF Update
    <2>2. t \in Tables /\ i \in Ids /\ req[c].body \in Data(t)
      BY <2>1, RequestAt
         DEF Statements, Writes, OpsAt, WithId, PlaceOK, BadBody, WithBody
    <2>3. CASE ~Found(c)
      BY <1>4, <2>3 DEF Update
    <2>4. CASE Found(c)
      <3>1. row \in AnyRow
        BY <2>2, <2>4, LiveType, UpdatedType DEF AnyRow, Found, TypeOK
      <3> QED BY <1>2, <1>4, <2>2, <2>4, <3>1 DEF Update
    <2> QED BY <2>3, <2>4
  <1>5. CASE Delete(c)
    <2>1. pc[c] = "delete"
      BY <1>5 DEF Delete
    <2>2. req[c].id \in Ids
      BY <2>1, RequestAt DEF Statements, Writes, OpsAt, WithId
    <2>3. CASE ~Found(c)
      BY <1>5, <2>3 DEF Delete
    <2>4. CASE Found(c)
      <3> DEFINE broken == DeleteBreaks(ForeignKeys(c), rows, req[c].table, req[c].id)
      <3>1. NoRow \in AnyRow
        BY DEF AnyRow
      <3>2. Write(c, req[c].id, NoRow, broken)
        BY <1>5, <2>4 DEF Delete
      <3> HIDE DEF broken
      <3> QED BY <1>2, <2>2, <3>1, <3>2
    <2> QED BY <2>3, <2>4
  <1> QED BY <1>3, <1>4, <1>5

\* An answer that is sent has the type of one, and nothing else changes resp.
LEMMA TypeStep ==
  ASSUME TypeOK, PlaceOK, StagedOK, [Next]_vars
  PROVE  TypeOK'
  <1> USE DEF Goto, Release, Reply, Returns, ThenRuns, Runs
  <1>0. ASSUME UNCHANGED vars
        PROVE  TypeOK'
    BY <1>0 DEF vars, TypeOK, Contents
  <1>1. ASSUME NEW c \in Clients, NEW q \in Requests, Call(c, q)
        PROVE  TypeOK'
    <2>1. q # NoRequest
      BY RequestAssumption
    <2>2. CASE EarlyRefusal(q) = {}
      <3>1. FirstStatement[q.op] \in Statements
        BY <2>2, AcceptedRequest DEF FirstStatement, Ops, Statements, Reads, Writes
      <3>2. pc' = [pc EXCEPT ![c] = FirstStatement[q.op]] /\ UNCHANGED resp
        BY <1>1, <2>2 DEF Call
      <3> QED BY <1>1, <2>1, <3>1, <3>2 DEF Call, TypeOK, Statements, Reads, Writes
    <2>3. CASE EarlyRefusal(q) # {}
      <3>1. PICK code \in EarlyRefusal(q) : Reply(c, Error(code))
        BY <1>1, <2>3 DEF Call
      <3>2. IsAnswer(Error(code))
        BY RefusalCodes, ErrorIsAnswer DEF Codes
      <3> QED BY <1>1, <2>1, <3>1, <3>2 DEF Call, TypeOK
    <2> QED BY <2>2, <2>3
  <1>2. ASSUME NEW c \in Clients, AcquireFree(c) \/ AcquireNew(c)
        PROVE  TypeOK'
    BY <1>2 DEF AcquireFree, AcquireNew, TypeOK
  <1>3. ASSUME NEW c \in Clients, Answer(c)
        PROVE  TypeOK'
    BY <1>3 DEF Answer, TypeOK
  <1>4. ASSUME NEW c \in Clients, Count(c)
        PROVE  TypeOK'
    BY <1>4, CountType DEF Count, TypeOK, Statements, Reads, Writes
  <1>5. ASSUME NEW c \in Clients, PageOf(c)
        PROVE  TypeOK'
    <2>1. total[c] \in 0..MaxId
      BY <1>5 DEF PageOf, PlaceOK, TypeOK
    <2>2. PICK page \in Pages(rows, req[c]) : Returns(c, Answered(200, page, total[c]))
      BY <1>5 DEF PageOf
    <2>3. IsAnswer(Answered(200, page, total[c]))
      BY <2>1, PageIsAnswer
    <2> QED BY <1>5, <2>2, <2>3 DEF PageOf, TypeOK
  <1>6. \A c \in Clients : pc[c] \in {"select", "exists", "reselect"} /\ Found(c) =>
          IsAnswer(FoundRow(c))
    BY OneRowIsAnswer DEF FoundRow, Found, Live, Codes
  <1>7. \A code \in {400, 404, 409, 422, 500} : IsAnswer(Error(code))
    BY ErrorIsAnswer DEF Codes
  <1>8. ASSUME NEW c \in Clients, Select(c) \/ Reselect(c)
        PROVE  TypeOK'
    BY <1>6, <1>7, <1>8 DEF Select, Reselect, TypeOK
  <1>9. ASSUME NEW c \in Clients, Exists(c)
        PROVE  TypeOK'
    BY <1>7, <1>9 DEF Exists, TypeOK, Statements, Reads, Writes
  <1>10. ASSUME NEW c \in Clients, Insert(c) \/ Update(c) \/ Delete(c)
         PROVE  TypeOK'
    BY <1>7, <1>10, WriteOutcome DEF TypeOK, Writes
  <1>11. ASSUME NEW c \in Clients, Busy(c)
         PROVE  TypeOK'
    BY <1>7, <1>11 DEF Busy, TypeOK, Writes
  <1>12. ASSUME NEW c \in Clients, Commit(c)
         PROVE  TypeOK'
    <2> DEFINE t == req[c].table
               i == staged[c].id
               row == staged[c].row
               code == Success[req[c].op]
    <2>1. /\ t \in Tables /\ i \in Ids /\ row \in Row(t) \cup {NoRow}
          /\ req[c].op \in {"create", "update", "delete"}
      BY <1>12, StagedType DEF Commit
    <2>2. rows' \in Contents
      BY <1>12, <2>1, WrittenType DEF Commit, TypeOK
    <2>3. seq' \in [Tables -> 0..MaxId]
      BY <1>12, <2>1, ValueAssumption DEF Commit, TypeOK, Ids
    <2>4. code \in Codes
      BY <2>1 DEF Success, Codes
    <2>5. IsAnswer(IF row = NoRow THEN Error(code) ELSE OneRow(code, i, row))
      BY <2>1, <2>4, ErrorIsAnswer, OneRowIsAnswer
    <2> QED BY <1>12, <2>2, <2>3, <2>5 DEF Commit, TypeOK
  <1> QED
    BY <1>0, <1>1, <1>2, <1>3, <1>4, <1>5, <1>8, <1>9, <1>10, <1>11, <1>12
       DEF Next, Step, Acquire

\* No action gives a client a connection that another one holds.
LEMMA PoolStep ==
  ASSUME TypeOK, PoolSound, PlaceOK, [Next]_vars
  PROVE  PoolSound'
  <1> USE DEF Goto, Release, Reply, Returns, ThenRuns, Runs
  <1>0. ASSUME UNCHANGED vars
        PROVE  PoolSound'
    BY <1>0 DEF vars, PoolSound
  <1>1. ASSUME NEW c \in Clients, NEW q \in Requests, Call(c, q)
        PROVE  PoolSound'
    BY <1>1 DEF Call, PoolSound, TypeOK
  <1>2. ASSUME NEW c \in Clients, AcquireFree(c)
        PROVE  PoolSound'
    BY <1>2, PoolAssumption DEF AcquireFree, PoolSound, TypeOK, Statements, Reads, Writes
  <1>3. ASSUME NEW c \in Clients, AcquireNew(c)
        PROVE  PoolSound'
    BY <1>3, PoolAssumption DEF AcquireNew, PoolSound, TypeOK, Statements, Reads, Writes
  \* The other actions keep or free the connection of their client.
  <1>4. ASSUME NEW c \in Clients, UNCHANGED open, NEW label, Goto(c, label),
               \/ Release(c)
               \/ UNCHANGED conn /\ label \notin {"idle", "answer"}
               \/ UNCHANGED conn /\ conn[c] = NoConn
        PROVE  PoolSound'
    BY <1>4 DEF PoolSound, TypeOK
  <1>5. ASSUME NEW c \in Clients, Answer(c)
        PROVE  PoolSound'
    BY <1>4, <1>5 DEF Answer, PoolSound
  <1>6. ASSUME NEW c \in Clients,
               Count(c) \/ PageOf(c) \/ Select(c) \/ Exists(c) \/ Reselect(c)
        PROVE  PoolSound'
    BY <1>4, <1>6 DEF Count, PageOf, Select, Exists, Reselect
  <1>7. ASSUME NEW c \in Clients, Insert(c) \/ Update(c) \/ Delete(c) \/ Busy(c) \/ Commit(c)
        PROVE  PoolSound'
    BY <1>4, <1>7 DEF Insert, Update, Delete, Busy, Commit, Write
  <1> QED BY <1>0, <1>1, <1>2, <1>3, <1>5, <1>6, <1>7 DEF Next, Step, Acquire

(***************************************************************************)
(* Handlers and the write lock                                             *)
(***************************************************************************)

LEMMA PlaceStep ==
  ASSUME TypeOK, PlaceOK, StagedOK, [Next]_vars
  PROVE  PlaceOK'
  <1> USE DEF Goto, Release, Reply, Returns, ThenRuns, Runs
  <1>0. ASSUME UNCHANGED vars
        PROVE  PlaceOK'
    BY <1>0 DEF vars, PlaceOK
  <1>1. ASSUME NEW c \in Clients, NEW q \in Requests, Call(c, q)
        PROVE  PlaceOK'
    <2>1. total[c] = NoTotal /\ staged[c] = NoWrite
      BY <1>1 DEF Call, PlaceOK
    <2>2. CASE EarlyRefusal(q) = {}
      <3>1. /\ q.op \in OpsAt[FirstStatement[q.op]]
            /\ FirstStatement[q.op] \in {"count", "select", "insert", "exists", "delete"}
        BY <2>2, AcceptedRequest DEF FirstStatement, OpsAt, Ops
      <3> QED BY <1>1, <2>1, <2>2, <3>1 DEF Call, PlaceOK, TypeOK
    <2>3. CASE EarlyRefusal(q) # {}
      BY <1>1, <2>1, <2>3 DEF Call, PlaceOK, TypeOK, Statements, Reads, Writes
    <2> QED BY <2>2, <2>3
  <1>2. ASSUME NEW c \in Clients, AcquireFree(c) \/ AcquireNew(c)
        PROVE  PlaceOK'
    BY <1>2, PoolAssumption
       DEF AcquireFree, AcquireNew, PlaceOK, TypeOK, Statements, Reads, Writes
  <1>3. ASSUME NEW c \in Clients, Answer(c)
        PROVE  PlaceOK'
    BY <1>3 DEF Answer, PlaceOK, TypeOK, Statements, Reads, Writes
  <1>4. ASSUME NEW c \in Clients, Count(c)
        PROVE  PlaceOK'
    <2>1. total'[c] # NoTotal
      BY <1>4, CountType, MarkAssumption DEF Count, TypeOK
    <2> QED BY <1>4, <2>1, RequestAt DEF Count, PlaceOK, TypeOK, OpsAt, Statements, Reads, Writes
  <1>5. ASSUME NEW c \in Clients, PageOf(c) \/ Select(c) \/ Reselect(c)
        PROVE  PlaceOK'
    BY <1>5 DEF PageOf, Select, Reselect, PlaceOK, TypeOK, Statements, Reads, Writes
  <1>6. ASSUME NEW c \in Clients, Exists(c)
        PROVE  PlaceOK'
    <2>1. EarlyRefusal(req[c]) = {} /\ req[c].op = "update"
      BY <1>6, RequestAt DEF Exists, OpsAt, Statements, Reads
    <2> QED BY <1>6, <2>1 DEF Exists, PlaceOK, TypeOK, OpsAt, Statements, Reads, Writes
  <1>7. ASSUME NEW c \in Clients, Insert(c) \/ Update(c) \/ Delete(c)
        PROVE  PlaceOK'
    <2>1. /\ EarlyRefusal(req[c]) = {}
          /\ req[c].op \in {"create", "update", "delete"}
          /\ req[c].op = "update" => pc[c] = "update"
          /\ total[c] = NoTotal
      <3>1. pc[c] \in {"insert", "update", "delete"}
        BY <1>7, WriteOutcome DEF Writes
      <3>2. EarlyRefusal(req[c]) = {} /\ req[c].op \in OpsAt[pc[c]]
        BY <3>1, RequestAt DEF Statements, Writes
      <3>3. total[c] = NoTotal
        BY <3>1 DEF PlaceOK
      <3> QED BY <3>1, <3>2, <3>3 DEF OpsAt
    <2>2. \A w \in StagedWrites : w # NoWrite
      BY MarkAssumption
    <2> QED BY <1>7, <2>1, <2>2, WriteOutcome
            DEF PlaceOK, TypeOK, OpsAt, Statements, Reads, Writes
  <1>8. ASSUME NEW c \in Clients, Busy(c)
        PROVE  PlaceOK'
    BY <1>8 DEF Busy, PlaceOK, TypeOK, Statements, Reads, Writes
  <1>9. ASSUME NEW c \in Clients, Commit(c)
        PROVE  PlaceOK'
    BY <1>9 DEF Commit, PlaceOK, TypeOK, Statements, Reads, Writes
  <1> QED BY <1>0, <1>1, <1>2, <1>3, <1>4, <1>5, <1>6, <1>7, <1>8, <1>9
          DEF Next, Step, Acquire

\* A client comes to hold the write lock only when no other does.
LEMMA OneWriterStep ==
  ASSUME TypeOK, PlaceOK, OneWriter, [Next]_vars
  PROVE  OneWriter'
  <1> USE DEF Goto, Release, Reply, Returns, ThenRuns, Runs
  <1>1. ASSUME NEW c \in Clients, Insert(c) \/ Update(c) \/ Delete(c)
        PROVE  OneWriter'
    BY <1>1 DEF Insert, Update, Delete, Write, Locked, OneWriter, TypeOK
  <1>2. ASSUME NEW c \in Clients, NEW label, label # "commit", Goto(c, label)
        PROVE  OneWriter'
    BY <1>2 DEF OneWriter, TypeOK
  <1>3. ASSUME NEW c \in Clients, NEW q \in Requests, Call(c, q)
        PROVE  OneWriter'
    <2>1. EarlyRefusal(q) = {} => FirstStatement[q.op] # "commit"
      BY AcceptedRequest DEF FirstStatement, Ops
    <2> QED BY <1>2, <1>3, <2>1 DEF Call
  <1>4. ASSUME NEW c \in Clients,
               \/ Answer(c) \/ Count(c) \/ PageOf(c) \/ Select(c) \/ Exists(c) \/ Reselect(c)
               \/ Busy(c) \/ Commit(c)
        PROVE  OneWriter'
    BY <1>2, <1>4 DEF Answer, Count, PageOf, Select, Exists, Reselect, Busy, Commit
  <1>5. ASSUME UNCHANGED pc
        PROVE  OneWriter'
    BY <1>5 DEF OneWriter
  <1> QED BY <1>1, <1>3, <1>4, <1>5 DEF Next, Step, Acquire, AcquireFree, AcquireNew, vars

(***************************************************************************)
(* Accepted writes and the contents                                        *)
(***************************************************************************)

\* A statement that is accepted stages the write of its request.
LEMMA StagedWhenAccepted ==
  ASSUME TypeOK, PlaceOK, IdsGiven, NEW c \in Clients,
         Insert(c) \/ Update(c) \/ Delete(c), pc'[c] = "commit"
  PROVE  LET q == req[c]
             w == staged'[c]
         IN /\ q.op \in {"create", "update", "delete"}
            /\ q.op = "create" =>
                 /\ w.id = NextId(q.table) /\ w.id \notin Live(rows, q.table)
                 /\ ~InsertFails(q.table, Cleaned(q.table, q.body))
                 /\ w.row = Inserted(q.table, Cleaned(q.table, q.body))
            /\ q.op = "update" =>
                 /\ w.id = q.id /\ Found(c)
                 /\ w.row = Updated(q.table, rows[q.table][q.id], q.body)
            /\ q.op \in {"create", "update"} =>
                 WriteBreaks(ForeignKeys(c), rows, q.table, w.id, w.row, Assigned(q)) = "nothing"
            /\ q.op = "delete" =>
                 /\ w.id = q.id /\ Found(c) /\ w.row = NoRow
                 /\ DeleteBreaks(ForeignKeys(c), rows, q.table, w.id) = "nothing"
  <1> USE DEF Goto, Release, Reply, Returns, Runs, Write
  <1>1. CASE Insert(c)
    <2>1. req[c].op = "create" /\ req[c].table \in Tables
      BY <1>1, RequestAt DEF Insert, Statements, Writes, OpsAt
    <2>2. NextId(req[c].table) \notin Live(rows, req[c].table)
      BY <2>1 DEF NextId, IdsGiven, TypeOK
    <2> QED BY <1>1, <2>1, <2>2 DEF Insert, Assigned, TypeOK
  <1>2. CASE Update(c)
    <2>1. req[c].op = "update"
      BY <1>2, RequestAt DEF Update, Statements, Writes, OpsAt
    <2> QED BY <1>2, <2>1 DEF Update, Assigned, TypeOK
  <1>3. CASE Delete(c)
    <2>1. req[c].op = "delete"
      BY <1>3, RequestAt DEF Delete, Statements, Writes, OpsAt
    <2> QED BY <1>3, <2>1 DEF Delete, TypeOK
  <1> QED BY <1>1, <1>2, <1>3

\* While a client holds the write lock no step of another changes what its
\* write was checked against.
LEMMA OthersLeaveStaged ==
  ASSUME TypeOK, PlaceOK, OneWriter, [Next]_vars, NEW d \in Clients, pc[d] = "commit",
         pc'[d] = "commit"
  PROVE  UNCHANGED <<rows, seq>> /\ req'[d] = req[d] /\ staged'[d] = staged[d]
         /\ conn'[d] = conn[d]
  <1> USE DEF Goto, Release, Reply, Returns, ThenRuns, Runs
  <1>1. ASSUME NEW c \in Clients, Insert(c) \/ Update(c) \/ Delete(c)
        PROVE  FALSE
    BY <1>1 DEF Insert, Update, Delete, Locked
  <1>2. ASSUME NEW c \in Clients, Commit(c)
        PROVE  FALSE
    BY <1>2 DEF Commit, OneWriter, TypeOK
  <1>3. ASSUME NEW c \in Clients, NEW q \in Requests, Call(c, q)
        PROVE  UNCHANGED <<rows, seq, conn, staged>> /\ req'[d] = req[d]
    BY <1>3 DEF Call, TypeOK
  <1>4. ASSUME NEW c \in Clients, AcquireFree(c) \/ AcquireNew(c)
        PROVE  UNCHANGED <<rows, seq, req, staged>> /\ conn'[d] = conn[d]
    BY <1>4 DEF AcquireFree, AcquireNew, TypeOK, Statements, Reads, Writes
  <1>5. ASSUME NEW c \in Clients,
               Answer(c) \/ Count(c) \/ PageOf(c) \/ Select(c) \/ Exists(c) \/ Reselect(c)
        PROVE  UNCHANGED <<rows, seq, staged>> /\ req'[d] = req[d] /\ conn'[d] = conn[d]
    BY <1>5 DEF Answer, Count, PageOf, Select, Exists, Reselect, TypeOK
  <1>6. ASSUME NEW c \in Clients, Busy(c)
        PROVE  UNCHANGED <<rows, seq, req, staged>> /\ conn'[d] = conn[d]
    BY <1>6 DEF Busy, TypeOK, Writes
  <1> QED BY <1>1, <1>2, <1>3, <1>4, <1>5, <1>6 DEF Next, Step, Acquire, vars

\* A client comes to commit by a statement that writes, and in no other way.
LEMMA CommitEntry ==
  ASSUME TypeOK, [Next]_vars, NEW d \in Clients, pc[d] # "commit", pc'[d] = "commit"
  PROVE  Insert(d) \/ Update(d) \/ Delete(d)
  <1> USE DEF Goto, Release, Reply, Returns, ThenRuns, Runs
  <1>1. ASSUME NEW c \in Clients, NEW q \in Requests, Call(c, q)
        PROVE  FALSE
    <2>1. EarlyRefusal(q) = {} => FirstStatement[q.op] # "commit"
      BY AcceptedRequest DEF FirstStatement, Ops
    <2> QED BY <1>1, <2>1 DEF Call, TypeOK
  <1>2. ASSUME NEW c \in Clients,
               \/ Answer(c) \/ Count(c) \/ PageOf(c) \/ Select(c) \/ Exists(c) \/ Reselect(c)
               \/ Busy(c) \/ Commit(c)
        PROVE  FALSE
    BY <1>2 DEF Answer, Count, PageOf, Select, Exists, Reselect, Busy, Commit, TypeOK
  <1>3. ASSUME NEW c \in Clients, c # d, Insert(c) \/ Update(c) \/ Delete(c)
        PROVE  FALSE
    BY <1>3 DEF Insert, Update, Delete, Write, TypeOK
  <1> QED BY <1>1, <1>2, <1>3 DEF Next, Step, Acquire, AcquireFree, AcquireNew, vars

LEMMA StagedStep ==
  ASSUME TypeOK, PlaceOK, OneWriter, IdsGiven, StagedOK, AcceptedWritesStayValid, [Next]_vars
  PROVE  StagedOK' /\ AcceptedWritesStayValid'
  <1>1. ASSUME NEW d \in Clients, pc'[d] = "commit", pc[d] = "commit"
        PROVE  /\ UNCHANGED <<rows, seq>> /\ req'[d] = req[d] /\ staged'[d] = staged[d]
               /\ conn'[d] = conn[d]
    BY <1>1, OthersLeaveStaged
  <1>2. ASSUME NEW d \in Clients, pc'[d] = "commit", pc[d] # "commit"
        PROVE  Insert(d) \/ Update(d) \/ Delete(d)
    BY <1>2, CommitEntry
  <1>3. ASSUME NEW d \in Clients, Insert(d) \/ Update(d) \/ Delete(d), pc'[d] = "commit"
        PROVE  UNCHANGED <<rows, seq, req, conn>>
    BY <1>3 DEF Insert, Update, Delete, Write, Returns, Reply, Goto, TypeOK
  <1>4. StagedOK'
    <2> SUFFICES ASSUME NEW d \in Clients, pc'[d] = "commit"
                 PROVE  (LET q == req[d]
                             w == staged[d]
                         IN /\ q.op = "create" =>
                                 /\ w.id = NextId(q.table)
                                 /\ ~InsertFails(q.table, Cleaned(q.table, q.body))
                                 /\ w.row = Inserted(q.table, Cleaned(q.table, q.body))
                            /\ q.op = "update" =>
                                 /\ w.id = q.id /\ Found(d)
                                 /\ w.row = Updated(q.table, rows[q.table][q.id], q.body)
                            /\ q.op = "delete" => w.id = q.id /\ Found(d) /\ w.row = NoRow)'
      BY DEF StagedOK
    <2>1. CASE pc[d] = "commit"
      BY <1>1, <2>1 DEF StagedOK, Found, NextId, InsertFails
    <2>2. CASE pc[d] # "commit"
      BY <1>2, <1>3, <2>2, StagedWhenAccepted DEF Found, NextId, InsertFails
    <2> QED BY <2>1, <2>2
  <1>5. AcceptedWritesStayValid'
    <2> SUFFICES ASSUME NEW d \in Clients, pc'[d] = "commit"
                 PROVE  (LET q == req[d]
                             w == staged[d]
                         IN IF q.op = "delete"
                            THEN /\ w.id \in Live(rows, q.table)
                                 /\ DeleteBreaks(ForeignKeys(d), rows, q.table, w.id) = "nothing"
                            ELSE /\ q.op = "create" <=> w.id \notin Live(rows, q.table)
                                 /\ WriteBreaks(ForeignKeys(d), rows, q.table, w.id, w.row,
                                                Assigned(q)) = "nothing")'
      BY DEF AcceptedWritesStayValid
    <2>1. CASE pc[d] = "commit"
      BY <1>1, <2>1 DEF AcceptedWritesStayValid, ForeignKeys
    <2>2. CASE pc[d] # "commit"
      BY <1>2, <1>3, <2>2, StagedWhenAccepted DEF Found, ForeignKeys
    <2> QED BY <2>1, <2>2
  <1> QED BY <1>4, <1>5

\* What is known of a write when it is committed.
LEMMA CommittedWrite ==
  ASSUME IInv, NEW c \in Clients, Commit(c)
  PROVE  LET q == req[c]
             w == staged[c]
         IN /\ q.table \in Tables
            /\ q.op \in {"create", "update", "delete"}
            /\ w.id \in Ids
            /\ rows' = Written(rows, q.table, w.id, w.row)
            /\ seq' = IF q.op = "create" THEN [seq EXCEPT ![q.table] = w.id] ELSE seq
            /\ q.op = "create" => w.id = seq[q.table] + 1
            /\ q.op # "create" => w.id \in Live(rows, q.table)
            /\ q.op = "delete" =>
                 /\ w.row = NoRow
                 /\ DeleteBreaks(ForeignKeys(c), rows, q.table, w.id) = "nothing"
            /\ q.op # "delete" =>
                 /\ w.row \in Row(q.table)
                 /\ WriteBreaks(ForeignKeys(c), rows, q.table, w.id, w.row, Assigned(q)) = "nothing"
                 /\ \A k \in Columns[q.table] \ Assigned(q) :
                      \/ w.row[k] = Null
                      \/ w.id \in Live(rows, q.table) /\ w.row[k] = rows[q.table][w.id][k]
  <1>1. pc[c] = "commit"
    BY DEF Commit
  <1>2. /\ req[c].table \in Tables
        /\ req[c].op \in {"create", "update", "delete"}
        /\ staged[c].id \in Ids
        /\ req[c].op # "delete" => staged[c].row \in Row(req[c].table)
    BY <1>1, StagedType DEF IInv
  <1>3. CASE req[c].op = "create"
    <2>1. /\ staged[c].id = seq[req[c].table] + 1
          /\ staged[c].row = Inserted(req[c].table, Cleaned(req[c].table, req[c].body))
          /\ WriteBreaks(ForeignKeys(c), rows, req[c].table, staged[c].id, staged[c].row,
                         Assigned(req[c])) = "nothing"
      BY <1>1, <1>3 DEF IInv, StagedOK, AcceptedWritesStayValid, NextId
    <2>2. \A k \in Columns[req[c].table] \ Assigned(req[c]) : staged[c].row[k] = Null
      BY <1>3, <2>1 DEF Inserted, Assigned
    <2> QED BY <1>2, <1>3, <2>1, <2>2 DEF Commit
  <1>4. CASE req[c].op = "update"
    <2>1. /\ staged[c].id = req[c].id /\ Found(c)
          /\ staged[c].row = Updated(req[c].table, rows[req[c].table][req[c].id], req[c].body)
          /\ WriteBreaks(ForeignKeys(c), rows, req[c].table, staged[c].id, staged[c].row,
                         Assigned(req[c])) = "nothing"
      BY <1>1, <1>4 DEF IInv, StagedOK, AcceptedWritesStayValid
    <2>2. \A k \in Columns[req[c].table] \ Assigned(req[c]) :
            staged[c].row[k] = rows[req[c].table][req[c].id][k]
      BY <1>4, <2>1 DEF Updated, Assigned
    <2> QED BY <1>2, <1>4, <2>1, <2>2 DEF Commit, Found
  <1>5. CASE req[c].op = "delete"
    BY <1>1, <1>2, <1>5 DEF IInv, Commit, StagedOK, AcceptedWritesStayValid, Found
  <1> QED BY <1>2, <1>3, <1>4, <1>5

LEMMA ContentsStep ==
  ASSUME IInv, [Next]_vars
  PROVE  IdsGiven' /\ Uniqueness'
  <1>1. CASE UNCHANGED <<rows, seq>>
    BY <1>1 DEF IInv, IdsGiven, Uniqueness, UniqueIn, Live
  <1>2. ASSUME NEW c \in Clients, Commit(c)
        PROVE  IdsGiven' /\ Uniqueness'
    <2> DEFINE t == req[c].table
               w == staged[c]
    <2>1. rows \in Contents /\ seq \in [Tables -> 0..MaxId]
      BY DEF IInv, TypeOK
    <2>2. t \in Tables /\ w.id \in Ids /\ rows' = Written(rows, t, w.id, w.row)
      BY <1>2, CommittedWrite
    <2>3. IdsGiven'
      <3>1. \A u \in Tables : \A j \in Live(rows', u) :
              j \in Live(rows, u) \/ (u = t /\ j = w.id)
        BY <2>1, <2>2, WrittenValue DEF Live
      <3>2. CASE req[c].op = "create"
        <4>1. w.id = seq[t] + 1 /\ seq' = [seq EXCEPT ![t] = w.id]
          BY <1>2, <3>2, CommittedWrite
        <4> QED BY <2>1, <2>2, <3>1, <4>1 DEF IInv, IdsGiven
      <3>3. CASE req[c].op # "create"
        <4>1. w.id \in Live(rows, t) /\ seq' = seq
          BY <1>2, <3>3, CommittedWrite
        <4> QED BY <2>1, <2>2, <3>1, <4>1 DEF IInv, IdsGiven
      <3> QED BY <3>2, <3>3
    <2>4. Uniqueness'
      <3>1. CASE req[c].op = "delete"
        <4>1. w.row = NoRow
          BY <1>2, <3>1, CommittedWrite
        <4> QED BY <2>1, <2>2, <4>1, DeleteKeepsUnique DEF IInv, Uniqueness
      <3>2. CASE req[c].op # "delete"
        <4>1. /\ w.row \in Row(t)
              /\ WriteBreaks(ForeignKeys(c), rows, t, w.id, w.row, Assigned(req[c])) = "nothing"
              /\ \A k \in Columns[t] \ Assigned(req[c]) :
                   \/ w.row[k] = Null
                   \/ w.id \in Live(rows, t) /\ w.row[k] = rows[t][w.id][k]
          BY <1>2, <3>2, CommittedWrite
        <4>2. ~UniqueBroken(rows, t, w.id, w.row, Assigned(req[c]))
          BY <4>1 DEF WriteBreaks
        <4> QED BY <2>1, <2>2, <4>1, <4>2, WriteKeepsUnique DEF IInv, Uniqueness
      <3> QED BY <3>1, <3>2
    <2> QED BY <2>3, <2>4
  <1> QED BY <1>1, <1>2, OnlyCommitWrites

\* With a pool of one connection every write checks foreign keys.
LEMMA ReferencesStep ==
  ASSUME Conns = {InitConn}, IInv, RefIntegrity, [Next]_vars
  PROVE  RefIntegrity'
  <1>1. CASE UNCHANGED <<rows, seq>>
    BY <1>1 DEF RefIntegrity, ReferencesIn, Dangling, Live
  <1>2. ASSUME NEW c \in Clients, Commit(c)
        PROVE  RefIntegrity'
    <2> DEFINE t == req[c].table
               w == staged[c]
    <2>1. rows \in Contents
      BY DEF IInv, TypeOK
    <2>2. t \in Tables /\ w.id \in Ids /\ rows' = Written(rows, t, w.id, w.row)
      BY <1>2, CommittedWrite
    <2>3. ForeignKeys(c) = "on"
      BY <1>2 DEF Commit, IInv, PlaceOK, TypeOK, ForeignKeys
    <2>4. CASE req[c].op = "delete"
      <3>1. w.row = NoRow /\ DeleteBreaks(ForeignKeys(c), rows, t, w.id) = "nothing"
        BY <1>2, <2>4, CommittedWrite
      <3>2. ~Referenced(Written(rows, t, w.id, NoRow), t, w.id)
        BY <2>3, <3>1 DEF DeleteBreaks
      <3> QED BY <2>1, <2>2, <3>1, <3>2, DeleteKeepsReferences DEF RefIntegrity
    <2>5. CASE req[c].op # "delete"
      <3>1. /\ w.row \in Row(t)
            /\ WriteBreaks(ForeignKeys(c), rows, t, w.id, w.row, Assigned(req[c])) = "nothing"
            /\ \A k \in Columns[t] \ Assigned(req[c]) :
                 \/ w.row[k] = Null
                 \/ w.id \in Live(rows, t) /\ w.row[k] = rows[t][w.id][k]
        BY <1>2, <2>5, CommittedWrite
      <3>2. ~ReferenceBroken(Written(rows, t, w.id, w.row), t, w.row, Assigned(req[c]))
        BY <2>3, <3>1 DEF WriteBreaks
      <3> QED BY <2>1, <2>2, <3>1, <3>2, WriteKeepsReferences DEF RefIntegrity
    <2> QED BY <2>4, <2>5
  <1> QED BY <1>1, <1>2, OnlyCommitWrites

(***************************************************************************)
(* The theorems                                                            *)
(***************************************************************************)

LEMMA InitInvariant == Init => IInv
  <1> SUFFICES ASSUME Init PROVE IInv
    OBVIOUS
  <1>1. TypeOK
    BY SeedAssumption, PoolAssumption DEF Init, TypeOK
  <1>2. PoolSound /\ PlaceOK /\ OneWriter /\ StagedOK /\ AcceptedWritesStayValid
    BY DEF Init, PoolSound, PlaceOK, OneWriter, StagedOK, AcceptedWritesStayValid,
           Statements, Reads, Writes
  <1>3. IdsGiven /\ Uniqueness
    BY SeedAssumption DEF Init, IdsGiven, Uniqueness
  <1> QED BY <1>1, <1>2, <1>3 DEF IInv

LEMMA StepInvariant == IInv /\ [Next]_vars => IInv'
  <1> SUFFICES ASSUME IInv, [Next]_vars PROVE IInv'
    OBVIOUS
  <1>1. /\ TypeOK /\ PoolSound /\ PlaceOK /\ OneWriter
        /\ IdsGiven /\ StagedOK /\ AcceptedWritesStayValid /\ Uniqueness
    BY DEF IInv
  <1>2. TypeOK'
    BY <1>1, TypeStep
  <1>3. PoolSound'
    BY <1>1, PoolStep
  <1>4. PlaceOK'
    BY <1>1, PlaceStep
  <1>5. OneWriter'
    BY <1>1, OneWriterStep
  <1>6. IdsGiven' /\ Uniqueness'
    BY ContentsStep
  <1>7. StagedOK' /\ AcceptedWritesStayValid'
    BY <1>1, StagedStep
  <1> QED BY <1>2, <1>3, <1>4, <1>5, <1>6, <1>7 DEF IInv

\* The inductive invariant holds of every execution: the states of handlers,
\* pool, write lock and tables stay consistent with each other.
THEOREM Invariance == Spec => []IInv
  <1> QED BY InitInvariant, StepInvariant, PTL DEF Spec

\* Type correctness of the handlers, the pool and the tables.
THEOREM TypeCorrect == Spec => []TypeOK
  <1>1. IInv => TypeOK
    BY DEF IInv
  <1> QED BY <1>1, Invariance, PTL

\* No two rows agree on a unique column, with any pool and any number of
\* clients that create and update at the same time.
THEOREM UniqueAlways == Spec => []Uniqueness
  <1>1. IInv => Uniqueness
    BY DEF IInv
  <1> QED BY <1>1, Invariance, PTL

\* A connection never serves two clients, and no handler that has left the
\* database keeps one.
THEOREM PoolSafe == Spec => []PoolSound
  <1>1. IInv => PoolSound
    BY DEF IInv
  <1> QED BY <1>1, Invariance, PTL

\* What SQLite has accepted stays acceptable until it is committed.
THEOREM AcceptedStayValid == Spec => []AcceptedWritesStayValid
  <1>1. IInv => AcceptedWritesStayValid
    BY DEF IInv
  <1> QED BY <1>1, Invariance, PTL

\* In memory mode (a pool of the one connection on which InitDB enabled
\* foreign keys) no reference ever dangles.
THEOREM ReferencesAlways == Conns = {InitConn} => (Spec => []RefIntegrity)
  <1> SUFFICES ASSUME Conns = {InitConn} PROVE Spec => []RefIntegrity
    OBVIOUS
  <1>1. Init => RefIntegrity
    BY SeedAssumption DEF Init, RefIntegrity
  <1>2. IInv /\ RefIntegrity /\ [Next]_vars => RefIntegrity'
    BY ReferencesStep
  <1> QED BY <1>1, <1>2, Invariance, PTL DEF Spec

\* NOT NULL never refuses a write: the validators do so before.
THEOREM NullShielded == Spec => []NotNullShielded
  <1>1. IInv => NotNullShielded
    <2> SUFFICES ASSUME IInv, NEW c \in Clients PROVE
          LET q == req[c] IN
          /\ pc[c] = "insert" =>
               LET data == Cleaned(q.table, q.body)
               IN ~NotNullBroken(q.table, Inserted(q.table, data), Columns[q.table])
          /\ pc[c] = "update" /\ Found(c) =>
               ~NotNullBroken(q.table, Updated(q.table, rows[q.table][q.id], q.body),
                              DOMAIN q.body)
      BY DEF NotNullShielded
    <2> DEFINE q == req[c]
               t == q.table
    <2>1. t \in Tables => \A k \in Columns[t] : Null \notin Accepted[t][k]
      BY ValueAssumption
    <2>2. CASE pc[c] = "insert"
      <3>1. t \in Tables /\ q.body \in Data(t) /\ ~CreateInvalid(t, q.body)
        BY <2>2, RequestAt DEF IInv, Statements, Writes, OpsAt
      <3>2. \A k \in Columns[t] : <<t, k>> \in Required =>
              k \in DOMAIN Cleaned(t, q.body) /\ Cleaned(t, q.body)[k] # Null
        BY <2>1, <3>1 DEF CreateInvalid
      <3> QED BY <2>2, <3>2 DEF NotNullBroken, Inserted
    <2>3. CASE pc[c] = "update"
      <3>1. t \in Tables /\ q.op = "update" /\ q.body \in Data(t) \cup {Malformed}
        BY <2>3, RequestAt DEF IInv, Statements, Writes, OpsAt
      <3>2. q.body \in Data(t) /\ ~UpdateInvalid(t, q.body)
        BY <2>3, <3>1 DEF IInv, PlaceOK, BadBody, InvalidBody, WithBody
      <3>3. DOMAIN q.body \subseteq Columns[t] /\ \A k \in DOMAIN q.body : q.body[k] # Null
        BY <2>1, <3>1, <3>2 DEF UpdateInvalid, Data
      <3> QED BY <2>3, <3>3 DEF NotNullBroken, Updated
    <2>4. CASE pc[c] \notin {"insert", "update"}
      BY <2>4
    <2> QED BY <2>2, <2>3, <2>4
  <1> QED BY <1>1, Invariance, PTL

\* The id of a deleted row never comes to name another row.
THEOREM DeletedForGood == Spec => DeletedStaysDeleted
  <1> DEFINE Kept ==
        \A t \in Tables : \A i \in 1..seq[t] : rows[t][i] = NoRow => rows'[t][i] = NoRow
  <1>1. IInv /\ [Next]_vars => [Kept]_vars
    <2> SUFFICES ASSUME IInv, [Next]_vars PROVE Kept
      OBVIOUS
    <2>1. CASE UNCHANGED <<rows, seq>>
      BY <2>1
    <2>2. ASSUME NEW c \in Clients, Commit(c)
          PROVE  Kept
      <3> DEFINE t == req[c].table
                 w == staged[c]
      <3>1. rows \in Contents /\ seq \in [Tables -> 0..MaxId]
        BY DEF IInv, TypeOK
      <3>2. /\ t \in Tables /\ w.id \in Ids /\ rows' = Written(rows, t, w.id, w.row)
            /\ w.id = seq[t] + 1 \/ w.id \in Live(rows, t)
        BY <2>2, CommittedWrite
      <3>3. \A u \in Tables : 1..seq[u] \subseteq Ids
        BY <3>1, ValueAssumption DEF Ids
      <3>4. w.id \notin 1..seq[t] \/ rows[t][w.id] # NoRow
        BY <3>1, <3>2 DEF Live
      <3> QED BY <3>1, <3>2, <3>3, <3>4, WrittenValue
    <2> QED BY <2>1, <2>2, OnlyCommitWrites
  <1> QED BY <1>1, Invariance, PTL DEF Spec, DeletedStaysDeleted

\* Where a live row differs after a step, an update of that row was answered
\* with 200 by this step, and its body says what is there now: what Update read
\* before (db.go:209-215) is never written back.
THEOREM UpdatesMerge == Spec => NoLostUpdate
  <1> DEFINE Merged ==
        \A t \in Tables : \A i \in Live(rows, t) \cap Live(rows', t) : \A k \in Columns[t] :
          rows'[t][i][k] # rows[t][i][k] =>
            \E c \in Clients :
              /\ resp[c] = NoAnswer /\ resp'[c] # NoAnswer /\ resp'[c].code = 200
              /\ req[c].op = "update" /\ req[c].table = t /\ req[c].id = i
              /\ k \in DOMAIN req[c].body /\ req[c].body[k] = rows'[t][i][k]
  <1>1. IInv /\ [Next]_vars => [Merged]_vars
    <2> SUFFICES ASSUME IInv, [Next]_vars PROVE Merged
      OBVIOUS
    <2>1. CASE UNCHANGED <<rows, seq>>
      BY <2>1
    <2>2. ASSUME NEW c \in Clients, Commit(c)
          PROVE  Merged
      <3> DEFINE q == req[c]
                 w == staged[c]
      <3>1. /\ rows \in Contents /\ pc[c] = "commit" /\ q.op \in {"create", "update", "delete"}
            /\ resp[c] = NoAnswer /\ DOMAIN resp = Clients
        BY <2>2 DEF IInv, TypeOK, PlaceOK, OpsAt, Commit
      <3>2. /\ q.table \in Tables /\ w.id \in Ids /\ rows' = Written(rows, q.table, w.id, w.row)
        BY <2>2, CommittedWrite
      <3> SUFFICES ASSUME NEW t \in Tables, NEW i \in Live(rows, t), i \in Live(rows', t),
                          NEW k \in Columns[t], rows'[t][i][k] # rows[t][i][k]
                   PROVE  /\ resp[c] = NoAnswer /\ resp'[c] # NoAnswer /\ resp'[c].code = 200
                          /\ q.op = "update" /\ q.table = t /\ q.id = i
                          /\ k \in DOMAIN q.body /\ q.body[k] = rows'[t][i][k]
        OBVIOUS
      <3>3. i \in Ids /\ rows[t][i] # NoRow /\ rows'[t][i] # NoRow
        BY DEF Live
      <3>4. t = q.table /\ i = w.id /\ rows'[t][i] = w.row
        BY <3>1, <3>2, <3>3, WrittenValue
      <3>5. q.op # "delete"
        BY <2>2, <3>1, <3>3, <3>4 DEF IInv, StagedOK
      <3>6. q.op # "create"
        BY <2>2, <3>1, <3>4 DEF IInv, AcceptedWritesStayValid
      <3>7. /\ q.op = "update" /\ q.id = i
            /\ w.row = Updated(t, rows[t][i], q.body)
        BY <3>1, <3>4, <3>5, <3>6 DEF IInv, StagedOK
      <3>8. k \in DOMAIN q.body /\ q.body[k] = rows'[t][i][k]
        <4>1. w.row[k] = IF k \in DOMAIN q.body THEN q.body[k] ELSE rows[t][i][k]
          BY <3>7 DEF Updated
        <4>2. w.row[k] # rows[t][i][k]
          BY <3>4
        <4> QED BY <3>4, <4>1, <4>2
      <3>9. resp'[c] = OneRow(200, i, w.row)
        <4>1. Reply(c, IF w.row = NoRow THEN Error(Success[q.op]) ELSE OneRow(Success[q.op], w.id, w.row))
          BY <2>2 DEF Commit, Returns
        <4>2. w.row # NoRow /\ Success[q.op] = 200 /\ w.id = i
          BY <3>3, <3>4, <3>7 DEF Success
        <4>3. Reply(c, OneRow(200, i, w.row))
          BY <4>1, <4>2
        <4> QED BY <3>1, <4>3 DEF Reply
      <3>10. resp'[c].code = 200
        BY <3>9 DEF OneRow, Answered
      <3>11. resp'[c] # NoAnswer
        <4>1. w.row \in AnyRow /\ 0 \in 0..MaxId
          BY <2>2, <3>1, <3>7, StagedType, ValueAssumption DEF IInv, AnyRow
        <4>2. [j \in {i} |-> w.row] \in [{i} -> AnyRow] /\ {i} \in SUBSET Ids
          BY <3>3, <4>1
        <4>3. OneRow(200, i, w.row) \in
                [code : Codes, body : UNION {[S -> AnyRow] : S \in SUBSET Ids}, total : 0..MaxId]
          <5>1. [j \in {i} |-> w.row] \in UNION {[S -> AnyRow] : S \in SUBSET Ids}
            BY <4>2
          <5> QED BY <4>1, <5>1 DEF OneRow, Answered, Codes
        <4> QED BY <3>9, <4>3, AnswerAssumption
      <3> QED BY <3>1, <3>4, <3>7, <3>8, <3>10, <3>11
    <2> QED BY <2>1, <2>2, OnlyCommitWrites
  <1> QED BY <1>1, Invariance, PTL DEF Spec, NoLostUpdate

-----------------------------------------------------------------------------
(* The handlers implement the atomic service *)

(***************************************************************************)
(* The operators of Store and Requests are the same in both modules        *)
(***************************************************************************)

LEMMA SameLive == \A tbl, t : Service!Live(tbl, t) = Live(tbl, t)
  BY DEF Service!Live, Live, Service!Ids, Ids

LEMMA SameCleaned == \A t, data : Service!Cleaned(t, data) = Cleaned(t, data)
  BY DEF Service!Cleaned, Cleaned

LEMMA SameRows ==
  /\ \A t, data : Service!Inserted(t, data) = Inserted(t, data)
  /\ \A t, row, data : Service!Updated(t, row, data) = Updated(t, row, data)
  /\ \A tbl, t, i, row : Service!Written(tbl, t, i, row) = Written(tbl, t, i, row)
  BY DEF Service!Inserted, Inserted, Service!Updated, Updated, Service!Written, Written

LEMMA SameChecks ==
  /\ \A fk, tbl, t, i, row, assigned :
       Service!WriteBreaks(fk, tbl, t, i, row, assigned) = WriteBreaks(fk, tbl, t, i, row, assigned)
  /\ \A fk, tbl, t, i :
       Service!DeleteBreaks(fk, tbl, t, i) = DeleteBreaks(fk, tbl, t, i)
  <1>1. \A t, row, assigned :
          Service!NotNullBroken(t, row, assigned) <=> NotNullBroken(t, row, assigned)
    BY DEF Service!NotNullBroken, NotNullBroken
  <1>2. \A tbl, t, i, row, assigned :
          Service!UniqueBroken(tbl, t, i, row, assigned) <=> UniqueBroken(tbl, t, i, row, assigned)
    <2> SUFFICES ASSUME NEW tbl, NEW t, NEW i, NEW row, NEW assigned
                 PROVE  Service!UniqueBroken(tbl, t, i, row, assigned) <=> UniqueBroken(tbl, t, i, row, assigned)
      OBVIOUS
    <2> DEFINE Others == Live(tbl, t) \ {i}
    <2>1. Service!Live(tbl, t) \ {i} = Others
      BY SameLive
    <2> HIDE DEF Others
    <2>2. Service!UniqueBroken(tbl, t, i, row, assigned) <=>
            \E c \in assigned, j \in Others : <<t, c>> \in Unique /\ row[c] # Null /\ tbl[t][j][c] = row[c]
      BY <2>1 DEF Service!UniqueBroken
    <2>3. UniqueBroken(tbl, t, i, row, assigned) <=>
            \E c \in assigned, j \in Others : <<t, c>> \in Unique /\ row[c] # Null /\ tbl[t][j][c] = row[c]
      BY DEF UniqueBroken, Others
    <2> QED BY <2>2, <2>3
  <1>3. \A tbl, t, c, v : Service!Dangling(tbl, t, c, v) <=> Dangling(tbl, t, c, v)
    BY SameLive DEF Service!Dangling, Dangling
  <1>4. \A tbl, t, row, assigned :
          Service!ReferenceBroken(tbl, t, row, assigned) <=> ReferenceBroken(tbl, t, row, assigned)
    BY <1>3 DEF Service!ReferenceBroken, ReferenceBroken
  <1>5. \A u, t : Service!Referring(u, t) = Referring(u, t)
    BY DEF Service!Referring, Referring
  <1>6. \A tbl, t, i : Service!Referenced(tbl, t, i) <=> Referenced(tbl, t, i)
    BY <1>5, SameLive DEF Service!Referenced, Referenced
  <1> QED BY <1>1, <1>2, <1>4, <1>6, SameRows
          DEF Service!WriteBreaks, WriteBreaks, Service!DeleteBreaks, DeleteBreaks

LEMMA SameRequests ==
  /\ \A q : Service!EarlyRefusal(q) = EarlyRefusal(q)
  /\ \A q : Service!BadBody(q) <=> BadBody(q)
  /\ \A q : Service!InvalidBody(q) <=> InvalidBody(q)
  /\ \A op, broken : Service!ConstraintStatus(op, broken) = ConstraintStatus(op, broken)
  <1>1. /\ \A q : Service!BadBody(q) <=> BadBody(q)
        /\ \A q : Service!UnknownTable(q) <=> UnknownTable(q)
        /\ \A q : Service!BadPath(q) <=> BadPath(q)
    BY DEF Service!BadBody, BadBody, Service!UnknownTable, UnknownTable, Service!BadPath, BadPath,
           Service!WithId, WithId, Service!WithBody, WithBody
  <1>2. \A t, data : Service!CreateInvalid(t, data) <=> CreateInvalid(t, data)
    BY SameCleaned DEF Service!CreateInvalid, CreateInvalid
  <1>3. \A q : Service!InvalidBody(q) <=> InvalidBody(q)
    BY <1>2 DEF Service!InvalidBody, InvalidBody, Service!UpdateInvalid, UpdateInvalid
  <1>4. \A q : Service!EarlyRefusal(q) = EarlyRefusal(q)
    BY <1>1, <1>3 DEF Service!EarlyRefusal, EarlyRefusal
  <1>5. \A op, broken : Service!ConstraintStatus(op, broken) = ConstraintStatus(op, broken)
    BY DEF Service!ConstraintStatus, ConstraintStatus
  <1> QED BY <1>1, <1>3, <1>4, <1>5

LEMMA SameCardinality == \A S : Service!Cardinality(S) = Cardinality(S)
  BY DEF Service!Cardinality, Cardinality

LEMMA SameAnswers ==
  /\ \A code : Service!Error(code) = Error(code)
  /\ \A code, i, row : Service!OneRow(code, i, row) = OneRow(code, i, row)
  /\ \A code, body, n : Service!Answered(code, body, n) = Answered(code, body, n)
  /\ \A tbl, q : Service!Pages(tbl, q) = Pages(tbl, q)
  <1>1. \A tbl, q, S, T : Service!InFront(tbl, q, S, T) <=> InFront(tbl, q, S, T)
    BY DEF Service!InFront, InFront, Service!SortKey, SortKey
  <1>2. \A tbl, q, skipped, P, rest :
          Service!IsPage(tbl, q, skipped, P, rest) <=> IsPage(tbl, q, skipped, P, rest)
    BY <1>1, SameCardinality DEF Service!IsPage, IsPage
  <1>3. \A tbl, q : Service!PageIds(tbl, q) = PageIds(tbl, q)
    BY <1>2, SameLive DEF Service!PageIds, PageIds
  <1>4. \A tbl, q : Service!Pages(tbl, q) = Pages(tbl, q)
    BY <1>3 DEF Service!Pages, Pages
  <1> QED BY <1>4 DEF Service!Error, Error, Service!OneRow, OneRow, Service!Answered, Answered,
                      Service!NoRows, NoRows

(***************************************************************************)
(* The state of a client, as the service sees it                           *)
(***************************************************************************)

Seen ==
  [c \in Clients |-> IF pc[c] = "idle" THEN "idle"
                     ELSE IF pc[c] = "answer" THEN "done" ELSE "pending"]

Checks == IF Conns = {InitConn} THEN {"on"} ELSE {"on", "off"}

LEMMA SeenStep ==
  ASSUME TypeOK, NEW c \in Clients, NEW label, Goto(c, label)
  PROVE  Seen' = [Seen EXCEPT ![c] = IF label = "idle" THEN "idle"
                                     ELSE IF label = "answer" THEN "done" ELSE "pending"]
  BY DEF Seen, Goto, TypeOK

LEMMA AtStatement ==
  ASSUME TypeOK, NEW c \in Clients, pc[c] \in Statements \cup {"commit"}
  PROVE  Seen[c] = "pending"
  BY DEF Seen, Statements, Reads, Writes

LEMMA ChecksOf ==
  ASSUME TypeOK, NEW c \in Clients, conn[c] # NoConn
  PROVE  ForeignKeys(c) \in Checks
  BY DEF ForeignKeys, Checks, TypeOK

LEMMA InitRefines == Init => Service!Init
  BY DEF Init, Service!Init

LEMMA CallRefines ==
  ASSUME TypeOK, NEW c \in Clients, NEW q \in Requests, Call(c, q)
  PROVE  Service!Accept(c, q)
  <1>1. Seen[c] = "idle"
    BY DEF Call, Seen
  <1>2. CASE EarlyRefusal(q) = {}
    <2>1. FirstStatement[q.op] \in {"count", "select", "insert", "exists", "delete"}
      BY <1>2, AcceptedRequest DEF FirstStatement, Ops
    <2>2. Goto(c, FirstStatement[q.op]) /\ UNCHANGED resp
      BY <1>2 DEF Call
    <2>3. Seen' = [Seen EXCEPT ![c] = "pending"]
      BY <2>1, <2>2, SeenStep
    <2> QED BY <1>1, <1>2, <2>2, <2>3, SameRequests DEF Call, Service!Accept, Seen
  <1>3. CASE EarlyRefusal(q) # {}
    <2>1. PICK code \in EarlyRefusal(q) : Reply(c, Error(code))
      BY <1>3 DEF Call
    <2>2. Seen' = [Seen EXCEPT ![c] = "done"]
      BY <2>1, SeenStep DEF Reply
    <2>3. Service!Reply(c, Service!Error(code))
      BY <2>1, <2>2, SameAnswers DEF Reply, Service!Reply, Seen
    <2> QED BY <1>1, <1>3, <2>1, <2>3, SameRequests DEF Call, Service!Accept, Seen
  <1> QED BY <1>2, <1>3

LEMMA AnswerRefines ==
  ASSUME TypeOK, NEW c \in Clients, Answer(c)
  PROVE  Service!Return(c)
  <1>1. Seen[c] = "done"
    BY DEF Answer, Seen
  <1>2. Seen' = [Seen EXCEPT ![c] = "idle"]
    BY SeenStep DEF Answer
  <1> QED BY <1>1, <1>2 DEF Answer, Service!Return, Seen

LEMMA CountRefines ==
  ASSUME TypeOK, PlaceOK, NEW c \in Clients, Count(c)
  PROVE  Service!CountRead(c)
  <1>1. pc[c] = "count" /\ total[c] = NoTotal
    BY DEF Count, Runs, PlaceOK
  <1>2. Seen[c] = "pending" /\ req[c].op = "list"
    BY <1>1, AtStatement, RequestAt DEF OpsAt, Statements, Reads
  <1>3. Seen' = [Seen EXCEPT ![c] = "pending"]
    BY SeenStep DEF Count, ThenRuns
  <1>4. Seen' = Seen
    BY <1>2, <1>3 DEF Seen
  <1> QED BY <1>1, <1>2, <1>4, SameLive, SameCardinality
          DEF Count, ThenRuns, Service!CountRead, Service!Pending, Seen

LEMMA PageRefines ==
  ASSUME TypeOK, PlaceOK, NEW c \in Clients, PageOf(c)
  PROVE  Service!PageRead(c)
  <1>1. pc[c] = "page" /\ total[c] # NoTotal
    BY DEF PageOf, Runs, PlaceOK
  <1>2. Seen[c] = "pending" /\ req[c].op = "list"
    BY <1>1, AtStatement, RequestAt DEF OpsAt, Statements, Reads
  <1>3. Seen' = [Seen EXCEPT ![c] = "done"]
    BY SeenStep DEF PageOf, Returns, Reply
  <1>4. PICK page \in Pages(rows, req[c]) : Returns(c, Answered(200, page, total[c]))
    BY DEF PageOf
  <1>5. Service!Reply(c, Service!Answered(200, page, total[c]))
    BY <1>3, <1>4, SameAnswers DEF Returns, Reply, Service!Reply, Seen
  <1>6. page \in Service!Pages(rows, req[c])
    BY <1>4, SameAnswers
  <1> QED BY <1>1, <1>2, <1>5, <1>6
          DEF PageOf, Service!PageRead, Service!Pending, Seen

LEMMA SelectRefines ==
  ASSUME TypeOK, PlaceOK, NEW c \in Clients, Select(c)
  PROVE  Service!Get(c)
  <1>1. pc[c] = "select"
    BY DEF Select, Runs
  <1>2. Seen[c] = "pending" /\ req[c].op = "get"
    BY <1>1, AtStatement, RequestAt DEF OpsAt, Statements, Reads
  <1>3. Seen' = [Seen EXCEPT ![c] = "done"]
    BY SeenStep DEF Select, Returns, Reply
  <1> QED BY <1>1, <1>2, <1>3, SameAnswers, SameLive
          DEF Select, Found, FoundRow, Returns, Reply, Service!Get, Service!Reply,
              Service!Pending, Seen

\* Only the state that the service has matters to it.
Stutters == UNCHANGED <<rows, seq, Seen, req, resp, total>>

\* A reply is the service's reply.
LEMMA ReplyRefines ==
  ASSUME TypeOK, NEW c \in Clients, NEW answer, Reply(c, answer)
  PROVE  Service!Reply(c, answer)
  <1>1. Seen' = [Seen EXCEPT ![c] = "done"]
    BY SeenStep DEF Reply
  <1> QED BY <1>1 DEF Reply, Service!Reply, Seen

\* The errors of an update as Crud's own operators say them.
LEMMA UpdateErrorsOf ==
  ASSUME NEW c \in Clients, NEW fk
  PROVE  Service!UpdateErrors(c, fk) =
           LET q == req[c] IN
           IF q.id \notin Live(rows, q.table)
           THEN {404} \cup (IF BadBody(q) \/ InvalidBody(q) THEN {} ELSE {500})
           ELSE IF BadBody(q) THEN {400}
           ELSE IF InvalidBody(q) THEN {422}
           ELSE LET row == Updated(q.table, rows[q.table][q.id], q.body)
                    broken == WriteBreaks(fk, rows, q.table, q.id, row, DOMAIN q.body)
                IN IF broken = "nothing" THEN {} ELSE {ConstraintStatus("update", broken)}
  BY SameLive, SameRequests, SameRows, SameChecks DEF Service!UpdateErrors

\* An update that is answered with an error it may have.
LEMMA UpdateErrorRefines ==
  ASSUME TypeOK, NEW c \in Clients, Seen[c] = "pending", req[c].op = "update",
         NEW fk \in Checks, NEW code \in Service!UpdateErrors(c, fk),
         Reply(c, Error(code)), UNCHANGED <<rows, seq, req, total>>
  PROVE  Service!Update(c)
  <1>1. Service!Reply(c, Service!Error(code))
    BY ReplyRefines, SameAnswers
  <1>2. Service!UpdateErrors(c, fk) # {}
    OBVIOUS
  <1> QED BY <1>1, <1>2 DEF Service!Update, Service!Pending, Seen, Checks

LEMMA ExistsRefines ==
  ASSUME TypeOK, PlaceOK, NEW c \in Clients, Exists(c)
  PROVE  Service!Update(c) \/ Stutters
  <1> DEFINE q == req[c]
  <1>1. pc[c] = "exists" /\ conn[c] # NoConn /\ UNCHANGED <<rows, seq, req, total>>
    BY DEF Exists, Runs
  <1>2. Seen[c] = "pending" /\ q.op = "update"
    BY <1>1, AtStatement, RequestAt DEF OpsAt, Statements, Reads
  <1>3. ForeignKeys(c) \in Checks
    BY <1>1, ChecksOf
  <1>4. CASE ~Found(c)
    <2>1. Reply(c, Error(404))
      BY <1>4 DEF Exists, Returns
    <2>2. 404 \in Service!UpdateErrors(c, ForeignKeys(c))
      BY <1>4, UpdateErrorsOf DEF Found
    <2> QED BY <1>1, <1>2, <1>3, <2>1, <2>2, UpdateErrorRefines
  <1>5. CASE Found(c) /\ BadBody(q)
    <2>1. Reply(c, Error(400))
      BY <1>5 DEF Exists, Returns
    <2>2. 400 \in Service!UpdateErrors(c, ForeignKeys(c))
      BY <1>5, UpdateErrorsOf DEF Found
    <2> QED BY <1>1, <1>2, <1>3, <2>1, <2>2, UpdateErrorRefines
  <1>6. CASE Found(c) /\ ~BadBody(q) /\ InvalidBody(q)
    <2>1. Reply(c, Error(422))
      BY <1>6 DEF Exists, Returns
    <2>2. 422 \in Service!UpdateErrors(c, ForeignKeys(c))
      BY <1>6, UpdateErrorsOf DEF Found
    <2> QED BY <1>1, <1>2, <1>3, <2>1, <2>2, UpdateErrorRefines
  <1>7. CASE Found(c) /\ ~BadBody(q) /\ ~InvalidBody(q)
    <2>1. ThenRuns(c, IF DOMAIN q.body = {} THEN "reselect" ELSE "update")
      BY <1>7 DEF Exists
    <2>2. UNCHANGED resp /\ Seen' = [Seen EXCEPT ![c] = "pending"]
      BY <2>1, SeenStep DEF ThenRuns
    <2>3. Seen' = Seen
      BY <1>2, <2>2 DEF Seen
    <2> QED BY <1>1, <2>2, <2>3 DEF Stutters
  <1> QED BY <1>4, <1>5, <1>6, <1>7

\* Writing a row where it already is changes nothing.
LEMMA WrittenSame ==
  ASSUME NEW tbl \in Contents, NEW t \in Tables, NEW i \in Ids
  PROVE  Written(tbl, t, i, tbl[t][i]) = tbl
  BY DEF Written, Contents

LEMMA ReselectRefines ==
  ASSUME TypeOK, PlaceOK, NEW c \in Clients, Reselect(c)
  PROVE  Service!Update(c)
  <1> DEFINE q == req[c]
             t == q.table
  <1>1. pc[c] = "reselect" /\ conn[c] # NoConn /\ UNCHANGED <<rows, seq, req, total>>
    BY DEF Reselect, Runs
  <1>2. Seen[c] = "pending" /\ q.op = "update" /\ t \in Tables /\ q.id \in Ids
    BY <1>1, AtStatement, RequestAt DEF OpsAt, Statements, Reads, WithId
  <1>3. ForeignKeys(c) \in Checks
    BY <1>1, ChecksOf
  <1>4. ~BadBody(q) /\ ~InvalidBody(q) /\ DOMAIN q.body = {}
    BY <1>1, <1>2 DEF PlaceOK
  <1>5. CASE ~Found(c)
    <2>1. Reply(c, Error(500))
      BY <1>5 DEF Reselect, Returns
    <2>2. 500 \in Service!UpdateErrors(c, ForeignKeys(c))
      BY <1>4, <1>5, UpdateErrorsOf DEF Found
    <2> QED BY <1>1, <1>2, <1>3, <2>1, <2>2, UpdateErrorRefines
  <1>6. CASE Found(c)
    <2> DEFINE row == rows[t][q.id]
    <2>1. row \in Row(t) /\ row # NoRow
      BY <1>2, <1>6, LiveType DEF Found, Live, TypeOK
    <2>2. Updated(t, row, q.body) = row
      BY <1>4, <2>1 DEF Updated, Row
    <2>3. WriteBreaks(ForeignKeys(c), rows, t, q.id, row, {}) = "nothing"
      BY DEF WriteBreaks, NotNullBroken, UniqueBroken, ReferenceBroken
    <2>4. Service!UpdateErrors(c, ForeignKeys(c)) = {}
      BY <1>4, <1>6, <2>2, <2>3, UpdateErrorsOf DEF Found
    <2>5. Service!Reply(c, Service!OneRow(200, q.id, row))
      <3>1. Reply(c, OneRow(200, q.id, row))
        BY <1>6 DEF Reselect, Returns, FoundRow
      <3>2. Service!OneRow(200, q.id, row) = OneRow(200, q.id, row)
        BY SameAnswers
      <3> QED BY <3>1, <3>2, SeenStep DEF Reply, Service!Reply, Seen
    <2>6. rows' = Service!Written(rows, t, q.id, row)
      BY <1>1, <1>2, WrittenSame, SameRows DEF TypeOK
    <2>7. Service!Effect(c, t, q.id, Service!Updated(t, row, q.body), 200)
      <3>1. Service!Updated(t, row, q.body) = row
        BY <2>2, SameRows
      <3>2. ~(row = NoRow)
        BY <2>1
      <3> QED BY <2>5, <2>6, <3>1, <3>2 DEF Service!Effect, Service!Reply
    <2> QED BY <1>1, <1>2, <1>3, <2>4, <2>7 DEF Service!Update, Service!Pending, Seen, Checks
  <1> QED BY <1>5, <1>6

\* An error answer that leaves everything else alone.
Refuses(c, code) ==
  /\ Reply(c, Error(code))
  /\ UNCHANGED <<rows, seq, req, total>>

LEMMA InsertRefines ==
  ASSUME TypeOK, PlaceOK, NEW c \in Clients, Insert(c)
  PROVE  Service!Create(c) \/ Stutters
  <1> DEFINE q == req[c]
             t == q.table
             data == Cleaned(t, q.body)
             row == Inserted(t, data)
             broken == WriteBreaks(ForeignKeys(c), rows, t, NextId(t), row, Columns[t])
  <1>1. pc[c] = "insert" /\ conn[c] # NoConn /\ UNCHANGED <<rows, seq, req, total>>
    BY DEF Insert, Runs
  <1>2. Seen[c] = "pending" /\ q.op = "create"
    BY <1>1, AtStatement, RequestAt DEF OpsAt, Statements, Writes
  <1>3. ForeignKeys(c) \in Checks
    BY <1>1, ChecksOf
  <1>4. /\ Service!Cleaned(t, q.body) = data /\ Service!Inserted(t, data) = row
        /\ Service!WriteBreaks(ForeignKeys(c), rows, t, NextId(t), row, Columns[t]) = broken
    BY SameCleaned, SameRows, SameChecks
  <1>5. CASE InsertFails(t, data)
    <2>1. Service!Reply(c, Service!Error(500))
      BY <1>5, ReplyRefines, SameAnswers DEF Insert, Returns
    <2> QED BY <1>1, <1>2, <1>3, <1>4, <1>5, <2>1
            DEF Service!Create, Service!Pending, Seen, Checks, InsertFails, NextId
  <1>6. CASE ~InsertFails(t, data) /\ broken = "nothing"
    <2>1. Goto(c, "commit") /\ UNCHANGED resp
      BY <1>6 DEF Insert, Write
    <2>2. Seen' = [Seen EXCEPT ![c] = "pending"]
      BY <2>1, SeenStep
    <2> QED BY <1>1, <1>2, <2>1, <2>2 DEF Stutters, Seen
  <1>7. CASE ~InsertFails(t, data) /\ broken # "nothing"
    <2>1. Reply(c, Error(ConstraintStatus("create", broken)))
      BY <1>2, <1>7 DEF Insert, Write, Returns
    <2>2. Service!Error(Service!ConstraintStatus("create", broken))
            = Error(ConstraintStatus("create", broken))
      BY SameAnswers, SameRequests
    <2>3. Service!Reply(c, Service!Error(Service!ConstraintStatus("create", broken)))
      BY <2>1, <2>2, SeenStep DEF Reply, Service!Reply, Seen
    <2> DEFINE check == Service!WriteBreaks(ForeignKeys(c), rows, t, seq[t] + 1,
                                            Service!Inserted(t, Service!Cleaned(t, q.body)),
                                            Columns[t])
    <2>4. ~(DOMAIN Service!Cleaned(t, q.body) = {} \/ seq[t] + 1 > MaxId)
      BY <1>4, <1>7 DEF InsertFails, NextId
    <2>5. check = broken
      BY <1>4 DEF NextId
    <2>6. check # "nothing"
      BY <1>7, <2>5
    <2>7. Service!Reply(c, Service!Error(Service!ConstraintStatus("create", check)))
      BY <2>3, <2>5 DEF Service!Reply
    <2>8. Service!Pending(c, "create") /\ UNCHANGED <<rows, seq, req, total>>
      BY <1>1, <1>2 DEF Service!Pending, Seen
    <2> HIDE DEF broken
    <2> QED BY <1>3, <2>4, <2>6, <2>7, <2>8 DEF Service!Create, Service!Reply, Checks
  <1> QED BY <1>5, <1>6, <1>7

LEMMA UpdateRefines ==
  ASSUME TypeOK, PlaceOK, NEW c \in Clients, Update(c)
  PROVE  Service!Update(c) \/ Stutters
  <1> DEFINE q == req[c]
             t == q.table
             row == Updated(t, rows[t][q.id], q.body)
             broken == WriteBreaks(ForeignKeys(c), rows, t, q.id, row, DOMAIN q.body)
  <1>1. pc[c] = "update" /\ conn[c] # NoConn /\ UNCHANGED <<rows, seq, req, total>>
    BY DEF Update, Runs
  <1>2. Seen[c] = "pending" /\ q.op = "update"
    BY <1>1, AtStatement, RequestAt DEF OpsAt, Statements, Writes
  <1>3. ForeignKeys(c) \in Checks
    BY <1>1, ChecksOf
  <1>4. ~BadBody(q) /\ ~InvalidBody(q)
    BY <1>1, <1>2 DEF PlaceOK
  <1>5. CASE ~Found(c)
    <2>1. Reply(c, Error(500))
      BY <1>5 DEF Update, Returns
    <2>2. 500 \in Service!UpdateErrors(c, ForeignKeys(c))
      BY <1>4, <1>5, UpdateErrorsOf DEF Found
    <2> QED BY <1>1, <1>2, <1>3, <2>1, <2>2, UpdateErrorRefines
  <1>6. CASE Found(c) /\ broken = "nothing"
    <2>1. Goto(c, "commit") /\ UNCHANGED resp
      BY <1>6 DEF Update, Write
    <2>2. Seen' = [Seen EXCEPT ![c] = "pending"]
      BY <2>1, SeenStep
    <2> QED BY <1>1, <1>2, <2>1, <2>2 DEF Stutters, Seen
  <1>7. CASE Found(c) /\ broken # "nothing"
    <2> DEFINE code == ConstraintStatus("update", broken)
    <2>1. Reply(c, Error(code))
      BY <1>2, <1>7 DEF Update, Write, Returns
    <2>2. code \in Service!UpdateErrors(c, ForeignKeys(c))
      BY <1>4, <1>7, UpdateErrorsOf DEF Found
    <2>3. code \in {400, 409}
      BY DEF ConstraintStatus
    <2> HIDE DEF code
    <2> QED BY <1>1, <1>2, <1>3, <2>1, <2>2, <2>3, UpdateErrorRefines
  <1> QED BY <1>5, <1>6, <1>7

LEMMA DeleteRefines ==
  ASSUME TypeOK, PlaceOK, NEW c \in Clients, Delete(c)
  PROVE  Service!Delete(c) \/ Stutters
  <1> DEFINE q == req[c]
             broken == DeleteBreaks(ForeignKeys(c), rows, q.table, q.id)
  <1>1. pc[c] = "delete" /\ conn[c] # NoConn /\ UNCHANGED <<rows, seq, req, total>>
    BY DEF Delete, Runs
  <1>2. Seen[c] = "pending" /\ q.op = "delete"
    BY <1>1, AtStatement, RequestAt DEF OpsAt, Statements, Writes
  <1>3. ForeignKeys(c) \in Checks
    BY <1>1, ChecksOf
  <1>4. /\ Service!Live(rows, q.table) = Live(rows, q.table)
        /\ Service!DeleteBreaks(ForeignKeys(c), rows, q.table, q.id) = broken
    BY SameLive, SameChecks
  <1>5. CASE ~Found(c)
    <2>1. Service!Reply(c, Service!Error(404))
      BY <1>5, ReplyRefines, SameAnswers DEF Delete, Returns
    <2> QED BY <1>1, <1>2, <1>3, <1>4, <1>5, <2>1
            DEF Service!Delete, Service!Pending, Seen, Checks, Found
  <1>6. CASE Found(c) /\ broken = "nothing"
    <2>1. Goto(c, "commit") /\ UNCHANGED resp
      BY <1>6 DEF Delete, Write
    <2>2. Seen' = [Seen EXCEPT ![c] = "pending"]
      BY <2>1, SeenStep
    <2> QED BY <1>1, <1>2, <2>1, <2>2 DEF Stutters, Seen
  <1>7. CASE Found(c) /\ broken # "nothing"
    <2>1. ConstraintStatus("delete", broken) = 409
      BY <1>7 DEF DeleteBreaks, ConstraintStatus
    <2>2. Reply(c, Error(409))
      BY <1>2, <1>7, <2>1 DEF Delete, Write, Returns
    <2>3. Service!Reply(c, Service!Error(409))
      BY <2>2, ReplyRefines, SameAnswers
    <2> QED BY <1>1, <1>2, <1>3, <1>4, <1>7, <2>3
            DEF Service!Delete, Service!Pending, Seen, Checks, Found
  <1> QED BY <1>5, <1>6, <1>7

\* A write finds the lock taken only if there is a connection to hold it.
LEMMA BusyRefines ==
  ASSUME TypeOK, PoolSound, PlaceOK, NEW c \in Clients, Busy(c)
  PROVE  Service!Refuse(c)
  <1>1. /\ pc[c] \in Writes /\ conn[c] # NoConn
        /\ Reply(c, Error(500)) /\ UNCHANGED <<rows, seq, req, total>>
    BY DEF Busy, Runs, Returns
  <1>2. PICK d \in Clients : pc[d] = "commit"
    BY DEF Busy, Locked
  <1>3. conn[d] # NoConn /\ d # c /\ conn[d] # conn[c]
    BY <1>1, <1>2 DEF PlaceOK, PoolSound, Writes
  <1>4. Conns # {InitConn}
    BY <1>1, <1>3 DEF TypeOK
  <1>5. Seen[c] = "pending" /\ req[c].op \in {"create", "update", "delete"}
    BY <1>1, AtStatement, RequestAt DEF OpsAt, Statements, Writes
  <1>6. Service!Reply(c, Service!Error(500))
    BY <1>1, ReplyRefines, SameAnswers
  <1> QED BY <1>1, <1>4, <1>5, <1>6 DEF Service!Refuse, Seen

LEMMA CommitRefines ==
  ASSUME IInv, NEW c \in Clients, Commit(c)
  PROVE  Service!Create(c) \/ Service!Update(c) \/ Service!Delete(c)
  <1> DEFINE q == req[c]
             t == q.table
             w == staged[c]
             code == Success[q.op]
  <1>1. /\ TypeOK /\ PlaceOK /\ StagedOK
        /\ pc[c] = "commit" /\ conn[c] # NoConn /\ UNCHANGED <<req, total>>
    BY DEF IInv, Commit, PlaceOK
  <1>2. Seen[c] = "pending" /\ ForeignKeys(c) \in Checks
    BY <1>1, AtStatement, ChecksOf
  <1>3. /\ t \in Tables /\ w.id \in Ids
        /\ q.op \in {"create", "update", "delete"}
        /\ rows' = Service!Written(rows, t, w.id, w.row)
    BY CommittedWrite, SameRows
  <1>4. /\ Seen' = [Seen EXCEPT ![c] = "done"]
        /\ resp' = [resp EXCEPT ![c] = IF w.row = NoRow THEN Error(code)
                                       ELSE OneRow(code, w.id, w.row)]
    BY <1>1, SeenStep DEF Commit, Returns, Reply
  <1>5. Service!Effect(c, t, w.id, w.row, code)
    BY <1>3, <1>4, SameAnswers DEF Service!Effect, Service!Reply, Seen
  <1>6. CASE q.op = "create"
    <2>1. /\ w.id = seq[t] + 1 /\ seq' = [seq EXCEPT ![t] = w.id]
          /\ WriteBreaks(ForeignKeys(c), rows, t, w.id, w.row, Columns[t]) = "nothing"
      BY <1>6, CommittedWrite DEF Assigned
    <2> DEFINE row == Service!Inserted(t, Service!Cleaned(t, q.body))
    <2>2. w.row = row
      BY <1>1, <1>6, SameRows, SameCleaned DEF StagedOK
    <2>3. Service!WriteBreaks(ForeignKeys(c), rows, t, seq[t] + 1, row, Columns[t]) = "nothing"
      BY <2>1, <2>2, SameChecks
    <2>4. ~(DOMAIN Service!Cleaned(t, q.body) = {} \/ seq[t] + 1 > MaxId)
      BY <1>1, <1>6, SameCleaned DEF StagedOK, InsertFails, NextId
    <2>5. Service!Effect(c, t, seq[t] + 1, row, 201) /\ seq' = [seq EXCEPT ![t] = seq[t] + 1]
      BY <1>5, <1>6, <2>1, <2>2 DEF Success
    <2> QED BY <1>1, <1>2, <1>6, <2>3, <2>4, <2>5
            DEF Service!Create, Service!Pending, Seen, Checks
  <1>7. CASE q.op = "update"
    <2>1. /\ w.id = q.id /\ Found(c) /\ w.row = Updated(t, rows[t][q.id], q.body)
          /\ seq' = seq
          /\ WriteBreaks(ForeignKeys(c), rows, t, w.id, w.row, DOMAIN q.body) = "nothing"
      BY <1>1, <1>7, CommittedWrite DEF Assigned, StagedOK
    <2>2. ~BadBody(q) /\ ~InvalidBody(q)
      BY <1>1, <1>7 DEF PlaceOK
    <2>3. Service!UpdateErrors(c, ForeignKeys(c)) = {}
      BY <2>1, <2>2, UpdateErrorsOf DEF Found
    <2>4. w.row = Service!Updated(t, rows[t][q.id], q.body) /\ code = 200
      BY <1>7, <2>1, SameRows DEF Success
    <2> QED BY <1>1, <1>2, <1>5, <1>7, <2>1, <2>3, <2>4
            DEF Service!Update, Service!Pending, Seen, Checks
  <1>8. CASE q.op = "delete"
    <2>1. /\ w.id = q.id /\ Found(c) /\ w.row = NoRow /\ seq' = seq
          /\ DeleteBreaks(ForeignKeys(c), rows, t, q.id) = "nothing"
      BY <1>1, <1>8, CommittedWrite DEF StagedOK
    <2>2. /\ q.id \in Service!Live(rows, t)
          /\ Service!DeleteBreaks(ForeignKeys(c), rows, t, q.id) = "nothing"
          /\ code = 204
      BY <1>8, <2>1, SameLive, SameChecks DEF Found, Success
    <2> QED BY <1>1, <1>2, <1>5, <1>8, <2>1, <2>2
            DEF Service!Delete, Service!Pending, Seen, Checks
  <1> QED BY <1>3, <1>6, <1>7, <1>8

\* Taking a connection is no step of the service.
LEMMA AcquireStutters ==
  ASSUME NEW c \in Clients, Acquire(c)
  PROVE  Stutters
  BY DEF Acquire, AcquireFree, AcquireNew, Stutters, Seen

LEMMA StepRefines == IInv /\ [Next]_vars => [Service!Next]_Service!vars
  <1> SUFFICES ASSUME IInv, [Next]_vars, ~Stutters
               PROVE  Service!Next
    BY DEF Service!vars, Stutters, Seen
  <1>1. TypeOK /\ PlaceOK /\ PoolSound
    BY DEF IInv
  <1>2. ~UNCHANGED vars
    BY DEF vars, Stutters, Seen
  <1>3. PICK c \in Clients : (\E q \in Requests : Call(c, q)) \/ Acquire(c) \/ Step(c)
    BY <1>2 DEF Next
  <1>4. CASE \E q \in Requests : Call(c, q)
    BY <1>1, <1>4, CallRefines DEF Service!Next
  <1>5. CASE Acquire(c)
    BY <1>5, AcquireStutters
  <1>6. CASE Step(c)
    <2>1. CASE Count(c) \/ PageOf(c) \/ Select(c)
      BY <1>1, <2>1, CountRefines, PageRefines, SelectRefines DEF Service!Next
    <2>2. CASE Exists(c) \/ Reselect(c)
      BY <1>1, <2>2, ExistsRefines, ReselectRefines DEF Service!Next
    <2>3. CASE Insert(c) \/ Update(c) \/ Delete(c)
      BY <1>1, <2>3, InsertRefines, UpdateRefines, DeleteRefines DEF Service!Next
    <2>4. CASE Busy(c) \/ Commit(c) \/ Answer(c)
      BY <1>1, <2>4, BusyRefines, CommitRefines, AnswerRefines DEF Service!Next
    <2> QED BY <1>6, <2>1, <2>2, <2>3, <2>4 DEF Step
  <1> QED BY <1>3, <1>4, <1>5, <1>6

\* The handlers over the pool and SQLite implement the service that answers
\* every request from the contents at one instant.
THEOREM Implements == Spec => ServiceSpec
  <1> QED BY InitRefines, StepRefines, Invariance, PTL DEF Spec, ServiceSpec, Service!Spec
=============================================================================
