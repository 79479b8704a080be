-------------------------------- MODULE Crud --------------------------------
(***************************************************************************)
(* The CRUD handlers of package api (List, Get, Create, Update, Delete)    *)
(* running concurrently over package db, the database/sql connection pool  *)
(* and SQLite. net/http runs every request in a goroutine of its own, the  *)
(* handlers share nothing but the pool, and every statement takes a        *)
(* connection from the pool and gives it back before the next one: what    *)
(* another request does between two statements of a handler is visible to  *)
(* the second. A statement that writes holds SQLite's write lock until its *)
(* rows are closed, and it is then that the other connections see it.      *)
(*                                                                         *)
(* The database is :memory: with a pool of one connection or a file in WAL *)
(* mode with a larger pool: Conns tells which. InitDB ran its PRAGMAs on   *)
(* one connection, InitConn. A connection that the pool opens later does   *)
(* not enforce foreign keys, which is SQLite's default.                    *)
(***************************************************************************)
EXTENDS Requests

CONSTANTS
  Clients,   \* the clients, one request (one goroutine) at a time each
  Conns,     \* the connections that the pool may open (SetMaxOpenConns)
  InitConn,  \* the connection on which InitDB ran its PRAGMAs
  NoConn,    \* a client that holds no connection
  Seeded,    \* the contents that seeding leaves
  SeedRows,  \* the number of rows it gives every table (flag -rows)
  NoTotal,   \* a list whose total has not been read
  NoWrite    \* a client that has no uncommitted write

ASSUME PoolAssumption ==
  /\ InitConn \in Conns
  /\ NoConn \notin Conns

ASSUME SeedAssumption ==
  /\ Seeded \in Contents /\ UniqueIn(Seeded) /\ ReferencesIn(Seeded)
  /\ SeedRows \in 0..MaxId
  /\ \A t \in Tables : Live(Seeded, t) = 1..SeedRows

StagedWrites == [id : Ids, row : AnyRow]

ASSUME MarkAssumption ==
  /\ NoTotal \notin 0..MaxId
  /\ NoWrite \notin StagedWrites

VARIABLES
  rows,    \* the committed contents of the tables
  seq,     \* seq[t]: sqlite_sequence, the largest id table t has given out
  pc,      \* pc[c]: what the goroutine of client c does next
  req,     \* req[c]: the request of client c
  resp,    \* resp[c]: its response
  total,   \* total[c]: what the COUNT of a list of c returned
  conn,    \* conn[c]: the connection that client c holds
  open,    \* the connections that the pool has opened
  staged   \* staged[c]: the write of c that is not committed

vars == <<rows, seq, pc, req, resp, total, conn, open, staged>>

Reads == {"count", "page", "select", "exists", "reselect"}
Writes == {"insert", "update", "delete"}
Statements == Reads \cup Writes

FirstStatement ==
  [list |-> "count", get |-> "select", create |-> "insert", update |-> "exists",
   delete |-> "delete"]

Init ==
  /\ rows = Seeded
  /\ seq = [t \in Tables |-> SeedRows]
  /\ pc = [c \in Clients |-> "idle"]
  /\ req = [c \in Clients |-> NoRequest]
  /\ resp = [c \in Clients |-> NoAnswer]
  /\ total = [c \in Clients |-> NoTotal]
  /\ conn = [c \in Clients |-> NoConn]
  /\ open = {InitConn}
  /\ staged = [c \in Clients |-> NoWrite]

-----------------------------------------------------------------------------
Release(c) == conn' = [conn EXCEPT ![c] = NoConn]
Goto(c, label) == pc' = [pc EXCEPT ![c] = label]

Reply(c, answer) ==
  /\ Goto(c, "answer")
  /\ resp' = [resp EXCEPT ![c] = answer]

\* Client c is about to run the statement on the connection it holds.
Runs(c, statement) == pc[c] = statement /\ conn[c] # NoConn

\* Mutated form: the rows are not closed.
ReturnsHolding(c, answer) == Reply(c, answer) /\ UNCHANGED conn

\* A statement that returns frees its connection (QueryRow.Scan, rows.Close).
Returns(c, answer) == Reply(c, answer) /\ Release(c)
ThenRuns(c, statement) == Goto(c, statement) /\ Release(c) /\ UNCHANGED resp

\* Mutated form: statements that write do not exclude each other.
NeverLocked == FALSE

Locked == \E c \in Clients : pc[c] = "commit"

\* Mutated form: InitDB does not run the PRAGMA.
ForeignKeysOff(c) == "off"

\* PRAGMA foreign_keys of the connection that c holds.
ForeignKeys(c) == IF conn[c] = InitConn THEN "on" ELSE "off"

-----------------------------------------------------------------------------
(* The connection pool *)

AcquireFree(c) ==
  /\ pc[c] \in Statements /\ conn[c] = NoConn
  /\ \E k \in open :
       /\ \A d \in Clients : conn[d] # k
       /\ conn' = [conn EXCEPT ![c] = k]
  /\ UNCHANGED <<rows, seq, pc, req, resp, total, open, staged>>

\* Only when no open connection is free does the pool open another.
AcquireNew(c) ==
  /\ pc[c] \in Statements /\ conn[c] = NoConn
  /\ \A k \in open : \E d \in Clients : conn[d] = k
  /\ \E k \in Conns \ open :
       /\ open' = open \cup {k}
       /\ conn' = [conn EXCEPT ![c] = k]
  /\ UNCHANGED <<rows, seq, pc, req, resp, total, staged>>

-----------------------------------------------------------------------------
(* A request arrives; its answer is sent *)

Call(c, q) ==
  /\ pc[c] = "idle"
  /\ req' = [req EXCEPT ![c] = q]
  /\ IF EarlyRefusal(q) = {}
     THEN Goto(c, FirstStatement[q.op]) /\ UNCHANGED resp
     ELSE \E code \in EarlyRefusal(q) : Reply(c, Error(code))
  /\ UNCHANGED <<rows, seq, total, conn, open, staged>>

Answer(c) ==
  /\ pc[c] = "answer"
  /\ Goto(c, "idle")
  /\ req' = [req EXCEPT ![c] = NoRequest]
  /\ resp' = [resp EXCEPT ![c] = NoAnswer]
  /\ UNCHANGED <<rows, seq, total, conn, open, staged>>

-----------------------------------------------------------------------------
(* Statements that read *)

Count(c) ==
  /\ Runs(c, "count")
  /\ total' = [total EXCEPT ![c] = Cardinality(Live(rows, req[c].table))]
  /\ ThenRuns(c, "page")
  /\ UNCHANGED <<rows, seq, req, open, staged>>

PageOf(c) ==
  LET q == req[c] IN
  /\ Runs(c, "page")
  /\ \E page \in Pages(rows, q) : Returns(c, Answered(200, page, total[c]))
  /\ total' = [total EXCEPT ![c] = NoTotal]
  /\ UNCHANGED <<rows, seq, req, open, staged>>

Found(c) == req[c].id \in Live(rows, req[c].table)
FoundRow(c) == OneRow(200, req[c].id, rows[req[c].table][req[c].id])

\* Mutated form: the row is not compared with nil.
SelectUnchecked(c) ==
  /\ Runs(c, "select")
  /\ Returns(c, FoundRow(c))
  /\ UNCHANGED <<rows, seq, req, total, open, staged>>

Select(c) ==
  /\ Runs(c, "select")
  /\ Returns(c, IF Found(c) THEN FoundRow(c) ELSE Error(404))
  /\ UNCHANGED <<rows, seq, req, total, open, staged>>

\* Update looks the row up before it reads and checks the body. A body that
\* names no column of the table makes UpdateReturning read the row again.
Exists(c) ==
  LET q == req[c] IN
  /\ Runs(c, "exists")
  /\ IF ~Found(c) THEN Returns(c, Error(404))
     ELSE IF BadBody(q) THEN Returns(c, Error(400))
     ELSE IF InvalidBody(q) THEN Returns(c, Error(422))
     ELSE ThenRuns(c, IF DOMAIN q.body = {} THEN "reselect" ELSE "update")
  /\ UNCHANGED <<rows, seq, req, total, open, staged>>

\* Mutated form: the row is not compared with nil.
ReselectUnchecked(c) ==
  /\ Runs(c, "reselect")
  /\ Returns(c, FoundRow(c))
  /\ UNCHANGED <<rows, seq, req, total, open, staged>>

Reselect(c) ==
  /\ Runs(c, "reselect")
  /\ Returns(c, IF Found(c) THEN FoundRow(c) ELSE Error(500))
  /\ UNCHANGED <<rows, seq, req, total, open, staged>>

-----------------------------------------------------------------------------
(* Statements that write *)

\* A statement that breaks a constraint is answered with its status. One that
\* breaks none has written row i, and keeps its connection and the lock.
Write(c, i, row, broken) ==
  /\ IF broken = "nothing"
     THEN /\ Goto(c, "commit")
          /\ staged' = [staged EXCEPT ![c] = [id |-> i, row |-> row]]
          /\ UNCHANGED <<resp, conn>>
     ELSE /\ Returns(c, Error(ConstraintStatus(req[c].op, broken)))
          /\ UNCHANGED staged

\* Mutated form: the id column is not AUTOINCREMENT.
NextFreeId(t) ==
  1 + Cardinality({i \in Ids : \E j \in Live(rows, t) : i <= j})

NextId(t) == seq[t] + 1

\* "INSERT INTO t () VALUES ()" does not parse; an exhausted AUTOINCREMENT
\* answers "database or disk is full". Neither is a constraint error.
InsertFails(t, data) == DOMAIN data = {} \/ NextId(t) > MaxId

Insert(c) ==
  LET t == req[c].table
      data == Cleaned(t, req[c].body)
      row == Inserted(t, data)
  IN /\ Runs(c, "insert") /\ ~Locked
     /\ IF InsertFails(t, data)
        THEN Returns(c, Error(500)) /\ UNCHANGED staged
        ELSE Write(c, NextId(t), row,
                   WriteBreaks(ForeignKeys(c), rows, t, NextId(t), row, Columns[t]))
     /\ UNCHANGED <<rows, seq, req, total, open>>

\* UPDATE ... RETURNING of a row that is gone returns no row.
Update(c) ==
  LET t == req[c].table
      i == req[c].id
      row == Updated(t, rows[t][i], req[c].body)
  IN /\ Runs(c, "update") /\ ~Locked
     /\ IF ~Found(c)
        THEN Returns(c, Error(500)) /\ UNCHANGED staged
        ELSE Write(c, i, row,
                   WriteBreaks(ForeignKeys(c), rows, t, i, row, DOMAIN req[c].body))
     /\ UNCHANGED <<rows, seq, req, total, open>>

\* Mutated form: RowsAffected is not looked at.
DeleteUnchecked(c) ==
  LET t == req[c].table
      i == req[c].id
  IN /\ Runs(c, "delete") /\ ~Locked
     /\ IF ~Found(c)
        THEN Returns(c, Error(204)) /\ UNCHANGED staged
        ELSE Write(c, i, NoRow, DeleteBreaks(ForeignKeys(c), rows, t, i))
     /\ UNCHANGED <<rows, seq, req, total, open>>

Delete(c) ==
  LET t == req[c].table
      i == req[c].id
  IN /\ Runs(c, "delete") /\ ~Locked
     /\ IF ~Found(c)
        THEN Returns(c, Error(404)) /\ UNCHANGED staged
        ELSE Write(c, i, NoRow, DeleteBreaks(ForeignKeys(c), rows, t, i))
     /\ UNCHANGED <<rows, seq, req, total, open>>

\* SQLITE_BUSY: the write lock did not come free in time for this connection
\* (busy_timeout on InitConn, the default of the driver on the others).
Busy(c) ==
  /\ \E statement \in Writes : Runs(c, statement)
  /\ Locked
  /\ Returns(c, Error(500))
  /\ UNCHANGED <<rows, seq, req, total, open, staged>>

Success == [create |-> 201, update |-> 200, delete |-> 204]

\* The statement is reset: its write is committed and the lock is free.
Commit(c) ==
  LET t == req[c].table
      i == staged[c].id
      row == staged[c].row
      code == Success[req[c].op]
  IN /\ pc[c] = "commit"
     /\ rows' = Written(rows, t, i, row)
     /\ seq' = IF req[c].op = "create" THEN [seq EXCEPT ![t] = i] ELSE seq
     /\ Returns(c, IF row = NoRow THEN Error(code) ELSE OneRow(code, i, row))
     /\ staged' = [staged EXCEPT ![c] = NoWrite]
     /\ UNCHANGED <<req, total, open>>

-----------------------------------------------------------------------------
Acquire(c) == AcquireFree(c) \/ AcquireNew(c)

Step(c) ==
  \/ Count(c) \/ PageOf(c) \/ Select(c) \/ Exists(c) \/ Reselect(c)
  \/ Insert(c) \/ Update(c) \/ Delete(c) \/ Busy(c) \/ Commit(c)
  \/ Answer(c)

Next ==
  \E c \in Clients :
    \/ \E q \in Requests : Call(c, q)
    \/ Acquire(c)
    \/ Step(c)

Spec == Init /\ [][Next]_vars

\* A goroutine that can go on does. One that waits for a connection gets one
\* if there is one time and again: the pool hands a freed connection to a
\* waiter picked at random. Nothing forces a client to send a request.
Fairness == \A c \in Clients : WF_vars(Step(c)) /\ SF_vars(Acquire(c))

FairSpec == Spec /\ Fairness

-----------------------------------------------------------------------------
(* Correctness *)

TypeOK ==
  /\ rows \in Contents
  /\ seq \in [Tables -> 0..MaxId]
  /\ pc \in [Clients -> Statements \cup {"idle", "commit", "answer"}]
  /\ req \in [Clients -> Requests \cup {NoRequest}]
  /\ \A c \in Clients : pc[c] = "idle" <=> req[c] = NoRequest
  /\ DOMAIN resp = Clients
  /\ \A c \in Clients :
       IF pc[c] = "answer" THEN IsAnswer(resp[c]) ELSE resp[c] = NoAnswer
  /\ total \in [Clients -> 0..MaxId \cup {NoTotal}]
  /\ conn \in [Clients -> Conns \cup {NoConn}]
  /\ InitConn \in open /\ open \subseteq Conns
  /\ staged \in [Clients -> StagedWrites \cup {NoWrite}]

\* Every foreign key value is NULL or the id of a row that exists, whatever
\* creates, updates and deletes run at the same time: the REFERENCES clauses
\* of CreateTable (db.go:73-76).
RefIntegrity == ReferencesIn(rows)

\* No two rows agree on a unique column (db.go:69-71), although the handlers
\* check nothing before they write and leave racing duplicates to SQLite.
Uniqueness == UniqueIn(rows)

Assigned(q) == IF q.op = "create" THEN Columns[q.table] ELSE DOMAIN q.body

\* A write that SQLite has accepted stays acceptable until it is committed:
\* no other request invalidates what its checks have read.
AcceptedWritesStayValid ==
  \A c \in Clients : pc[c] = "commit" =>
    LET q == req[c]
        w == staged[c]
    IN IF q.op = "delete"
       THEN /\ w.id \in Live(rows, q.table)
            /\ DeleteBreaks(ForeignKeys(c), rows, q.table, w.id) = "nothing"
       ELSE /\ q.op = "create" <=> w.id \notin Live(rows, q.table)
            /\ WriteBreaks(ForeignKeys(c), rows, q.table, w.id, w.row, Assigned(q)) = "nothing"

\* A connection serves one client at a time, and a client whose handler is
\* done with the database (or idle) has given its connection back.
PoolSound ==
  \A c \in Clients :
    /\ conn[c] # NoConn => conn[c] \in open
    /\ pc[c] \in {"idle", "answer"} => conn[c] = NoConn
    /\ \A d \in Clients \ {c} : conn[c] # NoConn => conn[c] # conn[d]

\* The validators keep NULL out of required columns before SQLite has to:
\* no write is ever refused by NOT NULL ("constraint violation").
NotNullShielded ==
  \A c \in Clients :
    LET q == req[c] IN
    /\ pc[c] = "insert" =>
         LET data == Cleaned(q.table, q.body)
         IN ~NotNullBroken(q.table, Inserted(q.table, data), Columns[q.table])
    /\ pc[c] = "update" /\ Found(c) =>
         ~NotNullBroken(q.table, Updated(q.table, rows[q.table][q.id], q.body),
                        DOMAIN q.body)

\* An id that a table has given out and that has no row never has one again:
\* the id of a deleted row never comes to name another (AUTOINCREMENT).
DeletedStaysDeleted ==
  [][\A t \in Tables : \A i \in 1..seq[t] : rows[t][i] = NoRow => rows'[t][i] = NoRow]_vars

\* Concurrent updates of one row merge column by column: a value changes only
\* when an update that names the column is answered, to what its body says.
\* Update read the row earlier, and nothing it read then is written back.
NoLostUpdate ==
  [][\A t \in Tables : \A i \in Live(rows, t) \cap Live(rows', t) : \A k \in Columns[t] :
       rows'[t][i][k] # rows[t][i][k] =>
         \E c \in Clients :
           /\ resp[c] = NoAnswer /\ resp'[c] # NoAnswer /\ resp'[c].code = 200
           /\ req[c].op = "update" /\ req[c].table = t /\ req[c].id = i
           /\ k \in DOMAIN req[c].body /\ req[c].body[k] = rows'[t][i][k]]_vars

\* The handlers, the pool and SQLite together are the atomic service.
Service == INSTANCE CrudService WITH
  st <- [c \in Clients |-> IF pc[c] = "idle" THEN "idle"
                           ELSE IF pc[c] = "answer" THEN "done" ELSE "pending"],
  Enforcements <- IF Conns = {InitConn} THEN {"on"} ELSE {"on", "off"},
  MayRefuse <- Conns # {InitConn}

ServiceSpec == Service!Spec

\* Every request is answered: no handler waits for ever for a connection, as
\* it would with a pool of one if a statement kept its connection.
EveryRequestAnswered == \A c \in Clients : pc[c] # "idle" ~> pc[c] = "answer"

-----------------------------------------------------------------------------
(* The inductive invariant *)

OpsAt ==
  [count |-> {"list"}, page |-> {"list"}, select |-> {"get"},
   exists |-> {"update"}, reselect |-> {"update"}, update |-> {"update"},
   insert |-> {"create"}, delete |-> {"delete"}, commit |-> {"create", "update", "delete"}]

\* What a handler has established about its request when it is at a label.
PlaceOK ==
  \A c \in Clients :
    /\ pc[c] \in Statements \cup {"commit"} =>
         /\ EarlyRefusal(req[c]) = {}
         /\ req[c].op \in OpsAt[pc[c]]
    /\ pc[c] \in {"reselect", "update", "commit"} /\ req[c].op = "update" =>
         ~BadBody(req[c]) /\ ~InvalidBody(req[c])
    /\ pc[c] = "reselect" => DOMAIN req[c].body = {}
    /\ pc[c] = "page" <=> total[c] # NoTotal
    /\ pc[c] = "commit" => conn[c] # NoConn
    /\ pc[c] = "commit" <=> staged[c] # NoWrite

\* SQLite has one write lock.
OneWriter == \A c, d \in Clients : pc[c] = "commit" /\ pc[d] = "commit" => c = d

IdsGiven == \A t \in Tables : Live(rows, t) \subseteq 1..seq[t]

\* An uncommitted write is the one its request asks of the contents as they are.
StagedOK ==
  \A c \in Clients : pc[c] = "commit" =>
    LET q == req[c]
        w == staged[c]
    IN /\ q.op = "create" =>
            /\ w.id = NextId(q.table) /\ ~InsertFails(q.table, Cleaned(q.table, q.body))
            /\ w.row = Inserted(q.table, Cleaned(q.table, q.body))
       /\ q.op = "update" =>
            /\ w.id = q.id /\ Found(c)
            /\ w.row = Updated(q.table, rows[q.table][q.id], q.body)
       /\ q.op = "delete" => w.id = q.id /\ Found(c) /\ w.row = NoRow

IInv ==
  /\ TypeOK /\ PoolSound /\ PlaceOK /\ OneWriter
  /\ IdsGiven /\ StagedOK /\ AcceptedWritesStayValid /\ Uniqueness

-----------------------------------------------------------------------------
(* What the README promises and the code does not keep *)

\* README.md:574: a row that other rows refer to is not deleted (409).
ReferencedRowsAreKept ==
  [][\A t \in Tables : \A i \in Live(rows, t) :
       Referenced(rows, t, i) => i \in Live(rows', t)]_vars
=============================================================================
