---------------------------- MODULE CrudService -----------------------------
(***************************************************************************)
(* What the CRUD API promises a client, without connections, statements or *)
(* transactions: a request that is called is answered once, the answer is  *)
(* computed from the contents at one instant between the two, and a write  *)
(* takes effect at that same instant or not at all. Two things keep it     *)
(* from being simpler. A list reads the total and the page at two instants.*)
(* An update of a row that is not there may be told 500 instead of 404.    *)
(***************************************************************************)
EXTENDS Requests

CONSTANTS
  Clients,      \* the clients, one request at a time each
  Seeded,       \* the contents that seeding leaves
  SeedRows,     \* the number of rows it gives every table (flag -rows)
  NoTotal,      \* a list whose total has not been read
  Enforcements, \* the foreign_keys pragmas a write may run under: "on", "off"
  MayRefuse     \* whether a write may be refused for lack of the write lock

VARIABLES
  rows,   \* the contents of the tables
  seq,    \* seq[t]: the largest id table t has given out (AUTOINCREMENT)
  st,     \* st[c]: "idle", "pending" or "done"
  req,    \* req[c]: the request of client c
  resp,   \* resp[c]: its response
  total   \* total[c]: the total a list of c has read

vars == <<rows, seq, st, req, resp, total>>

Init ==
  /\ rows = Seeded
  /\ seq = [t \in Tables |-> SeedRows]
  /\ st = [c \in Clients |-> "idle"]
  /\ req = [c \in Clients |-> NoRequest]
  /\ resp = [c \in Clients |-> NoAnswer]
  /\ total = [c \in Clients |-> NoTotal]

-----------------------------------------------------------------------------
Reply(c, answer) ==
  /\ st' = [st EXCEPT ![c] = "done"]
  /\ resp' = [resp EXCEPT ![c] = answer]

Pending(c, op) == st[c] = "pending" /\ req[c].op = op

Accept(c, q) ==
  /\ st[c] = "idle"
  /\ req' = [req EXCEPT ![c] = q]
  /\ IF EarlyRefusal(q) = {}
     THEN st' = [st EXCEPT ![c] = "pending"] /\ UNCHANGED resp
     ELSE \E code \in EarlyRefusal(q) : Reply(c, Error(code))
  /\ UNCHANGED <<rows, seq, total>>

CountRead(c) ==
  /\ Pending(c, "list") /\ total[c] = NoTotal
  /\ total' = [total EXCEPT ![c] = Cardinality(Live(rows, req[c].table))]
  /\ UNCHANGED <<rows, seq, st, req, resp>>

PageRead(c) ==
  LET q == req[c] IN
  /\ Pending(c, "list") /\ total[c] # NoTotal
  /\ \E page \in Pages(rows, q) : Reply(c, Answered(200, page, total[c]))
  /\ total' = [total EXCEPT ![c] = NoTotal]
  /\ UNCHANGED <<rows, seq, req>>

Get(c) ==
  LET q == req[c] IN
  /\ Pending(c, "get")
  /\ Reply(c, IF q.id \in Live(rows, q.table)
              THEN OneRow(200, q.id, rows[q.table][q.id])
              ELSE Error(404))
  /\ UNCHANGED <<rows, seq, req, total>>

\* The write of row i of table t takes effect and is answered.
Effect(c, t, i, row, code) ==
  /\ rows' = Written(rows, t, i, row)
  /\ Reply(c, IF row = NoRow THEN Error(code) ELSE OneRow(code, i, row))

Create(c) ==
  LET q == req[c]
      data == Cleaned(q.table, q.body)
      i == seq[q.table] + 1
      row == Inserted(q.table, data)
  IN /\ Pending(c, "create")
     /\ \E fk \in Enforcements :
          IF DOMAIN data = {} \/ i > MaxId
          THEN Reply(c, Error(500)) /\ UNCHANGED <<rows, seq>>
          ELSE LET broken == WriteBreaks(fk, rows, q.table, i, row, Columns[q.table]) IN
               IF broken = "nothing"
               THEN /\ Effect(c, q.table, i, row, 201)
                    /\ seq' = [seq EXCEPT ![q.table] = i]
               ELSE /\ Reply(c, Error(ConstraintStatus("create", broken)))
                    /\ UNCHANGED <<rows, seq>>
     /\ UNCHANGED <<req, total>>

\* The answers to an update that leave the contents alone, foreign keys being
\* checked or not.
UpdateErrors(c, fk) ==
  LET q == req[c] IN
  IF q.id \notin Live(rows, q.table)
  THEN {404} \cup (IF BadBody(q) \/ InvalidBody(q) THEN {} ELSE {500})
  ELSE IF BadBody(q) THEN {400}
  ELSE IF InvalidBody(q) THEN {422}
  ELSE LET row == Updated(q.table, rows[q.table][q.id], q.body)
           broken == WriteBreaks(fk, rows, q.table, q.id, row, DOMAIN q.body)
       IN IF broken = "nothing" THEN {} ELSE {ConstraintStatus("update", broken)}

Update(c) ==
  LET q == req[c] IN
  /\ Pending(c, "update")
  /\ \E fk \in Enforcements :
       IF UpdateErrors(c, fk) = {}
       THEN Effect(c, q.table, q.id, Updated(q.table, rows[q.table][q.id], q.body), 200)
       ELSE /\ \E code \in UpdateErrors(c, fk) : Reply(c, Error(code))
            /\ UNCHANGED rows
  /\ UNCHANGED <<seq, req, total>>

Delete(c) ==
  LET q == req[c] IN
  /\ Pending(c, "delete")
  /\ \E fk \in Enforcements :
       IF q.id \notin Live(rows, q.table)
       THEN Reply(c, Error(404)) /\ UNCHANGED rows
       ELSE IF DeleteBreaks(fk, rows, q.table, q.id) = "nothing"
       THEN Effect(c, q.table, q.id, NoRow, 204)
       ELSE Reply(c, Error(409)) /\ UNCHANGED rows
  /\ UNCHANGED <<seq, req, total>>

\* A write that could not have the write lock changes nothing.
Refuse(c) ==
  /\ MayRefuse
  /\ st[c] = "pending" /\ req[c].op \in {"create", "update", "delete"}
  /\ Reply(c, Error(500))
  /\ UNCHANGED <<rows, seq, req, total>>

Return(c) ==
  /\ st[c] = "done"
  /\ st' = [st EXCEPT ![c] = "idle"]
  /\ req' = [req EXCEPT ![c] = NoRequest]
  /\ resp' = [resp EXCEPT ![c] = NoAnswer]
  /\ UNCHANGED <<rows, seq, total>>

Next ==
  \E c \in Clients :
    \/ \E q \in Requests : Accept(c, q)
    \/ CountRead(c) \/ PageRead(c) \/ Get(c)
    \/ Create(c) \/ Update(c) \/ Delete(c) \/ Refuse(c)
    \/ Return(c)

Spec == Init /\ [][Next]_vars
=============================================================================
