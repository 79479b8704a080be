------------------------------ MODULE Startup -------------------------------
(***************************************************************************)
(* The life of the program over its database: main opens it, creates the   *)
(* tables, asks TablesEmpty, seeds the tables one after the other (package *)
(* seed) and serves. Seed inserts the rows of a table in transactions of   *)
(* at most BatchSize rows, so that a crash or an error keeps the rows that *)
(* are committed by then; with -db the next start finds them.              *)
(*                                                                         *)
(* Seeding runs alone and on the connection that enforces foreign keys.    *)
(* The requests that are served are reduced to what they commit (Crud has  *)
(* them in detail), foreign keys enforced.                                 *)
(***************************************************************************)
EXTENDS Store, Dependencies

CONSTANTS
  Persistent,  \* whether -db names a file
  RowCounts,   \* what the flag -rows may be
  BatchSize,   \* batchSize: the inserts of one transaction
  Generated,   \* Generated[t][c]: the values generateValue can return
  Writable,    \* Writable[t]: the rows that requests write into table t
  MaxAttempts, \* maxUniqueAttempts: the draws of a used value that are made good
  MaxStarts,   \* bound: how often the program is started
  NoTx         \* no transaction is open

States == [rows : Contents, seq : [Tables -> 0..MaxId]]

ASSUME StartupAssumption ==
  /\ Persistent \in BOOLEAN
  /\ RowCounts \subseteq Int /\ BatchSize \in Nat \ {0} /\ MaxAttempts \in Nat /\ MaxStarts \in Nat
  /\ \A t \in Tables : \A c \in Columns[t] : Generated[t][c] \subseteq Values
  /\ \A t \in Tables : Writable[t] \subseteq Row(t)
  /\ Ids \subseteq Values
  /\ NoTx \notin States

VARIABLES
  db,          \* the committed database: its rows, and seq as in Crud
  tx,          \* the database as the open transaction of Seed sees it
  pc,          \* "down", "check", "begin", "insert", "batch" or "serve"
  order,       \* the tables still to be seeded
  given,       \* parentIDs: given[t] are the ids this run has inserted into t
  attempts,    \* attempts[p]: the used values drawn for the unique column p of the row
  rowPerTable, \* the flag -rows of this start
  starts       \* how often the program was started

vars == <<db, tx, pc, order, given, attempts, rowPerTable, starts>>

Blank ==
  [rows |-> [t \in Tables |-> [i \in Ids |-> NoRow]], seq |-> [t \in Tables |-> 0]]

\* Mutated form: the id column is not AUTOINCREMENT.
FreeId(state, t) == 1 + Cardinality({i \in Ids : \E j \in Live(state.rows, t) : i <= j})

\* The id the next INSERT into t gets.
NextId(state, t) == state.seq[t] + 1

NoneGiven == [t \in Tables |-> {}]

NoAttempts == [p \in Unique |-> 0]

Init ==
  /\ db = Blank
  /\ tx = NoTx
  /\ pc = "down"
  /\ order = <<>>
  /\ given = NoneGiven
  /\ attempts = NoAttempts
  /\ rowPerTable = 0
  /\ starts = 0

-----------------------------------------------------------------------------
(* Start and end of the process *)

\* Mutated form: the tables are created anew.
StartAnew ==
  /\ pc = "down" /\ starts < MaxStarts
  /\ pc' = "check"
  /\ db' = Blank
  /\ rowPerTable' \in RowCounts
  /\ starts' = starts + 1
  /\ UNCHANGED <<tx, order, given, attempts>>

\* InitDB and CreateTable (IF NOT EXISTS) leave existing rows alone.
Start ==
  /\ pc = "down" /\ starts < MaxStarts
  /\ pc' = "check"
  /\ rowPerTable' \in RowCounts
  /\ starts' = starts + 1
  /\ UNCHANGED <<db, tx, order, given, attempts>>

\* Mutated form: the transaction is left open.
ExitUnfinished ==
  /\ pc' = "down"
  /\ db' = IF Persistent THEN db ELSE Blank
  /\ order' = <<>>
  /\ given' = NoneGiven
  /\ attempts' = NoAttempts
  /\ rowPerTable' = 0
  /\ UNCHANGED <<tx, starts>>

\* The process ends: the open transaction is rolled back (the deferred
\* Rollback, or SQLite's journal after a crash), :memory: is gone.
Exit ==
  /\ pc' = "down"
  /\ db' = IF Persistent THEN db ELSE Blank
  /\ tx' = NoTx
  /\ order' = <<>>
  /\ given' = NoneGiven
  /\ attempts' = NoAttempts
  /\ rowPerTable' = 0
  /\ UNCHANGED starts

\* A signal, a crash, a power cut: at any moment.
Crash == pc # "down" /\ Exit

-----------------------------------------------------------------------------
(* TablesEmpty and Seed *)

\* Mutated form: the first empty table decides.
SomeTableEmpty == \E t \in Tables : Live(db.rows, t) = {}

TablesEmpty == \A t \in Tables : Live(db.rows, t) = {}

\* Mutated form: the tables in the order of the schema file, or any other.
Unordered == Injection(1..Cardinality(Tables), Tables)

\* topologicalSort answers with some order of the dependencies
\* (TopologicalSort), or with an error, which ends the program.
Orders ==
  {o \in Injection(1..Cardinality(Tables), Tables) : DependencyOrder(Tables, ForeignKey, o)}

Check ==
  /\ pc = "check"
  /\ IF rowPerTable <= 0 \/ ~TablesEmpty
     THEN pc' = "serve" /\ UNCHANGED <<db, tx, order, given, attempts, rowPerTable, starts>>
     ELSE IF Orders = {} THEN Exit
     ELSE /\ order' \in Orders
          /\ pc' = "begin"
          /\ UNCHANGED <<db, tx, given, attempts, rowPerTable, starts>>

Begin ==
  /\ pc = "begin"
  /\ IF order = <<>>
     THEN pc' = "serve" /\ UNCHANGED tx
     ELSE pc' = "insert" /\ tx' = db
  /\ UNCHANGED <<db, order, given, attempts, rowPerTable, starts>>

\* uniqueSets: what this run has put into column c of table t.
Used(t, c) == {tx.rows[t][i][c] : i \in given[t]}

GeneratedUnique(t, c) == <<t, c>> \in Unique /\ <<t, c>> \notin DOMAIN ForeignKey

\* What Seed may put into column c. A reference is drawn from the ids of this
\* run; only generated values are kept apart when the column is unique.
Choices(t, c) ==
  IF <<t, c>> \in DOMAIN ForeignKey
  THEN IF given[ForeignKey[<<t, c>>]] = {} THEN {Null} ELSE given[ForeignKey[<<t, c>>]]
  ELSE Generated[t][c] \ (IF <<t, c>> \in Unique THEN Used(t, c) ELSE {})

SeedRow(t) ==
  {row \in [Columns[t] -> UNION {Choices(t, c) : c \in Columns[t]}] :
     \A c \in Columns[t] : row[c] \in Choices(t, c)}

\* Mutated form: off by one.
BatchOver(n) == n % (BatchSize + 1) = 0

BatchFull(n) == n % BatchSize = 0

Unfinished == pc = "insert" /\ Cardinality(given[Head(order)]) < rowPerTable

\* INSERT of one row; a full batch is to be committed before the next.
Insert ==
  LET t == Head(order)
      i == NextId(tx, t)
  IN /\ Unfinished /\ i <= MaxId /\ Columns[t] # {}
     /\ \E row \in SeedRow(t) :
          /\ WriteBreaks("on", tx.rows, t, i, row, Columns[t]) = "nothing"
          /\ tx' = [rows |-> Written(tx.rows, t, i, row), seq |-> [tx.seq EXCEPT ![t] = i]]
     /\ given' = [given EXCEPT ![t] = @ \cup {i}]
     /\ attempts' = NoAttempts
     /\ pc' = IF BatchFull(Cardinality(given'[t])) THEN "batch" ELSE "insert"
     /\ UNCHANGED <<db, order, rowPerTable, starts>>

\* The generator knows a value of the unique column c that this run has used.
DrawsUsed(t, c) == GeneratedUnique(t, c) /\ Generated[t][c] \cap Used(t, c) # {}

\* Mutated form: `continue' without counting the attempt.
RedrawUncounted == Unfinished /\ (\E c \in Columns[Head(order)] : DrawsUsed(Head(order), c)) /\ UNCHANGED vars

\* generateValue draws a used value, and draws again. The columns of a row are
\* drawn one after the other; the model keeps no order between them.
Redraw ==
  LET t == Head(order)
  IN /\ Unfinished
     /\ \E c \in Columns[t] :
          /\ DrawsUsed(t, c) /\ attempts[<<t, c>>] < MaxAttempts
          /\ attempts' = [attempts EXCEPT ![<<t, c>>] = @ + 1]
     /\ UNCHANGED <<db, tx, pc, order, given, rowPerTable, starts>>

\* An error of Seed ends the program: generateValue gives up at one more used
\* value, or the INSERT is refused (of a table without columns it is no SQL).
\* An id beyond the bound is refused, too.
Fail ==
  LET t == Head(order)
      i == NextId(tx, t)
  IN /\ Unfinished
     /\ \/ \E c \in Columns[t] : DrawsUsed(t, c) /\ attempts[<<t, c>>] = MaxAttempts
        \/ i > MaxId \/ Columns[t] = {}
        \/ \E row \in SeedRow(t) :
             WriteBreaks("on", tx.rows, t, i, row, Columns[t]) # "nothing"
     /\ Exit

\* A full batch is committed and the next transaction begun.
CommitBatch ==
  /\ pc = "batch"
  /\ db' = tx
  /\ pc' = "insert"
  /\ UNCHANGED <<tx, order, given, attempts, rowPerTable, starts>>

\* What is left of the table's rows is committed.
CommitTable ==
  /\ pc = "insert" /\ ~Unfinished
  /\ db' = tx
  /\ tx' = NoTx
  /\ order' = Tail(order)
  /\ pc' = "begin"
  /\ UNCHANGED <<given, attempts, rowPerTable, starts>>

-----------------------------------------------------------------------------
(* Requests *)

Create ==
  \E t \in Tables : \E row \in Writable[t] :
    LET i == NextId(db, t) IN
    /\ pc = "serve" /\ i <= MaxId
    /\ WriteBreaks("on", db.rows, t, i, row, Columns[t]) = "nothing"
    /\ db' = [rows |-> Written(db.rows, t, i, row), seq |-> [db.seq EXCEPT ![t] = i]]
    /\ UNCHANGED <<tx, pc, order, given, attempts, rowPerTable, starts>>

Delete ==
  \E t \in Tables : \E i \in Live(db.rows, t) :
    /\ pc = "serve"
    /\ DeleteBreaks("on", db.rows, t, i) = "nothing"
    /\ db' = [db EXCEPT !.rows = Written(db.rows, t, i, NoRow)]
    /\ UNCHANGED <<tx, pc, order, given, attempts, rowPerTable, starts>>

-----------------------------------------------------------------------------
Work == Check \/ Begin \/ Redraw \/ Insert \/ Fail \/ CommitBatch \/ CommitTable

Next == Start \/ Work \/ Crash \/ Create \/ Delete

\* A program that is not stopped goes on. Nothing forces it to be started or
\* to receive a request.
Spec == Init /\ [][Next]_vars /\ WF_vars(Work)

-----------------------------------------------------------------------------
(* Correctness *)

TypeOK ==
  /\ db \in States
  /\ tx \in States \cup {NoTx}
  /\ pc \in {"down", "check", "begin", "insert", "batch", "serve"}
  /\ pc \in {"insert", "batch"} <=> tx # NoTx
  /\ order \in Seq(Tables)
  /\ given \in [Tables -> SUBSET Ids]
  /\ attempts \in [Unique -> 0..MaxAttempts]
  /\ rowPerTable \in RowCounts \cup {0}
  /\ starts \in 0..MaxStarts

\* Whatever the moment of a crash, the committed rows keep the constraints:
\* no reference to a row that was not committed, no duplicate. It is the
\* order of the tables and of the commits that sees to it (seed.go:31, 86-100).
DurableContentsSound == ReferencesIn(db.rows) /\ UniqueIn(db.rows)

\* "batchSize bounds how many inserts share a single transaction"
\* (seed.go:15-16).
BatchesBounded ==
  tx # NoTx =>
    Cardinality(UNION {{<<t, i>> : i \in Live(tx.rows, t) \ Live(db.rows, t)} : t \in Tables})
      <= BatchSize

\* Seeding does not mix with rows that were there before (README.md:84-86):
\* as long as it runs, the committed rows are rows this run has inserted, and
\* of every table but the one at hand all that the run has inserted.
OnlyEmptyIsSeeded ==
  pc \in {"begin", "insert", "batch"} =>
    \A t \in Tables :
      /\ Live(db.rows, t) \subseteq given[t]
      /\ tx = NoTx \/ t # Head(order) => Live(db.rows, t) = given[t]

\* A committed row changes or goes only by a request, or with :memory:.
RowsKept ==
  [][\A t \in Tables : \A i \in Live(db.rows, t) :
       db'.rows[t][i] # db.rows[t][i] => pc = "serve" \/ ~Persistent]_vars

\* No id that was ever committed is given out again, over all restarts: the
\* seeding of an emptied file continues the numbers.
IdsNeverReused ==
  [][Persistent => \A t \in Tables : \A i \in 1..db.seq[t] :
       db.rows[t][i] = NoRow => db'.rows[t][i] = NoRow]_vars

\* When seeding ends and requests are let in, every table has exactly as many
\* rows as the flag asks for, no reference is left out: what Crud assumes of
\* the seeded contents.
HandsOverSeeded ==
  [][pc = "begin" /\ pc' = "serve" =>
       \A t \in Tables :
         /\ Cardinality(Live(db'.rows, t)) = rowPerTable
         /\ \A p \in DOMAIN ForeignKey : p[1] = t =>
              \A i \in Live(db'.rows, t) : db'.rows[t][i][p[2]] # Null]_vars

\* A start that is not cut short serves or reports an error: seeding does not
\* hang, not even when a unique column runs out of values (seed.go:169-189).
StartupEnds == pc = "check" ~> pc \in {"serve", "down"}
=============================================================================
