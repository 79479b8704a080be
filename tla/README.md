# schema-api: specifications, model checking and proofs

schema-api reads a JSON schema and serves it: every table of the schema becomes
a SQLite table with CRUD routes, filled with generated rows at the start; mock
endpoints answer from templates; table endpoints answer from a query over
several tables. This directory holds TLA+ specifications of the program, TLC
configurations that check them on small instances, and proofs that TLAPS checks
for every value of the constants. Line numbers refer to the sources beside it
(`api/handler.go:224` is `src/api/handler.go`, line 224).

## 1. The system

| component | source | state it keeps | operations | modelled in |
| --- | --- | --- | --- | --- |
| program | `main.go` | process, database handle, HTTP server | open, create tables, seed if empty, register routes, serve, shut down | `Startup`, `MockEndpoints`, `Server` |
| seeding | `seed/` | open transaction, ids given out, unique values used | order the tables, insert in batches, commit, give up | `Startup`, `TopologicalSort`, `Dependencies` |
| rows and statements | `db/db.go` | the tables | `CreateTable`, `SelectAll`, `SelectByID`, `InsertReturning`, `UpdateReturning`, `Delete`, `TablesEmpty`, `Insert` | `Store`, `Crud`, `Startup` |
| connections | `db/db.go:18-52`, database/sql, SQLite | pool, PRAGMAs of each connection, write lock | get, open, give back, lock, commit | `Crud` |
| CRUD handlers | `api/handler.go` | one goroutine for each request | `List`, `Get`, `Create`, `Update`, `Delete` | `Crud`, `Requests`, `CrudService` |
| validation | `validation/validate.go` | none | `ValidateCreate`, `ValidateUpdate` | `Store` (columns' values as a set), `FakeData` (bounds, patterns) |
| schema | `schema/schema.go` | the parsed schema, read-only after the start | parse, validate | `TableEndpoints` (its entries), `MockEndpoints` (routes), assumptions of `Store` |
| table endpoints | `db/query.go`, `db/response.go`, `api/handler.go:50-108` | a shared random source under a mutex | validate, infer joins, build the query, render | `TableEndpoints`, `Templates`, `Server` (the mutex) |
| mock endpoints | `mock/`, `template/` | none shared | render templates, register patterns | `MockEndpoints`, `Templates` |
| fake data | `fakegen/` | none | `Value`, format generators | `FakeData` (in part) |
| HTTP helpers | `httputil/` | none | JSON answers, request context | `Requests` (statuses), `MockEndpoints` (context) |
| listing, version | `endpoints/`, `version/` | none | print | not modelled: output only |

How they interact: `main` calls the database, then the seeder, then registers
handlers and serves. From then on everything that is shared is the database:
net/http runs each request in its own goroutine, each statement of a handler
takes a connection from the `database/sql` pool and gives it back when its rows
are closed. The handlers hold no lock and run no transaction, so that two
statements of one handler see whatever others have committed in between. A
process that ends keeps what was committed (with `-db`) or nothing.

What is hard: two-statement handlers (`Update`, `List`), settings that belong
to one pooled connection (`foreign_keys`, `busy_timeout`), a pool of a single
connection, writes that are accepted but not yet committed, a crash between
two commits of the seeder, a seed order computed with in-degrees, queries
that are put together from a schema and first meet SQLite in a request, routes
of three kinds that meet in one mux, a mutex that a panic leaves locked, and the
shutdown. `PROJECT.json` lists each of
these at its line under `hazards`, with the property that covers it or the
reason why none does yet.

What makes each component correct:

- handlers and statements: every answer could have come from one instant between
  request and answer; constraints hold; no update is lost; ids are not reused;
- pool: a connection serves one client, always comes back, every request is answered;
- seeding: durable contents are consistent at each moment, batches are bounded,
  only an empty database is seeded, the start ends;
- table order: parents first, an error only for a cycle;
- table endpoints: the query means the documented join, and what validation
  accepts can be answered;
- responses: a reference shows the row, or the part of the request, it names;
- routes: those of the schema are all served, or the program does not start;
- server: a signal ends the program, a panic holds up no more than it must, a
  request that is being served is answered (which the code does not keep);
- generators: seeded values pass the validators of their own columns (which the
  code keeps for bounds that fit, and not for patterns), check digits are right.

## 2. Modules

| module | models | kind |
| --- | --- | --- |
| `Store` | the schema as constants; validation; what one SQL statement reads, breaks and leaves | operators only |
| `Requests` | requests, early refusals, statuses | operators only |
| `Crud` | the handlers over the pool and SQLite | the core state machine |
| `CrudService` | the abstract specification: a service that answers atomically | refined by `Crud` |
| `Startup` | start, `TablesEmpty`, `Seed`, crash, restart | state machine |
| `Dependencies` | what an order of the tables has to be | definitions |
| `TopologicalSort` | Kahn's algorithm | state machine |
| `TableEndpoints` | validation of an entry, join inference, the query and its rows | operators and a small state machine |
| `Templates` | templates, their references, what `db/response.go` renders | operators only |
| `MockEndpoints` | routes from validation to the mux, answers of mock endpoints | state machine |
| `Server` | main, the signal goroutine, requests, `rngMu` | state machine |
| `FakeData` | one generated value and the check of its column | state machine |
| `StoreProofs` | lemmas about statements | proofs |
| `CrudProofs` | theorems about `Crud`, and that it implements `CrudService` | proofs |
| `StartupProofs`, `TopologicalSortProofs`, `TableEndpointsProofs`, `MockEndpointsProofs`, `ServerProofs`, `FakeDataProofs` | theorems about the module each is named for | proofs |
| `MC...` | values of the constants | for TLC |

`CrudProofs` composes `Crud` with `CrudService`; `Crud` rests on `Requests`
and `Store`, `Startup` on `Store` and `Dependencies`, `TableEndpoints` and
`MockEndpoints` on `Templates`. `Server` takes handlers as far as they meet: at
the listener and at the mutex.

### Store and Requests

The constants describe a valid schema: `Columns[t]`, the sets `Required` and
`Unique` of `<<table, column>>` pairs, `ForeignKey` and `Default` as functions
on such pairs. `Accepted[t][c]` is the set of values that `validateColumn`
lets through: types, ranges, lengths and patterns disappear in it. Rows are
functions from declared columns to values; the implicit id is the index of a
row. Foreign keys refer to the id, which is the default of `foreign_key`.
`Pages` are the answers a list may get: the rows by its sort key after those the
offset skips, with a choice among rows that have one key.
`WriteBreaks` and `DeleteBreaks` say which constraint a statement breaks, in
SQLite's order, given the `foreign_keys` setting of its connection.

### Crud

`pc[c]` is the position of the goroutine of client `c`: `idle`, the label of
the statement it runs next, `commit` (a write was accepted, its rows are still
open), or `answer`.

| action | code |
| --- | --- |
| `Call` | the handler up to its first statement: unknown table, bad id, and for a create body and validation |
| `AcquireFree`, `AcquireNew` | `database/sql` hands out a free connection, or opens one below `SetMaxOpenConns` |
| `Count`, `PageOf` | the two statements of `SelectAll` |
| `Select` | `Get` |
| `Exists`, `Update`, `Reselect` | the lookup of `Update`, its `UPDATE ... RETURNING`, and the second lookup when the body names no column |
| `Insert`, `Delete` | `InsertReturning`, `Delete` |
| `Busy` | `SQLITE_BUSY`, answered 500 |
| `Commit` | the deferred `rows.Close`: the write becomes visible, the lock is free |
| `Answer` | the handler returns |

A write is two steps, `Insert`/`Update`/`Delete` and then `Commit`, because
`RETURNING` statements stay open until their rows are closed: others can run
reads in between, and writes have to wait or fail. `ForeignKeys(c)` is `on` on
`InitConn` only: that is where `InitDB` ran its PRAGMA. With a pool of one
connection (`Conns = {InitConn}`) the module is the `:memory:` database.

`CrudService` has no connections and no statements: a request is accepted,
takes effect at one instant, and is answered. Two exceptions are part of it,
because the code has them: a list reads its total and its page at two instants,
and an update may answer 500 for a row that has gone.

### Startup, TopologicalSort

`Startup` follows `main.go:53-81` and `Seed`. `rowPerTable` is the flag `-rows`,
which each start has anew, `tx` is the database as the open transaction sees it,
`given` is `parentIDs`. `Exit` is the end of the process: the transaction is
rolled back and `:memory:` is lost. A row is one `Insert`; the draws of
`generateValue` that hit a used value of a unique column come before it as steps
of their own (`Redraw`), counted in `attempts`, and at `MaxAttempts` of them the
next one ends the program (`Fail`). The order of the tables comes from `Orders`,
the dependency orders; `TopologicalSort` is the algorithm that computes one, and
`SortedIsOrder` the property by which `Startup` may use the set. Requests are
reduced to the rows they create and delete.

### TableEndpoints

The state is one entry of `table_endpoints` with the foreign keys and contents
it meets, chosen by `Init` and never changed, and what became of it: `parsed`,
then `refused` or `serving` (`Validate`, the checks of
`validateTableEndpoints`), and for a request `answered` with `rows` and the
rendered `answer`, or `failed` with 500 (`Request`, the handler of the endpoint). `Joins` is what
`InferJoins` finds or the entry lists, `Sources` the tables of the FROM clause
in the order `BuildQuery` writes them. The clause is then read as SQLite reads
it: `Prepared` says when the names resolve, `From` folds the joins into rows,
`Selected` applies the conditions and `Results` order and limit, with a choice
where `order_by` leaves one. SQLite's part is external, except for the joins'
types and columns, which `BuildJoinClause` decides.

`AnswerIsDocumented` does not use any of this: `Linked` is the README's
sentence, one row for each way to pick rows that the foreign keys link.

`Scanned` is a row as the handler sees it, a function from aliases
`table__column`: when two columns have one alias the last wins, as in the map of
`scanRows`. `RenderedRows` (`Templates`) renders the answer from these.
`RenderedAsDocumented` states the README's rules without aliases: a reference
outside an array shows the first row, null without rows, an array has an item
for each row, in order. It says which value stands where and not of which JSON type
it is: the code makes a text of every value (`db/response.go:88`), while the sample
response of README.md:463-464 has a number.

### MockEndpoints

The state is a schema reduced to its routes, and `mux`, the routes registered
so far. `Validate` is what validation asks of routes, `RegisterTables` the CRUD
routes and table endpoints, whose panic ends the program, `RegisterMocks` the
mock endpoints, whose panic becomes an error. ServeMux is external: `Served` is
the set of method and path pairs of a pattern, two patterns conflict when they
share requests and neither set contains the other properly, and `Handler` picks
the smallest. `Request` answers at a mock endpoint: `RequestContext` is
`BuildRequestContext`, `Render` the renderer, and an unknown generator is an
error. `RequestIsEchoed` compares the answer with `DocumentedValue`, the README's
table of references, place by place.

### Server

| action | code |
| --- | --- |
| `Spawn`, `Listen`, `Return` | `main.go:117`, `ListenAndServe` begins, `ListenAndServe` returns |
| `Notify`, `Receive`, `Shutdown`, `ShutdownReturns` | the goroutine, `main.go:118-128` |
| `Interrupt` | a signal: kills before `Notify`, else goes into the channel if it has room |
| `Accept` | net/http starts a goroutine for a request |
| `Handle` | a request that needs no lock: preflight, CRUD, mock, failed query |
| `Queried`, `Lock`, `Unlock`, `Panic` | a table endpoint around `rngMu` |

When main returns the process ends, and every request that is not finished is
`cut`. `Panicking` are the requests whose response panics, as a generator with a
negative `min_length` does.

### FakeData

`spec` is what is to be generated. `DrawInt`, `DrawFloat` and `DrawText` choose
one of the values the code may draw, with its defaults, truncations and swapped
bounds; card numbers and ISBNs are drawn digit by digit, with the generator's sum
and, as a history variable, the one the standard prescribes, modulo 10.
`ValidateColumn` is then the check of a request. Two things a generator does not
look at are kept as outcomes. A text matches the pattern of its column or not:
`matches` of a spec are the outcomes that texts drawn for it may have (`{TRUE}`
without a pattern). And numbers are multiples of `1/Scale`, which divides half a
hundredth and is to be wider than the rounding of float64: 1/200 is for bounds up to
`Widest` of some 10^12. The rounding shows where a product by 100 should be whole and is less, as
0.29 * 100 is. `Short` are those hundredths, and `Cut` cuts them, with either sign,
to the hundredth before. Which hundredths are short is left open.

`Consistent` says for which columns `SeedsAreAccepted` is promised: bounds that fit
together and with the defaults, whole ones for ints, hundredths for floats, of
which the lower is not short and the upper not negative unless both are equal, and
no pattern but one that every text drawn matches.

## 3. Runs

| run | configuration | states | what it shows |
| --- | --- | --- | --- |
| `memory` | one connection, 2 clients, 2 tables, ids 1..2, 27 requests | 589 842 | constraints, pool, no lost update, ids, refinement |
| `file` | two connections (one without foreign keys), 2 clients | 815 956 | the inductive invariant, accepted writes, refinement |
| `liveness` | two connections, 3 clients, 3 requests | 42 508 | every request is answered |
| `sort` | all foreign keys of 3 tables with 2 columns | 9 681 | Kahn's algorithm |
| `startup` | a file, 0, 2, 3 or 4 rows, batches of 2, 3 values for a unique column, 3 starts, ids 1..6 | 599 826 | seeding, crashes, restarts, values that run out |
| `endpoints` | 16 sets of foreign keys over 3 tables, 2 contents, lists of tables, joins, templates | 15 500 | inferred joins mean what is documented, outer joins keep rows, parents first are answered, responses show their rows |
| `server` | 5 requests, 2 of them panic, 2 signals | 18 967 | one user of the random source, a signal ends the program, what a panic holds up |
| `generators` | 580 specs, bounds missing, equal, swapped, fractional, negative, cut short, patterns | 46 966 | seeded values are accepted, check digits |
| `mock` | schemas with at most one table endpoint and two mock endpoints out of 6 overlapping patterns | 14 764 | conflicts stop the start, requests are echoed |
| `file_references` | as `file` | violation | a referenced row is deleted |
| `related_tables` | as `endpoints` | violation | 500 for tables listed child first |
| `graceful_shutdown` | as `server` | violation | a request in service is cut off by Ctrl-C |

Bounds. Two clients are enough for each pair of statements to interleave; the
third in `liveness` makes a free connection have two waiters. `MaxId = 2`
with one seeded row gives room for one create, so that a delete, a create and a
reuse of the id could happen; an exhausted table answers 500 in the model, as
SQLite's "database or disk is full". The schema has a required and unique
column, a default, a reference, and values that validation refuses. The
`startup` instance asks in each start for no rows, for a batch, for one row more or
for two batches. For three rows the unique column has just enough values, for four
one too few; one attempt makes a used value good; and a reference is unique, so that
an INSERT may be refused. `CHECK_DEADLOCK FALSE` is set where the
program really stops: after the sort, when no further start is allowed, and
after an entry of `endpoints` was refused. `endpoints` has lists of one to three
tables in each order, a pair of tables that refer to each other, two foreign
keys to one parent, NULL references, an empty table, explicit joins in both
orders, and entries that validation refuses for one reason each; templates
have text, several references in one text, arrays, generators, and two columns
with one alias. `server` has each kind of request and a panic of each kind that
can have one, two table endpoints that race for the mutex, and a second signal
for the channel that is full. In `generators` numbers are multiples of 1/200,
finer than the hundredths that floats are cut to, with 0.29 (also as a bound, with
both signs) and 0.57 short, and the constants of the code
are scaled down (`DefaultMax` 10000 to 5, `DefaultLengths` 5 and 30 to 3 and 6,
the widest range `MaxInt32` to 8), so that bounds below, at and above each of
them occur. In `mock` paths have up to three segments, and wildcards at
different places of them conflict.

Symmetry of the clients is used in the safety runs of `Crud` and nowhere else.

Fairness. `Crud`: weak fairness of each goroutine's steps, as the Go scheduler
runs what can run, and strong fairness of getting a connection: a connection
that is freed is handed to a waiting goroutine picked from the waiters, so one
that waits while connections are freed again and again gets one. No fairness on
`Call`: clients need not send. `Startup`: weak fairness of the program's work
only, never of starts, crashes or requests. `Server`: weak fairness of main, of
the goroutine and of each request, as goroutines that can run do; none of
clients and signals. The mutex needs no more, as a request asks for it once.

Each property of a passing run has a mutant: an operator marked "Mutated form"
next to the definition it would replace (a dropped check, an off-by-one, an
unset PRAGMA). With the mutant in its place TLC finds the property violated.

## 4. Proofs

Every safety invariant and every action property that a run checks is a theorem,
for any schema, set of clients, pool, requests, entries and templates that
satisfy the named assumptions of the modules. TLC evaluates each assumption in
the runs. Most only give constants their types (`InputAssumption`,
`StartupAssumption`, `ServerAssumption`, `PoolAssumption`, `RequestAssumption`, `ValueAssumption`) or say that a marker is none of the things it is told from (`MarkAssumption`,
`AnswerAssumption`). These say more:

- `SchemaAssumption` and `EndpointAssumption`: references lead to tables and
  columns that exist, tables have finitely many rows, the nodes of a template form
  a tree (`WellFormed`);
- `ResponseAssumption` (`MockEndpoints`): the same for templates, and no path has
  one parameter name twice, which ServeMux refuses to register;
- `SeedAssumption` (`Crud`): the contents that serving begins with keep the
  constraints, which is what `DurableAlways` proves of `Startup`;
- `FakeDataAssumption`: a unit divides half a hundredth, bounds are at most
  `Widest`, short are positive hundredths, card numbers and ISBNs have one length;
- `MockAssumption`: the status of an endpoint is one that net/http can send as the
  status of an answer, 200 to 999. Validation does not ask for this
  (`schema/schema.go:296`); with another one the handler panics or the answer has
  status 200.

The proofs have one shape: an inductive invariant `IInv` (that of `Crud` is also
checked by the run `file`), one lemma for each action that keeps it, and from
`Invariance` (`Spec => []IInv`) everything else.

**`Crud`** (`StoreProofs`, `CrudProofs`). `StoreProofs` has the lemmas about
statements: a write that breaks nothing keeps `UniqueIn`, and with foreign keys
on `ReferencesIn`. `Uniqueness` alone is not inductive: between the check of a
write and its commit the contents might change. So `IInv` adds what protects that
window: only one client is at `commit` (`OneWriter`, the write lock), the write it
holds is the one its request asks of the contents as they are (`StagedOK`), it
still breaks nothing (`AcceptedWritesStayValid`), the ids in use have been given
out (`IdsGiven`), and each handler has established what its place in the code says
(`PlaceOK`). From it: `TypeCorrect`, `UniqueAlways`, `PoolSafe`,
`AcceptedStayValid`, `NullShielded`, and over steps `DeletedForGood` and
`UpdatesMerge`: only a commit changes the contents, and `StagedOK` says what it
writes. `ReferencesAlways` has the premise `Conns = {InitConn}`: with more
connections it is false, as the run `file_references` shows. `Implements`: each
step of `Crud` is a step of `CrudService` or a stutter under the mapping that hides
connections, labels and uncommitted writes. An accepted write maps to a stutter,
its `Commit` to the atomic effect.

**`Startup`** (`StartupProofs`). That the committed database is sound does not
survive a step unless the open transaction is sound too and only adds to what is
committed (`TxSound`), the tables still to be seeded come after those they refer
to, which are complete (`OrderSound`), and a batch holds what came after the last
full one (`BatchSound`, division with remainder by the size of a batch). Crashes
are easy then: they forget the transaction. Action properties (`KeptAlways`,
`NeverReused`, `HandsOverAlways`) follow from the invariant and from which
actions write the committed database.

**`TopologicalSort`** (`TopologicalSortProofs`). `Bookkeeping` is inductive with
`ParentsFirst`, that what is placed is placed once and behind all it refers to.
An in-degree counts columns and not tables: placing a table takes away exactly the
columns that refer to it, by cardinalities of disjoint sets. For `CircularAlways`:
if the queue is empty every table left has a reference to one that is left.

**`TableEndpoints`** (`TableEndpointsProofs`). The invariant is short
(`Decided`: what is served is valid, a failure has no query, an answer is rendered
from a result of the query); the work is in the operators, for any number of
joins. `FromIsInner`: joined one after the other, inferred joins yield all
combinations of rows that satisfy every condition, as each join looks at the new
table and one before it only (`OnIsLocal`). `PreparedIsForward`: SQLite finds each
table once only if each refers to the one before. With both, `SelectedIsLinked`:
the query selects the README's rows. `OuterKeepsRows` is an induction over outer
joins. `ResultIs`: a result of finitely many rows has each of them once,
unless the limit is reached. `ScannedIs`: without ambiguous names an alias finds
the column it was made for. `RenderingIsDocumented`: then every node of a
template is rendered as documented.

**`MockEndpoints`** (`MockEndpointsProofs`). `RoutesByPhase` says what each phase
knows of the routes registered; `ConflictsSplit`, that registering in two groups
finds the conflicts of all routes at once. `DispatchAlways` (not among the runs'
properties): without conflicts a request has one most specific route, which is
what makes `Handler` a choice of one. `EchoedAlways` goes through the places of a
template: what is rendered shows what was looked up (`RenderIsRendered`,
`AnswerEchoes`), and what is looked up is what is documented (`LookupDocumented`).

**`Server`** (`ServerProofs`). `RngExclusive` follows from who holds the mutex:
every request that renders, and no other unless it has panicked (`HolderRenders`).
`LockedForRenderingAlways` (not among the runs' properties) is the other side:
without panics one who waits for the mutex waits for a request that renders.

**`FakeData`** (`FakeDataProofs`). What was drawn is one of the choices that type,
bounds and format leave (`ValueIsChoice`), and the sums of generator and standard
agree modulo 10 (`SameSum`), for numbers of any length, any resolution and any set
of short hundredths. Then `Consistent` is enough for the validator: `CutFits` says
that cutting passes no hundredth downwards but a short one, and none that is not
negative upwards, even from a unit above it.

Recursive definitions are recursive functions: `From` over joins, `RenderedRows`
and `Render` over the nodes of a template. That such a function exists is proved in
each case (`FromIs`, `RenderingExists`): take the largest part for which one exists
(a least number, as sets of natural numbers have one) and extend it.

Only model-checked: liveness (`EveryRequestAnswered`, `StartupEnds`,
`SignalEndsProgram`, `PlainRequestsEnd`, `TableRequestsEnd`), as TLAPS has no
support for fairness. The properties of the three runs that end in a violation are
false of the code. The theorems of `Startup` take the order of the tables from
`Orders`; that `TopologicalSort` yields these orders is `SortedAlways`, and the two
modules are not composed.

## 5. What is not modelled

- The order of the rows inside a page of a list (a page is a set of rows), and the
  overflow of `(page - 1) * limit`.
- JSON syntax, patterns (`regex`; a text matches or not), formats of times, values beyond the range of an
  `int`, the conversion of values between Go and SQLite.
- I/O errors of SQLite, cancelled requests (handlers pass no context to the
  database), the server's timeouts.
- Foreign keys that refer to another column than the id; schemas that change
  between two starts over one file; names that differ in case.
- The validators of tables and columns; what a valid schema guarantees is
  `SchemaAssumption`.
- In table endpoints: RIGHT, FULL and CROSS joins, conditions that hold more than
  one comparison, booleans. Headers of endpoints' answers.
- In `fakegen`: float bounds so wide that float64 does not tell hundredths apart, the
  rounding of differences of fractional bounds of ints, word lists, the formats other than cards and ISBNs (only the lengths
  of their texts), IBANs, the guess of a format from the name of a column.
- `endpoints` and `version`: they print and change nothing.
- External code (`database/sql`, SQLite, `net/http`, `os/signal`) is modelled from
  how the code uses it; those definitions are marked external in `PROJECT.json`.

Observations that no run claims; where a module has the case it is named:

- A DELETE between the two statements of a PUT makes it answer 500, where
  README.md:558 has 404; a create that sets no column of a table without
  required columns is answered 500 (`Crud`; `CrudService` allows both).
- After a crash between two commits of `Seed` the next start takes the file for
  populated and serves what is there (`Startup`).
- `{{ body.x }}` with spaces does not make a mock endpoint read the body, and a
  parameter `{name...}` is empty (`Exempt` in `MockEndpoints`).
- An overlap of a table endpoint with the CRUD wildcards ends the program by a
  panic and not by an error; to validation, two routes that differ only in the
  name of a parameter are no duplicates (`MockEndpoints`).
- Lone or fractional bounds may yield values that the column refuses
  (`Consistent` in `FakeData`): `max_length` 3 alone gives 3 to 5 characters, `min`
  0.29 of a float may give 0.28, a negative `max` of a float may be passed by 0.01.
- A column with a pattern is seeded with texts that do not match it, and a client who
  sends such a row back is refused: `sku` of `docs/examples/validation.json:13-19`
  (`matches` and `Consistent` in `FakeData`).
- A value that stands alone in a template of a table endpoint becomes a text:
  README.md:463-464 shows `"view_count": 1337`, the code answers `"1337"`
  (`Text` in `Templates`; `RenderedAsDocumented` excepts it).
- A reference that names no column of a row stays as it is written; two columns
  with one alias show one value (`Ambiguous` in `TableEndpoints`).
- `GenIBAN` puts its zeros before the country code and counts a letter as one
  digit, so that its check digits are not those of mod 97 (not modelled).

## 6. Plan

Done: `Store`, `Requests`, `Crud`, `CrudService`, `TopologicalSort`, `Startup`,
`TableEndpoints`, `Templates`, `MockEndpoints`, `Server` and `FakeData`, and the
proofs of all their safety properties.

Left, in order of importance:

1. Proofs: `TopologicalSort` as a refinement of the choice that `Startup` makes
   (`Orders`), and `Server` of a lock whose users take turns.
2. `SchemaRules`: what validation accepts of tables and columns against what the
   database needs (keys that are not unique, names that differ in case).
3. `(page - 1) * limit` in 64 bits.
