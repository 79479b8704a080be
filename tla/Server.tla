------------------------------- MODULE Server -------------------------------
(***************************************************************************)
(* The program once its routes are registered: main listens, a goroutine   *)
(* waits for a signal to shut the server down, and net/http runs each      *)
(* request in a goroutine of its own. Handlers of table endpoints share    *)
(* one random source behind rngMu, which they unlock without defer.        *)
(*                                                                         *)
(* net/http and os/signal are modelled by what main relies on: a signal is *)
(* sent to the channel without blocking, Shutdown closes the listener      *)
(* first and only then waits for requests, which makes ListenAndServe      *)
(* return at once, and a panic of a handler ends no other request.         *)
(***************************************************************************)
EXTENDS Naturals

CONSTANTS
  Requests,   \* the requests that clients may send
  Kind,       \* Kind[r]: "preflight", "plain" (CRUD, mock) or "table" (endpoint)
  Panicking,  \* the requests whose response panics while it is rendered
  Nobody,     \* the holder of a mutex that is free
  Signals     \* bound: how often the program is interrupted

ASSUME ServerAssumption ==
  /\ Kind \in [Requests -> {"preflight", "plain", "table"}]
  /\ Panicking \subseteq Requests
  /\ Nobody \notin Requests
  /\ Signals \in Nat

VARIABLES
  main,      \* "setup", "listening", "serving", "ended", "failed" or "killed"
  watcher,   \* the goroutine: "none", "started", "notified", "shutdown", "waiting", "done"
  sig,       \* how many signals the channel holds
  sent,      \* how many were sent to the program
  closed,    \* Shutdown has closed the listener
  state,     \* of requests: "out", "running", "locking", "rendering", or an outcome
  rngMu      \* the request that has locked the mutex, or Nobody

vars == <<main, watcher, sig, sent, closed, state, rngMu>>

Outcomes == {"answered", "aborted", "cut"}
Stopped == main \in {"ended", "failed", "killed"}

Init ==
  /\ main = "setup" /\ watcher = "none"
  /\ sig = 0 /\ sent = 0 /\ closed = FALSE
  /\ state = [r \in Requests |-> "out"]
  /\ rngMu = Nobody

Go(r, from, to) == ~Stopped /\ state[r] = from /\ state' = [state EXCEPT ![r] = to]

\* The process ends, and with it the requests that are being handled.
Exit(how) ==
  /\ main' = how
  /\ state' = [r \in Requests |-> IF state[r] \in Outcomes \cup {"out"} THEN state[r] ELSE "cut"]

-----------------------------------------------------------------------------
(* main *)

Spawn ==
  /\ main = "setup"
  /\ main' = "listening" /\ watcher' = "started"
  /\ UNCHANGED <<sig, sent, closed, state, rngMu>>

\* A server that was shut down before it listens does not listen.
Listen ==
  /\ main = "listening"
  /\ \/ closed /\ Exit("ended")
     \/ ~closed /\ main' = "serving" /\ UNCHANGED state
     \/ ~closed /\ Exit("failed")
  /\ UNCHANGED <<watcher, sig, sent, closed, rngMu>>

\* ListenAndServe returns http.ErrServerClosed, and main with it.
Return ==
  /\ main = "serving" /\ closed
  /\ Exit("ended")
  /\ UNCHANGED <<watcher, sig, sent, closed, rngMu>>

-----------------------------------------------------------------------------
(* The goroutine that shuts the server down *)

Step(from, to) == ~Stopped /\ watcher = from /\ watcher' = to

Notify == Step("started", "notified") /\ UNCHANGED <<main, sig, sent, closed, state, rngMu>>

Receive ==
  /\ sig > 0 /\ Step("notified", "shutdown")
  /\ sig' = sig - 1
  /\ UNCHANGED <<main, sent, closed, state, rngMu>>

Shutdown ==
  /\ Step("shutdown", "waiting")
  /\ closed' = TRUE
  /\ UNCHANGED <<main, sig, sent, state, rngMu>>

\* No request is left, or five seconds are over.
ShutdownReturns ==
  /\ Step("waiting", "done")
  /\ UNCHANGED <<main, sig, sent, closed, state, rngMu>>

\* Mutated form: the channel has no buffer, and the goroutine does not receive
\* yet: the signal is dropped.
Unbuffered(n) == n

\* Mutated form: the channel takes every signal.
Unbounded(n) == n + 1

\* The channel has room for one signal.
Buffered(n) == IF n = 0 THEN 1 ELSE n

\* Until the goroutine asks for signals they kill the process.
Interrupt ==
  /\ ~Stopped /\ sent < Signals
  /\ sent' = sent + 1
  /\ IF watcher \in {"none", "started"}
     THEN Exit("killed") /\ UNCHANGED sig
     ELSE sig' = Buffered(sig) /\ UNCHANGED <<main, state>>
  /\ UNCHANGED <<watcher, closed, rngMu>>

-----------------------------------------------------------------------------
(* Requests *)

Accept(r) ==
  /\ main = "serving" /\ ~closed
  /\ Go(r, "out", "running")
  /\ UNCHANGED <<main, watcher, sig, sent, closed, rngMu>>

\* Mutated form: plain requests render behind the mutex, too.
HandleBehindMutex(r) ==
  /\ rngMu = Nobody /\ Go(r, "running", "answered")
  /\ UNCHANGED <<main, watcher, sig, sent, closed, rngMu>>

\* withCORS answers an OPTIONS request itself. CRUD and mock handlers answer
\* or panic on their own, as a table endpoint does whose query fails.
Handle(r) ==
  /\ \/ Kind[r] = "plain" /\ r \in Panicking /\ Go(r, "running", "aborted")
     \/ (Kind[r] # "plain" \/ r \notin Panicking) /\ Go(r, "running", "answered")
  /\ UNCHANGED <<main, watcher, sig, sent, closed, rngMu>>

\* The rows are there: the handler asks for rngMu.
Queried(r) ==
  /\ Kind[r] = "table" /\ Go(r, "running", "locking")
  /\ UNCHANGED <<main, watcher, sig, sent, closed, rngMu>>

\* Mutated form: a render that has panicked lets others in, and so does one
\* that is still drawing numbers.
Unguarded(r) ==
  /\ Go(r, "locking", "rendering")
  /\ rngMu' = r
  /\ UNCHANGED <<main, watcher, sig, sent, closed>>

Lock(r) ==
  /\ rngMu = Nobody
  /\ Go(r, "locking", "rendering")
  /\ rngMu' = r
  /\ UNCHANGED <<main, watcher, sig, sent, closed>>

\* Mutated form: Unlock is missing.
KeptLocked(r) ==
  /\ r \notin Panicking
  /\ Go(r, "rendering", "answered")
  /\ UNCHANGED <<main, watcher, sig, sent, closed, rngMu>>

Unlock(r) ==
  /\ r \notin Panicking
  /\ Go(r, "rendering", "answered")
  /\ rngMu' = Nobody
  /\ UNCHANGED <<main, watcher, sig, sent, closed>>

\* net/http recovers the panic and drops the connection; rngMu stays locked.
Panic(r) ==
  /\ r \in Panicking
  /\ Go(r, "rendering", "aborted")
  /\ UNCHANGED <<main, watcher, sig, sent, closed, rngMu>>

Serve(r) == Handle(r) \/ Queried(r) \/ Lock(r) \/ Unlock(r) \/ Panic(r)

Next ==
  \/ Spawn \/ Listen \/ Return
  \/ Notify \/ Receive \/ Shutdown \/ ShutdownReturns
  \/ Interrupt
  \/ \E r \in Requests : Accept(r) \/ Serve(r)

\* Goroutines that can run do run. Nobody is obliged to send a request or a
\* signal. A mutex is given to each that waits, as no request waits twice.
Fairness ==
  /\ WF_vars(Spawn \/ Listen \/ Return)
  /\ WF_vars(Notify \/ Receive \/ Shutdown \/ ShutdownReturns)
  /\ \A r \in Requests : WF_vars(Serve(r))

Spec == Init /\ [][Next]_vars /\ Fairness

-----------------------------------------------------------------------------
(* Correctness *)

\* The channel never holds more than it has room for (main.go:118), and only
\* requests for table endpoints come to wait for rngMu (handler.go:96).
TypeOK ==
  /\ main \in {"setup", "listening", "serving", "ended", "failed", "killed"}
  /\ watcher \in {"none", "started", "notified", "shutdown", "waiting", "done"}
  /\ sig \in 0..1 /\ sent \in 0..Signals /\ closed \in BOOLEAN
  /\ state \in [Requests -> {"out", "running", "locking", "rendering"} \cup Outcomes]
  /\ rngMu \in Requests \cup {Nobody}
  /\ \A r \in Requests : state[r] \in {"locking", "rendering"} => Kind[r] = "table"

\* The random source, which is not safe for concurrent use (handler.go:31), is
\* never used by two requests at once, panics and signals included.
RngExclusive ==
  \A r, s \in Requests : state[r] = "rendering" /\ state[s] = "rendering" => r = s

\* A signal ends the program (main.go:117-134) whatever it is doing when the
\* signal comes: starting, serving, or waiting for a mutex that stays locked.
SignalEndsProgram == sent > 0 ~> Stopped

Ended(r) == state[r] \in Outcomes

\* A panic in a handler, and the mutex that it may leave locked, hold up no
\* request to the CRUD and mock routes and no preflight.
PlainRequestsEnd ==
  \A r \in Requests : Kind[r] # "table" /\ state[r] = "running" ~> Ended(r)

\* A request to a table endpoint ends unless the response of one panics.
TableRequestsEnd ==
  \A r \in Requests :
    state[r] = "running" ~> Ended(r) \/ \E p \in Requests : Kind[p] = "table" /\ state[p] = "aborted"

-----------------------------------------------------------------------------
(* What the README promises and the code does not keep *)

\* README.md:101-102: "Ctrl-C sends a graceful shutdown": a request that is being
\* handled when the shutdown begins is not cut off.
ShutdownIsGraceful == closed => \A r \in Requests : state[r] # "cut"
=============================================================================
