---------------------------- MODULE ServerProofs ----------------------------
(***************************************************************************)
(* Proofs about Server, for any number of requests, of each kind, any of   *)
(* which may panic, and any number of signals.                             *)
(***************************************************************************)
EXTENDS Server, TLAPS

\* The mutex is held by the request that renders. It is held by no other one,
\* unless that has panicked while it rendered, or the process is gone.
HolderRenders ==
  /\ \A r \in Requests : state[r] = "rendering" => rngMu = r
  /\ rngMu # Nobody =>
       \/ state[rngMu] = "rendering"
       \/ state[rngMu] = "aborted" /\ rngMu \in Panicking
       \/ Stopped

\* Only a server that was set up has requests, and once the process is gone
\* none of them is being handled.
NoneLeftRunning ==
  main \in {"setup", "listening"} \/ Stopped =>
    \A r \in Requests : state[r] \in Outcomes \cup {"out"}

IInv == TypeOK /\ HolderRenders /\ NoneLeftRunning

LEMMA InitIInv == Init => IInv
  <1> SUFFICES ASSUME Init PROVE IInv
    OBVIOUS
  <1>1. TypeOK
    <2>1. closed \in BOOLEAN
      BY DEF Init
    <2>2. sig \in 0..1 /\ sent \in 0..Signals
      BY ServerAssumption DEF Init
    <2>3. /\ state \in [Requests -> {"out", "running", "locking", "rendering"} \cup Outcomes]
          /\ \A r \in Requests : state[r] = "out"
      BY DEF Init
    <2> QED BY <2>1, <2>2, <2>3 DEF Init, TypeOK
  <1>2. HolderRenders /\ NoneLeftRunning
    BY DEF Init, HolderRenders, NoneLeftRunning
  <1> QED BY <1>1, <1>2 DEF IInv

\* The end of the process keeps the invariant: what was rendering is cut off.
LEMMA ExitKeeps ==
  ASSUME IInv, NEW how \in {"ended", "failed", "killed"}, Exit(how),
         rngMu' = rngMu, watcher' = watcher, closed' = closed,
         sig' = sig, sent' \in 0..Signals
  PROVE  IInv'
  <1> USE DEF Exit, Outcomes
  <1>1. TypeOK'
    BY DEF IInv, TypeOK
  <1>2. HolderRenders'
    BY DEF IInv, TypeOK, HolderRenders, Stopped
  <1>3. NoneLeftRunning'
    BY DEF IInv, TypeOK, NoneLeftRunning, Stopped
  <1> QED BY <1>1, <1>2, <1>3 DEF IInv

\* A step of main or of the goroutine that leaves the requests alone.
LEMMA RequestsUntouched ==
  ASSUME IInv, TypeOK', state' = state, rngMu' = rngMu, ~Stopped, ~Stopped',
         main' \in {"setup", "listening"} => main \in {"setup", "listening"}
  PROVE  IInv'
  <1>1. HolderRenders'
    BY DEF IInv, HolderRenders
  <1>2. NoneLeftRunning'
    BY DEF IInv, NoneLeftRunning
  <1> QED BY <1>1, <1>2 DEF IInv

LEMMA MainKeeps ==
  ASSUME IInv, Spawn \/ Listen \/ Return
  PROVE  IInv'
  <1>1. CASE Spawn
    <2>1. TypeOK'
      BY <1>1 DEF IInv, Spawn, TypeOK
    <2>2. ~Stopped /\ ~Stopped' /\ state' = state /\ rngMu' = rngMu /\ main = "setup"
      BY <1>1 DEF Spawn, Stopped
    <2> QED BY <2>1, <2>2, RequestsUntouched
  <1>2. ASSUME NEW how \in {"ended", "failed"}, Exit(how), UNCHANGED <<watcher, sig, sent, closed, rngMu>>
        PROVE  IInv'
    BY <1>2, ExitKeeps DEF IInv, TypeOK
  <1>3. ASSUME main = "listening", main' = "serving", UNCHANGED <<state, watcher, sig, sent, closed, rngMu>>
        PROVE  IInv'
    <2>1. TypeOK'
      BY <1>3 DEF IInv, TypeOK
    <2>2. ~Stopped /\ ~Stopped' /\ state' = state /\ rngMu' = rngMu
      BY <1>3 DEF Stopped
    <2> QED BY <1>3, <2>1, <2>2, RequestsUntouched
  <1> QED BY <1>1, <1>2, <1>3 DEF Listen, Return

LEMMA WatcherKeeps ==
  ASSUME IInv, Notify \/ Receive \/ Shutdown \/ ShutdownReturns
  PROVE  IInv'
  <1>1. TypeOK'
    <2> USE DEF IInv, TypeOK, Step
    <2>1. CASE Notify \/ ShutdownReturns
      BY <2>1 DEF Notify, ShutdownReturns
    <2>2. CASE Receive
      BY <2>2 DEF Receive
    <2>3. CASE Shutdown
      BY <2>3 DEF Shutdown
    <2> QED BY <2>1, <2>2, <2>3
  <1>2. ~Stopped /\ main' = main /\ state' = state /\ rngMu' = rngMu
    BY DEF Notify, Receive, Shutdown, ShutdownReturns, Step
  <1> QED BY <1>1, <1>2, RequestsUntouched DEF Stopped

LEMMA InterruptKeeps ==
  ASSUME IInv, Interrupt
  PROVE  IInv'
  <1>1. sent' \in 0..Signals
    BY ServerAssumption DEF IInv, TypeOK, Interrupt
  <1>2. CASE Exit("killed") /\ UNCHANGED sig
    BY <1>1, <1>2, ExitKeeps DEF Interrupt, IInv, TypeOK
  <1>3. CASE sig' = Buffered(sig) /\ UNCHANGED <<main, state>>
    <2>1. TypeOK'
      BY <1>1, <1>3 DEF IInv, TypeOK, Interrupt, Buffered
    <2> QED BY <1>3, <2>1, RequestsUntouched DEF Interrupt, Stopped
  <1> QED BY <1>2, <1>3 DEF Interrupt

\* A step of one request: accepted, answered at once, or on its way through
\* the mutex.
LEMMA RequestKeeps ==
  ASSUME IInv, NEW r \in Requests, Accept(r) \/ Serve(r)
  PROVE  IInv'
  <1> USE DEF IInv, TypeOK, Go
  <1>1. TypeOK'
    BY DEF Accept, Serve, Handle, Queried, Lock, Unlock, Panic, Outcomes
  <1>2. NoneLeftRunning'
    BY DEF NoneLeftRunning, Stopped, Outcomes, Accept, Serve, Handle, Queried, Lock, Unlock, Panic
  <1>3. HolderRenders'
    <2> USE DEF HolderRenders, Stopped
    <2>1. CASE Accept(r) \/ Handle(r) \/ Queried(r)
      BY <2>1 DEF Accept, Handle, Queried
    <2>2. CASE Lock(r)
      BY <2>2, ServerAssumption DEF Lock
    <2>3. CASE Unlock(r)
      BY <2>3, ServerAssumption DEF Unlock
    <2>4. CASE Panic(r)
      BY <2>4 DEF Panic
    <2> QED BY <2>1, <2>2, <2>3, <2>4 DEF Serve
  <1> QED BY <1>1, <1>2, <1>3

\* In every state the types are right, the mutex belongs to whom renders, and
\* nothing runs when the process does not.
THEOREM Invariance == Spec => []IInv
  <1>1. IInv /\ [Next]_vars => IInv'
    <2> SUFFICES ASSUME IInv, [Next]_vars PROVE IInv'
      OBVIOUS
    <2>1. CASE UNCHANGED vars
      BY <2>1 DEF vars, IInv, TypeOK, HolderRenders, NoneLeftRunning, Stopped
    <2> QED BY <2>1, MainKeeps, WatcherKeeps, InterruptKeeps, RequestKeeps DEF Next
  <1> QED BY <1>1, InitIInv, PTL DEF Spec

\* The channel of main.go:118 holds one signal at most, and only requests for
\* table endpoints come to rngMu.
THEOREM TypeCorrect == Spec => []TypeOK
  <1>1. IInv => TypeOK
    BY DEF IInv
  <1> QED BY <1>1, Invariance, PTL

\* handler.go:93-107: two requests never use the random source together.
THEOREM ExclusiveAlways == Spec => []RngExclusive
  <1>1. IInv => RngExclusive
    BY DEF IInv, HolderRenders, RngExclusive
  <1> QED BY <1>1, Invariance, PTL

\* A mutex that is locked while nobody renders was left so by a panic
\* (handler.go:96-98 unlocks without defer): as long as none of the responses
\* panics, one who waits for rngMu waits for a request that is rendering.
LockedForRendering ==
  Panicking = {} /\ ~Stopped /\ rngMu # Nobody => state[rngMu] = "rendering"

THEOREM LockedForRenderingAlways == Spec => []LockedForRendering
  <1>1. IInv => LockedForRendering
    BY DEF IInv, HolderRenders, LockedForRendering
  <1> QED BY <1>1, Invariance, PTL
=============================================================================
