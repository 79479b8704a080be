------------------------ MODULE MockEndpointsProofs ------------------------
(***************************************************************************)
(* Proofs about MockEndpoints, for any schemas, of any number of routes,   *)
(* with responses of any size, and any requests.                           *)
(***************************************************************************)
EXTENDS MockEndpoints, FiniteSetTheorems, WellFoundedInduction, TLAPS

\* The CRUD routes of a server, and what can go wrong at each of the two
\* registrations.
General == IF schema.tables = {} THEN {} ELSE Crud(<<Param("table")>>)
TablesConflict == ConflictsIn(schema.table, General)
MocksConflict == ConflictsIn(schema.mock, General \cup ToSet(schema.table))

\* What is in the mux, and what the phase says of the two registrations.
RoutesByPhase ==
  /\ phase = "tables" => mux = General \cup ToSet(schema.table)
  /\ phase = "serving" => mux = Promised /\ ~MocksConflict
  /\ phase \in {"tables", "serving"} => ~TablesConflict
  /\ phase = "panicked" => TablesConflict
  /\ phase = "failed" => MocksConflict

\* The request that was answered last was for a mock endpoint of the schema,
\* and its answer is that of this endpoint.
AnsweredByMock ==
  request # NoRequest =>
    \E i \in DOMAIN schema.mock :
      Handler(request) = schema.mock[i] /\ answer = AnswerOf(schema.mock[i], request)

IInv == TypeOK /\ RoutesByPhase /\ AnsweredByMock

-----------------------------------------------------------------------------
(* Conflicts *)

\* Which of two patterns comes first does not matter to their conflict.
LEMMA ConflictSymmetric ==
  ASSUME NEW p, NEW q, Conflict(p, q) PROVE Conflict(q, p)
  BY DEF Conflict

\* To register all routes at once is to register those of t first, and then
\* those of m.
LEMMA ConflictsSplit ==
  ASSUME NEW S, NEW T, NEW C, NEW m \in Seq(S), NEW t \in Seq(T)
  PROVE  ConflictsIn(m \o t, C) <=> ConflictsIn(t, C) \/ ConflictsIn(m, C \cup ToSet(t))
  <1> DEFINE a == m \o t
  <1>1. /\ Len(m) \in Nat /\ Len(t) \in Nat /\ DOMAIN m = 1..Len(m) /\ DOMAIN t = 1..Len(t)
        /\ DOMAIN a = 1..(Len(m) + Len(t))
    OBVIOUS
  <1>2. /\ \A i \in 1..Len(m) : a[i] = m[i]
        /\ \A i \in 1..Len(t) : a[Len(m) + i] = t[i]
    BY <1>1
  <1>3. \A i \in DOMAIN a : i \in DOMAIN m \/ \E k \in DOMAIN t : i = Len(m) + k
    <2> SUFFICES ASSUME NEW i \in 1..(Len(m) + Len(t)), i \notin 1..Len(m)
                 PROVE  \E k \in 1..Len(t) : i = Len(m) + k
      BY <1>1
    <2>1. i - Len(m) \in 1..Len(t) /\ i = Len(m) + (i - Len(m))
      BY <1>1
    <2> QED BY <2>1
  <1>4. /\ DOMAIN m \subseteq DOMAIN a
        /\ \A k \in DOMAIN t : Len(m) + k \in DOMAIN a
    BY <1>1
  <1>5. \A k \in DOMAIN t : t[k] \in ToSet(t)
    BY DEF ToSet
  <1> HIDE DEF a
  <1>6. ASSUME ConflictsIn(t, C) PROVE ConflictsIn(a, C)
    <2>1. CASE \E k \in DOMAIN t : \E other \in C : Conflict(t[k], other)
      BY <2>1, <1>1, <1>2, <1>4 DEF ConflictsIn
    <2>2. CASE \E k, l \in DOMAIN t : k < l /\ Conflict(t[k], t[l])
      <3>1. PICK k \in DOMAIN t, l \in DOMAIN t : k < l /\ Conflict(t[k], t[l])
        BY <2>2
      <3>2. Len(m) + k < Len(m) + l
        BY <3>1, <1>1
      <3> QED BY <3>1, <3>2, <1>1, <1>2, <1>4 DEF ConflictsIn
    <2> QED BY <1>6, <2>1, <2>2 DEF ConflictsIn
  <1>7. ASSUME ConflictsIn(m, C \cup ToSet(t)) PROVE ConflictsIn(a, C)
    <2>1. CASE \E i \in DOMAIN m : \E other \in C : Conflict(m[i], other)
      BY <2>1, <1>1, <1>2, <1>4 DEF ConflictsIn
    <2>2. CASE \E i \in DOMAIN m : \E other \in ToSet(t) : Conflict(m[i], other)
      <3>1. PICK i \in DOMAIN m, k \in DOMAIN t : Conflict(m[i], t[k])
        BY <2>2 DEF ToSet
      <3>2. i < Len(m) + k
        BY <1>1
      <3> QED BY <3>1, <3>2, <1>1, <1>2, <1>4 DEF ConflictsIn
    <2>3. CASE \E i, j \in DOMAIN m : i < j /\ Conflict(m[i], m[j])
      BY <2>3, <1>1, <1>2, <1>4 DEF ConflictsIn
    <2> QED BY <1>7, <2>1, <2>2, <2>3 DEF ConflictsIn
  <1>8. ASSUME ConflictsIn(a, C) PROVE ConflictsIn(t, C) \/ ConflictsIn(m, C \cup ToSet(t))
    <2>1. CASE \E i \in DOMAIN a : \E other \in C : Conflict(a[i], other)
      BY <2>1, <1>1, <1>2, <1>3 DEF ConflictsIn
    <2>2. CASE \E i, j \in DOMAIN a : i < j /\ Conflict(a[i], a[j])
      <3>1. PICK i \in DOMAIN a, j \in DOMAIN a : i < j /\ Conflict(a[i], a[j])
        BY <2>2
      <3>2. CASE i \in DOMAIN m /\ j \in DOMAIN m
        BY <3>1, <3>2, <1>1, <1>2 DEF ConflictsIn
      <3>3. CASE i \in DOMAIN m /\ j \notin DOMAIN m
        <4>1. PICK k \in DOMAIN t : j = Len(m) + k
          BY <3>3, <1>3
        <4>2. Conflict(m[i], t[k])
          BY <3>1, <3>3, <4>1, <1>1, <1>2
        <4> QED BY <3>3, <4>2, <1>5 DEF ConflictsIn
      <3>4. CASE i \notin DOMAIN m
        <4>1. PICK k \in DOMAIN t : i = Len(m) + k
          BY <3>4, <1>3
        <4>2. j \notin DOMAIN m
          BY <3>1, <4>1, <1>1
        <4>3. PICK l \in DOMAIN t : j = Len(m) + l
          BY <4>2, <1>3
        <4>4. k < l /\ Conflict(t[k], t[l])
          <5>1. k < l
            BY <3>1, <4>1, <4>3, <1>1
          <5>2. Conflict(t[k], t[l])
            BY <3>1, <4>1, <4>3, <1>1, <1>2
          <5> QED BY <5>1, <5>2
        <4> QED BY <4>4 DEF ConflictsIn
      <3> QED BY <3>2, <3>3, <3>4
    <2> QED BY <1>8, <2>1, <2>2 DEF ConflictsIn
  <1> QED BY <1>6, <1>7, <1>8 DEF a

\* The routes of a schema by their kinds.
LEMMA Kinds ==
  ASSUME schema \in Schemas
  PROVE  /\ schema.mock \in Seq(ToSet(schema.mock)) /\ schema.table \in Seq(ToSet(schema.table))
         /\ \A route \in ToSet(schema.mock) : route.kind = "mock" /\ route.status \in Statuses
         /\ \A route \in ToSet(schema.table) : route.kind = "table"
         /\ \A route \in Crud(<<Param("table")>>) : route.kind = "crud"
         /\ General \subseteq Crud(<<Param("table")>>)
         /\ Promised = ToSet(schema.mock) \cup ToSet(schema.table) \cup General
  <1>1. \A route \in Crud(<<Param("table")>>) : route.kind = "crud"
    BY DEF Crud
  <1>2. /\ \A route \in ToSet(schema.mock) : route.kind = "mock" /\ route.status \in Statuses
        /\ \A route \in ToSet(schema.table) : route.kind = "table"
    <2>1. ASSUME NEW route \in ToSet(schema.mock)
          PROVE  route.kind = "mock" /\ route.status \in Statuses
      <3>1. PICK i \in DOMAIN schema.mock : route = schema.mock[i]
        BY DEF ToSet
      <3> QED BY <3>1, MockAssumption
    <2>2. ASSUME NEW route \in ToSet(schema.table)
          PROVE  route.kind = "table"
      <3>1. PICK i \in DOMAIN schema.table : route = schema.table[i]
        BY DEF ToSet
      <3> QED BY <3>1, MockAssumption
    <2> QED BY <2>1, <2>2
  <1>3. schema.mock \in Seq(ToSet(schema.mock)) /\ schema.table \in Seq(ToSet(schema.table))
    BY MockAssumption
  <1>4. General \subseteq Crud(<<Param("table")>>)
    BY DEF General
  <1>5. Promised = ToSet(schema.mock) \cup ToSet(schema.table) \cup General
    BY DEF General, Promised
  <1> QED BY <1>1, <1>2, <1>3, <1>4, <1>5

-----------------------------------------------------------------------------
(* The inductive invariant *)

LEMMA InitIInv == Init => IInv
  BY DEF Init, IInv, TypeOK, RoutesByPhase, AnsweredByMock, NoRequest

LEMMA ValidateKeeps == ASSUME IInv, Validate PROVE IInv'
  <1>1. /\ phase = "parsed" /\ phase' \in {"valid", "refused"} /\ request = NoRequest
        /\ schema' = schema /\ mux' = mux /\ request' = request /\ answer' = answer
    BY DEF Validate, IInv, TypeOK
  <1> QED BY <1>1 DEF IInv, TypeOK, RoutesByPhase, AnsweredByMock, ToSet

LEMMA RegisterTablesKeeps == ASSUME IInv, RegisterTables PROVE IInv'
  <1>1. /\ schema \in Schemas /\ request = NoRequest
        /\ schema' = schema /\ request' = request /\ answer' = answer
    BY DEF RegisterTables, IInv, TypeOK
  <1>2. General' = General /\ TablesConflict' = TablesConflict /\ ToSet(schema.table)' = ToSet(schema.table)
        /\ ToSet(schema.mock)' = ToSet(schema.mock)
    BY <1>1 DEF General, TablesConflict
  <1>3. General \subseteq Crud(<<Param("table")>>)
    BY <1>1, Kinds
  <1>4. CASE TablesConflict
    <2>1. phase' = "panicked" /\ mux' = mux
      BY <1>4 DEF RegisterTables, TablesConflict, General
    <2>2. TypeOK'
      BY <1>1, <1>2, <2>1 DEF IInv, TypeOK
    <2> QED BY <1>1, <1>2, <1>4, <2>1, <2>2 DEF IInv, RoutesByPhase, AnsweredByMock
  <1>5. CASE ~TablesConflict
    <2>1. phase' = "tables" /\ mux' = General \cup ToSet(schema.table)
      BY <1>5 DEF RegisterTables, TablesConflict, General
    <2>2. TypeOK'
      BY <1>1, <1>2, <1>3, <2>1 DEF IInv, TypeOK
    <2> QED BY <1>1, <1>2, <1>5, <2>1, <2>2 DEF IInv, RoutesByPhase, AnsweredByMock
  <1> QED BY <1>4, <1>5

LEMMA RegisterMocksKeeps == ASSUME IInv, RegisterMocks PROVE IInv'
  <1>1. /\ schema \in Schemas /\ request = NoRequest
        /\ schema' = schema /\ request' = request /\ answer' = answer
    BY DEF RegisterMocks, IInv, TypeOK
  <1>2. /\ General' = General /\ TablesConflict' = TablesConflict /\ MocksConflict' = MocksConflict
        /\ ToSet(schema.table)' = ToSet(schema.table) /\ ToSet(schema.mock)' = ToSet(schema.mock)
        /\ Promised' = Promised
    BY <1>1 DEF General, TablesConflict, MocksConflict, Promised
  <1>3. phase = "tables" /\ mux = General \cup ToSet(schema.table) /\ ~TablesConflict
    BY DEF RegisterMocks, IInv, RoutesByPhase
  <1>4. /\ General \subseteq Crud(<<Param("table")>>)
        /\ Promised = ToSet(schema.mock) \cup ToSet(schema.table) \cup General
    BY <1>1, Kinds
  <1>5. CASE MocksConflict
    <2>1. phase' = "failed" /\ mux' = mux
      BY <1>3, <1>5 DEF RegisterMocks, MocksConflict
    <2>2. TypeOK'
      BY <1>1, <1>2, <2>1 DEF IInv, TypeOK
    <2> QED BY <1>1, <1>2, <1>5, <2>1, <2>2 DEF IInv, RoutesByPhase, AnsweredByMock
  <1>6. CASE ~MocksConflict
    <2>1. phase' = "serving" /\ mux' = mux \cup ToSet(schema.mock)
      BY <1>3, <1>6 DEF RegisterMocks, MocksConflict
    <2>2. TypeOK'
      BY <1>1, <1>2, <1>3, <1>4, <2>1 DEF IInv, TypeOK
    <2>3. mux' = Promised'
      BY <1>2, <1>3, <1>4, <2>1
    <2> QED BY <1>1, <1>2, <1>3, <1>6, <2>1, <2>2, <2>3 DEF IInv, RoutesByPhase, AnsweredByMock
  <1> QED BY <1>5, <1>6

-----------------------------------------------------------------------------
(* The route of a request *)

\* The CRUD routes serve different requests each.
LEMMA CrudApart ==
  ASSUME NEW p \in Crud(<<Param("table")>>), NEW q \in Crud(<<Param("table")>>), p # q
  PROVE  Served(p) \cap Served(q) = {}
  <1> DEFINE collection == <<Param("table")>>
             item == Append(collection, Param("id"))
  <1>1. /\ Len(collection) = 1 /\ Len(item) = 2
        /\ collection[1].is = "one" /\ item[2].is = "one"
    BY DEF Param
  <1>2. /\ p.path \in {collection, item} /\ q.path \in {collection, item}
        /\ p = [kind |-> "crud", method |-> p.method, path |-> p.path]
        /\ q = [kind |-> "crud", method |-> q.method, path |-> q.path]
        /\ p.method \in {"POST", "PUT", "DELETE", "GET"} /\ q.method \in {"POST", "PUT", "DELETE", "GET"}
        /\ p.method \in {"POST", "PUT", "DELETE"} /\ q.method = p.method => q.path = p.path
    BY DEF Crud
  <1>3. p.method # q.method \/ p.path # q.path
    BY <1>2
  <1>4. \A path : /\ MatchesPath(collection, path) => Len(path) = 1
                  /\ MatchesPath(item, path) => Len(path) = 2
    BY <1>1 DEF MatchesPath
  <1> HIDE DEF collection, item
  <1>5. ASSUME NEW mp \in Served(p) \cap Served(q) PROVE FALSE
    <2>1. /\ MatchesPath(p.path, mp[2]) /\ MatchesPath(q.path, mp[2])
          /\ mp[1] = p.method \/ (p.method = "GET" /\ mp[1] = "HEAD")
          /\ mp[1] = q.method \/ (q.method = "GET" /\ mp[1] = "HEAD")
      BY <1>5 DEF Served
    <2>2. p.method = q.method
      BY <2>1, <1>2
    <2>3. p.path = q.path
      BY <2>1, <1>2, <1>4
    <2> QED BY <2>2, <2>3, <1>3
  <1> QED BY <1>5

\* No two routes of a server that serves are in conflict.
LEMMA RegisteredAgree ==
  ASSUME IInv, phase = "serving", NEW p \in mux, NEW q \in mux, p # q
  PROVE  ~Conflict(p, q)
  <1>1. /\ schema \in Schemas /\ mux = Promised /\ ~TablesConflict /\ ~MocksConflict
    BY DEF IInv, TypeOK, RoutesByPhase
  <1>2. /\ schema.mock \in Seq(ToSet(schema.mock)) /\ schema.table \in Seq(ToSet(schema.table))
        /\ mux = ToSet(schema.mock) \cup ToSet(schema.table) \cup General
        /\ General \subseteq Crud(<<Param("table")>>)
    BY <1>1, Kinds
  <1>3. \A a, b \in General : a # b => ~Conflict(a, b)
    BY <1>2, CrudApart DEF Conflict
  <1>4. \A S, C : \A s \in Seq(S) :
          ~ConflictsIn(s, C) => \A a, b \in ToSet(s) : a # b => ~Conflict(a, b)
    <2> SUFFICES ASSUME NEW S, NEW C, NEW s \in Seq(S), ~ConflictsIn(s, C),
                        NEW i \in DOMAIN s, NEW j \in DOMAIN s, s[i] # s[j], Conflict(s[i], s[j])
                 PROVE  FALSE
      BY DEF ToSet
    <2>1. i \in Int /\ j \in Int /\ i # j
      <3>1. DOMAIN s = 1..Len(s) /\ Len(s) \in Nat
        OBVIOUS
      <3> QED BY <3>1
    <2>2. Conflict(s[j], s[i])
      BY ConflictSymmetric
    <2>3. i < j \/ j < i
      BY <2>1
    <2> QED BY <2>2, <2>3 DEF ConflictsIn
  <1>5. /\ \A a \in ToSet(schema.table) : \A b \in General : ~Conflict(a, b)
        /\ \A a \in ToSet(schema.mock) : \A b \in General \cup ToSet(schema.table) : ~Conflict(a, b)
    BY <1>1 DEF TablesConflict, MocksConflict, ConflictsIn, ToSet
  <1>6. /\ \A a, b \in ToSet(schema.table) : a # b => ~Conflict(a, b)
        /\ \A a, b \in ToSet(schema.mock) : a # b => ~Conflict(a, b)
    BY <1>1, <1>2, <1>4 DEF TablesConflict, MocksConflict
  <1> QED BY <1>2, <1>3, <1>5, <1>6, ConflictSymmetric

\* A server has finitely many routes.
LEMMA SequenceIsFinite == ASSUME NEW S, NEW s \in Seq(S) PROVE IsFiniteSet(ToSet(s))
  <1> DEFINE f == [i \in 1..Len(s) |-> s[i]]
  <1>1. Len(s) \in Nat /\ DOMAIN s = 1..Len(s)
    OBVIOUS
  <1>2. f \in Surjection(1..Len(s), ToSet(s))
    BY <1>1 DEF Surjection, ToSet
  <1> QED BY <1>1, <1>2, FS_NatSurjection DEF ExistsSurjection

LEMMA MuxIsFinite == ASSUME IInv, phase = "serving" PROVE IsFiniteSet(mux)
  <1>1. /\ schema.mock \in Seq(ToSet(schema.mock)) /\ schema.table \in Seq(ToSet(schema.table))
        /\ mux = ToSet(schema.mock) \cup ToSet(schema.table) \cup General
        /\ General \subseteq Crud(<<Param("table")>>)
    BY Kinds DEF IInv, TypeOK, RoutesByPhase
  <1>2. IsFiniteSet(Crud(<<Param("table")>>))
    <2> DEFINE R(method, path) == [kind |-> "crud", method |-> method, path |-> path]
               list == <<Param("table")>>
               item == Append(<<Param("table")>>, Param("id"))
               One == {R("GET", list)} \cup {R("GET", item)} \cup {R("POST", list)}
                        \cup {R("PUT", item)} \cup {R("DELETE", item)}
    <2>1. Crud(<<Param("table")>>) \subseteq One
      BY DEF Crud
    <2>2. IsFiniteSet(One)
      <3> HIDE DEF R, list, item
      <3> QED BY FS_Singleton, FS_Union
    <2> HIDE DEF One
    <2> QED BY <2>1, <2>2, FS_Subset
  <1>3. IsFiniteSet(General)
    BY <1>1, <1>2, FS_Subset
  <1> QED BY <1>1, <1>3, SequenceIsFinite, FS_Union

\* The route that a request is for is there, and every other route that
\* matches the request serves more.
MostSpecific ==
  phase = "serving" =>
    \A r \in Requests : Candidates(r) # {} =>
      /\ Handler(r) \in Candidates(r)
      /\ \A other \in Candidates(r) \ {Handler(r)} :
           Served(Handler(r)) \subseteq Served(other) /\ Served(Handler(r)) # Served(other)

LEMMA MostSpecificRoute == ASSUME IInv PROVE MostSpecific
  <1> SUFFICES ASSUME phase = "serving", NEW r \in Requests, Candidates(r) # {}
               PROVE  /\ Handler(r) \in Candidates(r)
                      /\ \A other \in Candidates(r) \ {Handler(r)} :
                           Served(Handler(r)) \subseteq Served(other) /\ Served(Handler(r)) # Served(other)
    BY DEF MostSpecific
  <1> DEFINE C == Candidates(r)
             Below(p) == {q \in C : Served(q) \subseteq Served(p)}
             Sets == {Below(p) : p \in C}
  <1>1. C \subseteq mux
    BY DEF Candidates
  <1>2. \A p, q \in C : p # q =>
          /\ Served(p) # Served(q)
          /\ Served(p) \subseteq Served(q) \/ Served(q) \subseteq Served(p)
    <2>1. \A p \in C : <<r.method, r.path>> \in Served(p)
      BY DEF Candidates
    <2> QED BY <1>1, <2>1, RegisteredAgree DEF Conflict
  <1>3. IsFiniteSet(C)
    BY <1>1, MuxIsFinite, FS_Subset
  <1> HIDE DEF C
  <1>4. IsWellFoundedOn(StrictSubsetOrdering(C), SUBSET C)
    BY <1>3, FS_FiniteSubsetsOfFinite, FS_StrictSubsetOrderingWellFounded
  <1>5. Sets \subseteq SUBSET C /\ Sets # {}
    <2>1. \A p : Below(p) \subseteq C
      OBVIOUS
    <2>2. C # {}
      BY DEF C
    <2> HIDE DEF Below
    <2> QED BY <2>1, <2>2
  <1>6. PICK X \in Sets : \A Y \in Sets : <<Y, X>> \notin StrictSubsetOrdering(C)
    <2> HIDE DEF Sets
    <2> QED BY <1>4, <1>5, WFMin
  <1>7. PICK least \in C : X = Below(least)
    BY <1>6
  <1>8. \A other \in C : Served(least) \subseteq Served(other)
    <2> SUFFICES ASSUME NEW other \in C, ~(Served(least) \subseteq Served(other))
                 PROVE  FALSE
      OBVIOUS
    <2>1. Served(other) \subseteq Served(least)
      BY <1>2
    <2>2. Below(other) \subseteq Below(least) /\ least \in Below(least) /\ least \notin Below(other)
      BY <2>1
    <2>3. Below(other) \in Sets
      OBVIOUS
    <2> HIDE DEF Below
    <2>4. <<Below(other), Below(least)>> \in StrictSubsetOrdering(C)
      <3> HIDE DEF Sets
      <3> QED BY <2>2, <2>3, <1>5, <1>6, <1>7 DEF StrictSubsetOrdering
    <2> QED BY <2>3, <2>4, <1>6, <1>7
  <1>9. /\ Handler(r) \in C
        /\ \A other \in C : Served(Handler(r)) \subseteq Served(other)
    BY <1>8 DEF Handler, C
  <1> QED BY <1>2, <1>9 DEF C

LEMMA RequestKeeps == ASSUME IInv, NEW r \in Requests, Request(r) PROVE IInv'
  <1>1. /\ phase = "serving" /\ Handler(r).kind = "mock"
        /\ request' = r /\ answer' = AnswerOf(Handler(r), r)
        /\ schema' = schema /\ mux' = mux /\ phase' = phase
    BY DEF Request
  <1>2. Handler(r) \in mux
    BY <1>1, MostSpecificRoute DEF MostSpecific, Request, Candidates
  <1>3. schema \in Schemas /\ mux = ToSet(schema.mock) \cup ToSet(schema.table) \cup General
    BY <1>1, Kinds DEF IInv, TypeOK, RoutesByPhase
  <1>4. Handler(r) \in ToSet(schema.mock) /\ Handler(r).status \in Statuses
    <2>1. Handler(r) \notin ToSet(schema.table) /\ Handler(r) \notin General
      BY <1>1, <1>3, Kinds
    <2>2. Handler(r) \in ToSet(schema.mock)
      BY <1>2, <1>3, <2>1
    <2> QED BY <1>3, <2>2, Kinds
  <1>5. answer'.status \in Statuses
          /\ (answer'.status = Handler(r).status \/ answer' = [status |-> 500, body |-> ErrorBody])
    <2>1. 500 \in Statuses
      BY DEF Statuses
    <2> QED BY <1>1, <1>4, <2>1 DEF AnswerOf
  <1>6. Handler(request)' = Handler(r)
    BY <1>1 DEF Handler, Candidates
  <1>7. TypeOK'
    BY <1>1, <1>5, <1>6 DEF IInv, TypeOK
  <1>8. RoutesByPhase'
    BY <1>1 DEF IInv, RoutesByPhase, Promised, General, TablesConflict, MocksConflict
  <1>9. AnsweredByMock'
    <2>1. PICK i \in DOMAIN schema.mock : Handler(r) = schema.mock[i]
      BY <1>4 DEF ToSet
    <2> QED BY <1>1, <1>6, <2>1 DEF AnsweredByMock
  <1> QED BY <1>7, <1>8, <1>9 DEF IInv

LEMMA StutterKeeps == ASSUME IInv, UNCHANGED vars PROVE IInv'
  <1>1. schema' = schema /\ mux' = mux /\ phase' = phase /\ request' = request /\ answer' = answer
    BY DEF vars
  <1>2. Handler(request)' = Handler(request)
    BY <1>1 DEF Handler, Candidates
  <1>3. TypeOK' /\ RoutesByPhase'
    BY <1>1, <1>2 DEF IInv, TypeOK, RoutesByPhase, Promised, General, TablesConflict, MocksConflict
  <1>4. AnsweredByMock'
    BY <1>1, <1>2 DEF IInv, AnsweredByMock
  <1> QED BY <1>3, <1>4 DEF IInv

-----------------------------------------------------------------------------
(* What is rendered *)

\* A set of natural numbers has a least one.
LEMMA LeastNatural ==
  ASSUME NEW S, S \subseteq Nat, S # {} PROVE \E m \in S : \A k \in S : m <= k
  <1>1. PICK m \in S : \A k \in S : <<k, m>> \notin OpToRel(<, Nat)
    BY NatLessThanWellFounded, WFMin
  <1>2. \A k \in S : ~(k < m)
    BY <1>1 DEF OpToRel
  <1> QED BY <1>2

\* What a node is rendered as depends on what nodes after it are rendered as.
LEMMA ChildrenAreLater ==
  ASSUME NEW template, WellFormed(template), NEW ctx, NEW n \in DOMAIN template, NEW f, NEW g,
         \A m \in (n + 1)..Len(template) : f[m] = g[m]
  PROVE  RenderedNode(template[n], f, ctx) = RenderedNode(template[n], g, ctx)
  <1> DEFINE node == template[n]
  <1>1. /\ node.kind \in {"text", "tree", "array", "spec", "literal"}
        /\ node.kind = "tree" => \A m \in DOMAIN node.of : f[node.of[m]] = g[node.of[m]]
        /\ node.kind = "array" => f[node.items] = g[node.items]
    BY DEF WellFormed
  <1> HIDE DEF node
  <1>2. CASE node.kind = "tree"
    <2>1. [m \in DOMAIN node.of |-> f[node.of[m]]] = [m \in DOMAIN node.of |-> g[node.of[m]]]
      BY <1>1, <1>2
    <2> QED BY <1>2, <2>1 DEF RenderedNode, node
  <1>3. CASE node.kind = "array"
    BY <1>1, <1>3 DEF RenderedNode, node
  <1>4. CASE node.kind \in {"text", "spec", "literal"}
    BY <1>4 DEF RenderedNode, node
  <1> QED BY <1>1, <1>2, <1>3, <1>4

\* All nodes of a template can be rendered, the last ones first.
LEMMA RenderingExists ==
  ASSUME NEW template, WellFormed(template), NEW ctx
  PROVE  \E f : f = [n \in DOMAIN template |-> RenderedNode(template[n], f, ctx)]
  <1> DEFINE N == Len(template)
             RenderedFrom(f, k) == \A n \in k..N : f[n] = RenderedNode(template[n], f, ctx)
             Done == {k \in 1..(N + 1) : \E f : f = [n \in 1..N |-> f[n]] /\ RenderedFrom(f, k)}
  <1>1. N \in Nat /\ DOMAIN template = 1..N
    BY DEF WellFormed
  <1>2. N + 1 \in Done
    <2> DEFINE h == [n \in 1..N |-> NullNode]
    <2>1. h = [n \in 1..N |-> h[n]] /\ RenderedFrom(h, N + 1)
      BY <1>1
    <2> QED BY <1>1, <2>1
  <1>3. PICK k \in Done : \A other \in Done : k <= other
    <2>1. Done \subseteq Nat
      BY <1>1
    <2> HIDE DEF Done
    <2> QED BY <1>2, <2>1, LeastNatural
  <1>4. PICK f : f = [n \in 1..N |-> f[n]] /\ RenderedFrom(f, k)
    OBVIOUS
  <1>5. k \in 1..(N + 1)
    OBVIOUS
  <1> HIDE DEF Done
  <1>6. k = 1
    <2> SUFFICES ASSUME k # 1 PROVE FALSE
      OBVIOUS
    <2> DEFINE j == k - 1
               g == [f EXCEPT ![j] = RenderedNode(template[j], f, ctx)]
    <2>1. j \in 1..N /\ k = j + 1
      BY <1>1, <1>5
    <2> HIDE DEF j
    <2>2. /\ g = [n \in 1..N |-> g[n]] /\ g[j] = RenderedNode(template[j], f, ctx)
          /\ \A n \in k..N : g[n] = f[n]
      <3>1. \A v : LET h == [f EXCEPT ![j] = v]
                  IN h = [n \in 1..N |-> h[n]] /\ h[j] = v /\ \A n \in 1..N \ {j} : h[n] = f[n]
        <4> HIDE DEF N
        <4> QED BY <1>4, <2>1
      <3>2. \A n \in k..N : n \in 1..N \ {j}
        BY <1>1, <2>1
      <3> QED BY <3>1, <3>2
    <2> HIDE DEF g
    <2>3. ASSUME NEW n \in j..N PROVE g[n] = RenderedNode(template[n], g, ctx)
      <3>1. n \in DOMAIN template /\ \A m \in (n + 1)..N : m \in k..N
        BY <1>1, <2>1
      <3>4. n = j \/ n \in k..N
        BY <1>1, <2>1
      <3>2. RenderedNode(template[n], f, ctx) = RenderedNode(template[n], g, ctx)
        <4>1. \A m \in (n + 1)..N : f[m] = g[m]
          BY <2>2, <3>1
        <4> HIDE DEF N
        <4> QED BY <3>1, <4>1, ChildrenAreLater DEF N
      <3>3. g[n] = RenderedNode(template[n], f, ctx)
        BY <1>4, <2>2, <3>4
      <3> QED BY <3>2, <3>3
    <2>4. j \in Done
      <3>1. j \in 1..(N + 1)
        BY <1>1, <2>1
      <3> QED BY <2>2, <2>3, <3>1 DEF Done
    <2> QED BY <1>3, <2>1, <2>4
  <1>7. f = [n \in 1..N |-> RenderedNode(template[n], f, ctx)]
    BY <1>4, <1>6
  <1> QED BY <1>1, <1>7

\* Render is the first of what the nodes are rendered as.
LEMMA RenderIsRendered ==
  ASSUME NEW template, WellFormed(template), NEW ctx
  PROVE  \E f : /\ \A n \in DOMAIN template : f[n] = RenderedNode(template[n], f, ctx)
                /\ Render(template, ctx) = f[1]
  <1> DEFINE Rendering(f) == f = [n \in DOMAIN template |-> RenderedNode(template[n], f, ctx)]
             chosen == CHOOSE f : Rendering(f)
  <1>1. Render(template, ctx) = chosen[1]
    BY DEF Render
  <1>2. Rendering(chosen)
    <2>1. \E f : Rendering(f)
      BY RenderingExists
    <2> HIDE DEF Rendering
    <2> QED BY <2>1
  <1>3. \A n \in DOMAIN template : chosen[n] = RenderedNode(template[n], chosen, ctx)
    <2> HIDE DEF chosen
    <2> QED BY <1>2
  <1> QED BY <1>1, <1>3

-----------------------------------------------------------------------------
(* What references stand for *)

\* The documented value, without CASE.
PlacesOf(route, name) == {k \in DOMAIN route.path : route.path[k].of = name /\ route.path[k].is # "literal"}
ValueIn(values, name) == IF name \in DOMAIN values THEN values[name] ELSE Blank

PlaceOf(route, name) == CHOOSE k \in PlacesOf(route, name) : TRUE

LEMMA DocumentedCases ==
  ASSUME NEW route, NEW r, NEW ref, ref # Now
  PROVE  /\ ref[1] = "path" =>
              DocumentedValue(route, r, ref) =
                IF PlacesOf(route, ref[2]) = {} THEN Blank ELSE r.path[PlaceOf(route, ref[2])]
         /\ ref[1] = "query" => DocumentedValue(route, r, ref) = ValueIn(r.query, ref[2])
         /\ ref[1] = "header" => DocumentedValue(route, r, ref) = ValueIn(r.header, ref[2])
         /\ ref[1] = "body" =>
              DocumentedValue(route, r, ref) = IF r.body # NoBody THEN ValueIn(r.body, ref[2]) ELSE Blank
         /\ ref[1] \notin {"path", "query", "header", "body"} => DocumentedValue(route, r, ref) = Blank
  BY DEF DocumentedValue, PlacesOf, PlaceOf, ValueIn

\* A reference that the README speaks of stands for what it says there.
LEMMA LookupDocumented ==
  ASSUME NEW s \in Schemas, NEW i \in DOMAIN s.mock, NEW r, NEW ref, ~Exempt(s.mock[i], ref)
  PROVE  Lookup(RequestContext(s.mock[i], r), ref) = DocumentedValue(s.mock[i], r, ref)
  <1> DEFINE route == s.mock[i]
             path == route.path
             ctx == RequestContext(route, r)
  <1>1. CASE ref = Now
    BY <1>1 DEF Lookup, DocumentedValue
  <1>2. CASE ref # Now
    <2> DEFINE source == ref[1]
               name == ref[2]
               values == ctx[source]
               places == PlacesOf(route, name)
    <2>1. Lookup(ctx, ref) = IF source \in DOMAIN ctx THEN ValueIn(values, name) ELSE Blank
      BY <1>2 DEF Lookup, ValueIn
    <2>2. /\ \A k \in DOMAIN path : path[k] = [is |-> path[k].is, of |-> path[k].of]
          /\ \A k, l \in DOMAIN path :
               path[k].is # "literal" /\ path[l].is # "literal" /\ path[k].of = path[l].of => k = l
          /\ \A k \in DOMAIN path : path[k].is \in {"literal", "one", "rest"}
      BY ResponseAssumption
    <2>3. /\ DOMAIN ctx = {"path", "query", "header", "body"}
          /\ ctx.path = Parameters(route, r) /\ ctx.query = r.query /\ ctx.header = r.header
          /\ ctx.body = IF ReferencesBody(route.response) /\ r.body # NoBody THEN r.body ELSE <<>>
      BY DEF RequestContext
    <2>4. CASE source = "path"
      <3> DEFINE there == CHOOSE k \in DOMAIN path : path[k] = Param(name)
      <3>1. \A k \in DOMAIN path : path[k] = Param(name) <=> k \in places
        <4>1. \A k \in places : path[k].is # "rest"
          BY <1>2, <2>4 DEF Exempt, ToSet, PlacesOf
        <4>2. \A k \in DOMAIN path : k \in places <=> path[k].of = name /\ path[k].is # "literal"
          BY DEF PlacesOf
        <4> HIDE DEF path, places
        <4> QED BY <2>2, <4>1, <4>2 DEF Param
      <3>2. name \in DOMAIN Parameters(route, r) <=> \E k \in DOMAIN path : path[k] = Param(name)
        <4>1. name \in DOMAIN Parameters(route, r) <=> \E k \in DOMAIN path : path[k].is = "one" /\ path[k].of = name
          BY DEF Parameters, ToSet
        <4> HIDE DEF path
        <4> QED BY <2>2, <4>1 DEF Param
      <3>3. name \in DOMAIN Parameters(route, r) =>
              Parameters(route, r)[name] = r.path[there]
        BY DEF Parameters
      <3>4. DocumentedValue(route, r, ref) = IF places = {} THEN Blank ELSE r.path[PlaceOf(route, name)]
        BY <1>2, <2>4, DocumentedCases
      <3>5. ASSUME places # {}
            PROVE  PlaceOf(route, name) = there
        <4>1. PICK p \in places : TRUE
          BY <3>5
        <4>2. \A k \in places : k = p
          BY <2>2, <4>1 DEF PlacesOf
        <4>3. p \in DOMAIN path /\ \A k \in DOMAIN path : path[k] = Param(name) <=> k = p
          BY <3>1, <4>1, <4>2 DEF PlacesOf
        <4>4. PlaceOf(route, name) = p
          BY <4>1, <4>2 DEF PlaceOf
        <4> HIDE DEF places, path
        <4> QED BY <4>3, <4>4
      <3>6. (\E k \in DOMAIN path : path[k] = Param(name)) <=> places # {}
        BY <3>1 DEF PlacesOf
      <3>7. Lookup(ctx, ref) = IF name \in DOMAIN Parameters(route, r) THEN Parameters(route, r)[name] ELSE Blank
        BY <2>1, <2>3, <2>4 DEF ValueIn
      <3> HIDE DEF there
      <3> QED BY <3>2, <3>3, <3>4, <3>5, <3>6, <3>7
    <2>5. CASE source \in {"query", "header"}
      <3> QED BY <1>2, <2>1, <2>3, <2>5, DocumentedCases
    <2>6. CASE source = "body"
      <3>1. ReferencesBody(route.response)
        BY <1>2, <2>6 DEF Exempt
      <3>2. ctx.body = IF r.body # NoBody THEN r.body ELSE <<>>
        BY <2>3, <3>1
      <3>3. DOMAIN <<>> = {}
        OBVIOUS
      <3> QED BY <1>2, <2>1, <2>3, <2>6, <3>2, <3>3, DocumentedCases DEF ValueIn
    <2>7. CASE source \notin {"path", "query", "header", "body"}
      <3> QED BY <1>2, <2>1, <2>3, <2>7, DocumentedCases
    <2> QED BY <2>4, <2>5, <2>6, <2>7
  <1> QED BY <1>1, <1>2

\* The children of a node are nodes.
LEMMA ChildrenAreNodes ==
  ASSUME NEW template, WellFormed(template)
  PROVE  /\ 1 \in DOMAIN template
         /\ \A n \in DOMAIN template :
              /\ template[n].kind = "tree" => \A key \in DOMAIN template[n].of : template[n].of[key] \in DOMAIN template
              /\ template[n].kind = "array" => template[n].items \in DOMAIN template
  <1>1. template \in Seq(ToSet(template)) /\ template # <<>>
    BY DEF WellFormed
  <1>2. Len(template) \in Nat /\ DOMAIN template = 1..Len(template) /\ 1 \in DOMAIN template
    BY <1>1
  <1>3. \A n \in DOMAIN template : (n + 1)..Len(template) \subseteq DOMAIN template
    BY <1>2
  <1> QED BY <1>2, <1>3 DEF WellFormed

\* Each node is rendered as the README says.
LEMMA NodesShow ==
  ASSUME NEW s \in Schemas, NEW i \in DOMAIN s.mock, NEW r, NEW f,
         \A n \in DOMAIN s.mock[i].response :
           f[n] = RenderedNode(s.mock[i].response[n], f, RequestContext(s.mock[i], r))
  PROVE  \A n \in DOMAIN s.mock[i].response : Shows(s.mock[i], r, n, f[n])
  <1> DEFINE route == s.mock[i]
             T == route.response
             ctx == RequestContext(route, r)
  <1>1. /\ WellFormed(T)
        /\ \A part \in PartsOf(T) : part.is # "text" => part.of = Now \/ part.of = <<part.of[1], part.of[2]>>
    BY ResponseAssumption
  <1>2. ASSUME NEW n \in DOMAIN T PROVE Echoes(route, r, n, f[n])
    <2> SUFFICES ASSUME T[n].kind = "text", NEW p \in DOMAIN T[n].parts
                 PROVE  LET part == T[n].parts[p]
                        IN IF part.is = "text" THEN f[n].parts[p] = part
                           ELSE \/ Exempt(route, part.of)
                                \/ f[n].parts[p] = [is |-> "value", of |-> DocumentedValue(route, r, part.of)]
      BY DEF Echoes
    <2> DEFINE part == T[n].parts[p]
    <2>1. part \in PartsOf(T)
      BY DEF PartsOf, ToSet
    <2>2. f[n] = RenderedNode(T[n], f, ctx)
      OBVIOUS
    <2>3. f[n].parts[p] = Interpolated(part, ctx)
      <3>1. f[n] = Text([k \in DOMAIN T[n].parts |-> Interpolated(T[n].parts[k], ctx)])
        <4> HIDE DEF ctx, T
        <4> QED BY <2>2 DEF RenderedNode
      <3> HIDE DEF ctx, T
      <3> QED BY <3>1 DEF Text
    <2>4. ASSUME part.is # "text", ~Exempt(route, part.of)
          PROVE  Lookup(ctx, part.of) = DocumentedValue(route, r, part.of)
      <3> HIDE DEF part
      <3> QED BY <2>4, LookupDocumented
    <2> HIDE DEF part, ctx
    <2> QED BY <2>3, <2>4 DEF Interpolated, part
  <1>3. ASSUME NEW n \in DOMAIN T, T[n].kind = "array"
        PROVE  /\ T[n].count > 0 => DOMAIN f[n].of = 1..T[n].count
               /\ \A j \in DOMAIN f[n].of : Echoes(route, r, T[n].items, f[n].of[j])
    <2>1. f[n] = Tree([j \in 1..CountOf(T[n]) |-> f[T[n].items]])
      <3>1. f[n] = RenderedNode(T[n], f, ctx)
        OBVIOUS
      <3> HIDE DEF ctx, T
      <3> QED BY <1>3, <3>1 DEF RenderedNode
    <2>2. T[n].items \in DOMAIN T
      <3> HIDE DEF T
      <3> QED BY <1>1, <1>3, ChildrenAreNodes
    <2>3. Echoes(route, r, T[n].items, f[T[n].items])
      BY <1>2, <2>2
    <2> HIDE DEF T, route
    <2> QED BY <2>1, <2>3 DEF Tree, CountOf
  <1> QED BY <1>2, <1>3 DEF Shows

\* An answer that was rendered for a request shows what the request has.
LEMMA AnswerEchoes ==
  ASSUME NEW s \in Schemas, NEW i \in DOMAIN s.mock, NEW r, AnswerOf(s.mock[i], r).body # ErrorBody
  PROVE  LET route == s.mock[i]
             root == route.response[1]
             body == AnswerOf(route, r).body
         IN /\ Shows(route, r, 1, body)
            /\ root.kind = "tree" => \A key \in DOMAIN root.of : Shows(route, r, root.of[key], body.of[key])
  <1> DEFINE route == s.mock[i]
             T == route.response
             ctx == RequestContext(route, r)
             body == AnswerOf(route, r).body
  <1>1. WellFormed(T)
    BY ResponseAssumption
  <1>2. body = Render(T, ctx)
    BY DEF AnswerOf
  <1>3. PICK f : /\ \A n \in DOMAIN T : f[n] = RenderedNode(T[n], f, ctx)
                 /\ Render(T, ctx) = f[1]
    BY <1>1, RenderIsRendered
  <1>4. \A n \in DOMAIN T : Shows(route, r, n, f[n])
    BY <1>3, NodesShow
  <1>5. 1 \in DOMAIN T
    <2> HIDE DEF T
    <2> QED BY <1>1, ChildrenAreNodes
  <1>6. ASSUME T[1].kind = "tree", NEW key \in DOMAIN T[1].of
        PROVE  Shows(route, r, T[1].of[key], body.of[key])
    <2>1. T[1].of[key] \in DOMAIN T
      <3> HIDE DEF T
      <3> QED BY <1>1, <1>5, <1>6, ChildrenAreNodes
    <2>2. body = RenderedNode(T[1], f, ctx)
      BY <1>2, <1>3, <1>5
    <2>3. body.of[key] = f[T[1].of[key]]
      <3> HIDE DEF body, T, ctx
      <3> QED BY <1>6, <2>2 DEF RenderedNode, Tree
    <2>4. Shows(route, r, T[1].of[key], f[T[1].of[key]])
      BY <1>4, <2>1
    <2> QED BY <2>3, <2>4
  <1>7. body = f[1]
    BY <1>2, <1>3
  <1>8. Shows(route, r, 1, body)
    BY <1>4, <1>5, <1>7
  <1> QED BY <1>6, <1>8

-----------------------------------------------------------------------------
\* The invariant holds in every state.
THEOREM Invariance == Spec => []IInv
  <1>1. Init => IInv
    BY InitIInv
  <1>2. IInv /\ [Next]_vars => IInv'
    BY ValidateKeeps, RegisterTablesKeeps, RegisterMocksKeeps, RequestKeeps, StutterKeeps DEF Next
  <1> QED BY <1>1, <1>2, PTL DEF Spec

\* An answer has the status that the endpoint of the request declares, or is
\* an error without its response (mock.go:66-83).
THEOREM TypeCorrect == Spec => []TypeOK
  <1>1. IInv => TypeOK
    BY DEF IInv
  <1> QED BY <1>1, Invariance, PTL

\* A schema with conflicting routes is never served, one without them is never
\* refused by the mux, and all routes of a schema that is served are registered.
THEOREM ConflictAlways == Spec => []ConflictIsStartupError
  <1>1. IInv => ConflictIsStartupError
    <2> SUFFICES ASSUME IInv PROVE ConflictIsStartupError
      OBVIOUS
    <2>1. schema \in Schemas /\ RoutesByPhase
      BY DEF IInv, TypeOK
    <2>2. Promised \ (ToSet(schema.mock) \cup ToSet(schema.table)) = General
      <3>1. Promised = ToSet(schema.mock) \cup ToSet(schema.table) \cup General
        BY <2>1, Kinds
      <3>2. \A route \in General : route.kind = "crud"
        BY <2>1, Kinds
      <3>3. \A route \in ToSet(schema.mock) \cup ToSet(schema.table) : route.kind # "crud"
        BY <2>1, Kinds
      <3> QED BY <3>1, <3>2, <3>3
    <2>3. ConflictsIn(schema.mock \o schema.table, General) <=> TablesConflict \/ MocksConflict
      BY <2>1, Kinds, ConflictsSplit DEF TablesConflict, MocksConflict
    <2> QED BY <2>1, <2>2, <2>3 DEF ConflictIsStartupError, RoutesByPhase
  <1> QED BY <1>1, Invariance, PTL

\* The mux of a server that serves has one most specific route for each
\* request that it has a route for.
THEOREM DispatchAlways == Spec => []MostSpecific
  <1>1. IInv => MostSpecific
    BY MostSpecificRoute
  <1> QED BY <1>1, Invariance, PTL

\* The text of an answer shows what its request has in the places that the
\* references name, whatever the templates and the requests are.
THEOREM EchoedAlways == Spec => []RequestIsEchoed
  <1>1. IInv => RequestIsEchoed
    <2> SUFFICES ASSUME IInv, request # NoRequest, answer.body # ErrorBody
                 PROVE  LET route == Handler(request)
                            root == route.response[1]
                        IN /\ Shows(route, request, 1, answer.body)
                           /\ root.kind = "tree" =>
                                \A key \in DOMAIN root.of : Shows(route, request, root.of[key], answer.body.of[key])
      BY DEF RequestIsEchoed
    <2>1. schema \in Schemas
      BY DEF IInv, TypeOK
    <2>2. PICK i \in DOMAIN schema.mock :
            Handler(request) = schema.mock[i] /\ answer = AnswerOf(schema.mock[i], request)
      BY DEF IInv, AnsweredByMock
    <2> QED BY <2>1, <2>2, AnswerEchoes
  <1> QED BY <1>1, Invariance, PTL
=============================================================================
