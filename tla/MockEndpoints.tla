--------------------------- MODULE MockEndpoints ---------------------------
(***************************************************************************)
(* The routes of a schema, CRUD, table endpoints and mock endpoints, from  *)
(* validation to the mux, and the answers of the mock endpoints.           *)
(*                                                                         *)
(* A route has a `method' and a `path', a sequence of segments, each       *)
(* [is |-> "literal", "one" ({name}) or "rest" ({name...}), of]. A mock    *)
(* endpoint also has a `status' and a `response', a template of Templates  *)
(* whose references are <<source, name>> or Now; a reference that is       *)
(* written with spaces inside its braces is a part with is |-> "spaced".   *)
(***************************************************************************)
EXTENDS Templates

CONSTANTS
  Schemas,   \* records: tables (names), table and mock (sequences of routes)
  Paths,     \* the paths of requests: sequences of literals
  Requests,  \* records: method, path, query, header, body
  NoBody,    \* a body that is no JSON object, or too large
  Blank,     \* the empty string
  Now        \* the reference {{now}}, and what it stands for

Methods == {"GET", "HEAD", "POST", "PUT", "PATCH", "DELETE"}

\* The statuses of mocks. Validation does not look at a status; WriteHeader
\* panics from 1000 on, and takes one below 200 for no answer.
Statuses == 200..999

ASSUME MockAssumption ==
  /\ \A s \in Schemas :
       /\ s.mock \in Seq(ToSet(s.mock)) /\ s.table \in Seq(ToSet(s.table))
       /\ \A i \in DOMAIN s.mock : s.mock[i].kind = "mock" /\ s.mock[i].status \in Statuses
       /\ \A i \in DOMAIN s.table : s.table[i].kind = "table"
  /\ \A r \in Requests : r.method \in Methods /\ r.path \in Paths

VARIABLES
  schema,   \* the schema
  mux,      \* the routes that are registered
  phase,    \* "parsed", "valid", "tables", "serving"; "refused", "panicked", "failed"
  request,  \* the request that was answered last, or NoRequest
  answer    \* its status and body

vars == <<schema, mux, phase, request, answer>>

NoRequest == [method |-> "none"]
NoAnswer == [status |-> 0, body |-> NullNode]

\* The body of WriteError, which shows nothing of the response.
ErrorBody == [kind |-> "error"]

Key(route) == <<route.method, route.path>>

-----------------------------------------------------------------------------
(* net/http.ServeMux *)

MatchesPath(segments, path) ==
  LET n == Len(segments)
      open == n > 0 /\ segments[n].is = "rest"
  IN /\ IF open THEN Len(path) >= n ELSE Len(path) = n
     /\ \A k \in 1..n : segments[k].is = "literal" => segments[k].of = path[k]

\* GET is for HEAD requests, too.
Served(route) ==
  {mp \in Methods \X Paths :
     /\ mp[1] = route.method \/ (route.method = "GET" /\ mp[1] = "HEAD")
     /\ MatchesPath(route.path, mp[2])}

\* Registering one of two patterns after the other panics: some requests are
\* for both, and neither is the more specific one.
Conflict(p, q) ==
  LET P == Served(p)
      Q == Served(q)
  IN P \cap Q # {} /\ (P = Q \/ ~(P \subseteq Q \/ Q \subseteq P))

ConflictsIn(routes, others) ==
  \/ \E i \in DOMAIN routes : \E other \in others : Conflict(routes[i], other)
  \/ \E i, j \in DOMAIN routes : i < j /\ Conflict(routes[i], routes[j])

\* The route that a request is for.
Candidates(r) == {route \in mux : <<r.method, r.path>> \in Served(route)}
Handler(r) == CHOOSE route \in Candidates(r) : \A other \in Candidates(r) : Served(route) \subseteq Served(other)

-----------------------------------------------------------------------------
(* From the schema to the mux *)

Literal(name) == [is |-> "literal", of |-> name]
Param(name) == [is |-> "one", of |-> name]

Crud(collection) ==
  LET item == Append(collection, Param("id"))
      Routes == {<<"GET", collection>>, <<"GET", item>>, <<"POST", collection>>, <<"PUT", item>>, <<"DELETE", item>>}
  IN {[kind |-> "crud", method |-> r[1], path |-> r[2]] : r \in Routes}

\* validateEndpoints and validateTableEndpoints, as far as they look at routes
\* (CRUDRoutes spells the routes of a table with its name).
ValidRoutes(s) ==
  LET keys == [i \in DOMAIN s.mock |-> Key(s.mock[i])] \o [i \in DOMAIN s.table |-> Key(s.table[i])]
      named == {Key(r) : r \in UNION {Crud(<<Literal(t)>>) : t \in s.tables}}
  IN /\ s.tables # {} \/ s.mock # <<>>
     /\ IsInjective(keys)
     /\ \A i \in DOMAIN s.mock : s.mock[i].method \in Methods \ {"HEAD"}
     /\ \A i \in DOMAIN s.table :
          s.table[i].method = "GET" /\ Key(s.table[i]) \notin named /\ s.tables # {}

Validate ==
  /\ phase = "parsed"
  /\ phase' = IF ValidRoutes(schema) THEN "valid" ELSE "refused"
  /\ UNCHANGED <<schema, mux, request, answer>>

\* Register and RegisterTableEndpoints, which lets the panic through.
RegisterTables ==
  LET crud == IF schema.tables = {} THEN {} ELSE Crud(<<Param("table")>>)
  IN /\ phase = "valid"
     /\ IF ConflictsIn(schema.table, crud)
        THEN phase' = "panicked" /\ UNCHANGED mux
        ELSE phase' = "tables" /\ mux' = crud \cup ToSet(schema.table)
     /\ UNCHANGED <<schema, request, answer>>

\* Mutated form: an endpoint that cannot be registered is passed over.
RegisterWhatFits ==
  /\ phase = "tables"
  /\ phase' = "serving"
  /\ mux' = mux \cup {schema.mock[i] : i \in {j \in DOMAIN schema.mock :
                        ~\E other \in mux : Conflict(schema.mock[j], other)}}
  /\ UNCHANGED <<schema, request, answer>>

\* Register of the mock endpoints recovers from the panic, and main gives up.
RegisterMocks ==
  /\ phase = "tables"
  /\ IF ConflictsIn(schema.mock, mux)
     THEN phase' = "failed" /\ UNCHANGED mux
     ELSE phase' = "serving" /\ mux' = mux \cup ToSet(schema.mock)
  /\ UNCHANGED <<schema, request, answer>>

-----------------------------------------------------------------------------
(* The answer of a mock endpoint *)

PartsOf(template) ==
  UNION {ToSet(template[n].parts) : n \in {m \in DOMAIN template : template[m].kind = "text"}}

\* Responses are JSON values, references have a source and a name, and the
\* wildcards of a pattern different names (net/http refuses others).
ASSUME ResponseAssumption ==
  \A s \in Schemas : \A i \in DOMAIN s.mock :
    LET path == s.mock[i].path
        template == s.mock[i].response
    IN /\ \A k \in DOMAIN path : path[k] = [is |-> path[k].is, of |-> path[k].of]
       /\ \A k, l \in DOMAIN path :
            path[k].is # "literal" /\ path[l].is # "literal" /\ path[k].of = path[l].of => k = l
       /\ \A k \in DOMAIN path : path[k].is \in {"literal", "one", "rest"}
       /\ WellFormed(template)
       /\ \A part \in PartsOf(template) :
            part.is # "text" => part.of = Now \/ part.of = <<part.of[1], part.of[2]>>

\* The text {{body occurs: a reference with spaces does not count.
ReferencesBody(template) ==
  \E part \in PartsOf(template) : part.is = "ref" /\ part.of # Now /\ part.of[1] = "body"

\* Mutated form: a parameter has the value of the segment before it.
ParametersShifted(route, r) ==
  [name \in {seg.of : seg \in {s \in ToSet(route.path) : s.is = "one"}} |->
     LET k == CHOOSE i \in DOMAIN route.path : route.path[i] = Param(name)
     IN IF k = 1 THEN Blank ELSE r.path[k - 1]]

\* ParamNames and PathValue: the name of {name...} is taken with its dots,
\* which names nothing.
Parameters(route, r) ==
  [name \in {seg.of : seg \in {s \in ToSet(route.path) : s.is = "one"}} |->
     r.path[CHOOSE k \in DOMAIN route.path : route.path[k] = Param(name)]]

\* BuildRequestContext, its keys source.name as a record of functions.
RequestContext(route, r) ==
  [path |-> Parameters(route, r), query |-> r.query, header |-> r.header,
   body |-> IF ReferencesBody(route.response) /\ r.body # NoBody THEN r.body ELSE <<>>]

\* lookup: a missing name stands for the empty string.
Lookup(ctx, ref) ==
  IF ref = Now THEN Now
  ELSE IF ref[1] \in DOMAIN ctx /\ ref[2] \in DOMAIN ctx[ref[1]] THEN ctx[ref[1]][ref[2]]
  ELSE Blank

Interpolated(part, ctx) ==
  IF part.is = "text" THEN part ELSE [is |-> "value", of |-> Lookup(ctx, part.of)]

\* renderSpec: the count of an array, of which there is one if it has none.
CountOf(node) == IF node.count > 0 THEN node.count ELSE 1

\* What a node is rendered as, where made has what its children are.
RenderedNode(node, made, ctx) ==
  CASE node.kind = "text" -> Text([p \in DOMAIN node.parts |-> Interpolated(node.parts[p], ctx)])
    [] node.kind = "tree" -> Tree([m \in DOMAIN node.of |-> made[node.of[m]]])
    [] node.kind = "array" -> Tree([i \in 1..CountOf(node) |-> made[node.items]])
    [] node.kind = "spec" -> Generated
    [] node.kind = "literal" -> node

Render(template, ctx) ==
  LET rendered[n \in DOMAIN template] == RenderedNode(template[n], rendered, ctx)
  IN rendered[1]

\* Mutated form: the error of a generator is not returned.
AnswerAlways(route, r) ==
  [status |-> IF \A node \in ToSet(route.response) : node.kind = "spec" => node.known
              THEN route.status ELSE 500,
   body |-> Render(route.response, RequestContext(route, r))]

\* A generator of an unknown type is an error.
AnswerOf(route, r) ==
  IF \A node \in ToSet(route.response) : node.kind = "spec" => node.known
  THEN [status |-> route.status, body |-> Render(route.response, RequestContext(route, r))]
  ELSE [status |-> 500, body |-> ErrorBody]

Request(r) ==
  /\ phase = "serving"
  /\ Candidates(r) # {} /\ Handler(r).kind = "mock"
  /\ request' = r
  /\ answer' = AnswerOf(Handler(r), r)
  /\ UNCHANGED <<schema, mux, phase>>

-----------------------------------------------------------------------------
Init ==
  /\ schema \in Schemas
  /\ mux = {} /\ phase = "parsed"
  /\ request = NoRequest /\ answer = NoAnswer

Next == Validate \/ RegisterTables \/ RegisterMocks \/ \E r \in Requests : Request(r)

Spec == Init /\ [][Next]_vars

-----------------------------------------------------------------------------
(* Correctness *)

\* An answer has the status of the endpoint that the request is for, or is an
\* error that shows nothing of the response.
TypeOK ==
  /\ schema \in Schemas
  /\ mux \subseteq Crud(<<Param("table")>>) \cup ToSet(schema.table) \cup ToSet(schema.mock)
  /\ phase \in {"parsed", "valid", "tables", "serving", "refused", "panicked", "failed"}
  /\ request \in Requests \cup {NoRequest}
  /\ request # NoRequest =>
       /\ phase = "serving" /\ answer.status \in Statuses
       /\ answer.status = Handler(request).status \/ answer = [status |-> 500, body |-> ErrorBody]

\* The routes that the README promises for the schema, CRUD in general.
Promised ==
  ToSet(schema.mock) \cup ToSet(schema.table)
    \cup IF schema.tables = {} THEN {} ELSE Crud(<<Param("table")>>)

\* README.md:366-368 and 485-490: two routes with the same method and path, or
\* two that overlap where neither is more specific, stop the program before it
\* serves, however the two came to the mux; other routes are all served.
ConflictIsStartupError ==
  LET crud == Promised \ (ToSet(schema.mock) \cup ToSet(schema.table))
      conflict == ConflictsIn(schema.mock \o schema.table, crud)
  IN /\ conflict => phase # "serving"
     /\ phase = "serving" => mux = Promised
     /\ phase \in {"failed", "panicked"} => conflict

\* What {{source.name}} stands for by README.md:344-355.
DocumentedValue(route, r, ref) ==
  CASE ref = Now -> Now
    [] ref # Now /\ ref[1] = "path" ->
         LET places == {k \in DOMAIN route.path : route.path[k].of = ref[2] /\ route.path[k].is # "literal"}
         IN IF places = {} THEN Blank ELSE r.path[CHOOSE k \in places : TRUE]
    [] ref # Now /\ ref[1] = "query" -> IF ref[2] \in DOMAIN r.query THEN r.query[ref[2]] ELSE Blank
    [] ref # Now /\ ref[1] = "header" -> IF ref[2] \in DOMAIN r.header THEN r.header[ref[2]] ELSE Blank
    [] ref # Now /\ ref[1] = "body" ->
         IF r.body # NoBody /\ ref[2] \in DOMAIN r.body THEN r.body[ref[2]] ELSE Blank
    [] OTHER -> Blank

\* The README does not speak of {name...}; a body is read for the sake of a
\* reference without spaces inside its braces.
Exempt(route, ref) ==
  \/ ref # Now /\ ref[1] = "path" /\ \E seg \in ToSet(route.path) : seg.is = "rest" /\ seg.of = ref[2]
  \/ ref # Now /\ ref[1] = "body" /\ ~ReferencesBody(route.response)

\* In made, which the n-th node of the response is rendered as.
Echoes(route, r, n, made) ==
  LET node == route.response[n]
  IN node.kind = "text" =>
       \A p \in DOMAIN node.parts :
         LET part == node.parts[p]
         IN IF part.is = "text" THEN made.parts[p] = part
            ELSE \/ Exempt(route, part.of)
                 \/ made.parts[p] = [is |-> "value", of |-> DocumentedValue(route, r, part.of)]

Shows(route, r, n, made) ==
  LET node == route.response[n]
  IN /\ Echoes(route, r, n, made)
     /\ node.kind = "array" =>
          /\ node.count > 0 => DOMAIN made.of = 1..node.count
          /\ \A i \in DOMAIN made.of : Echoes(route, r, node.items, made.of[i])

\* Each reference in a text of the answer of a mock endpoint has been replaced
\* by what the request has there, or by nothing; a text occurs as often as the
\* count of its array says.
RequestIsEchoed ==
  request # NoRequest /\ answer.body # ErrorBody =>
    LET route == Handler(request)
        root == route.response[1]
    IN /\ Shows(route, request, 1, answer.body)
       /\ root.kind = "tree" =>
            \A key \in DOMAIN root.of : Shows(route, request, root.of[key], answer.body.of[key])
=============================================================================
