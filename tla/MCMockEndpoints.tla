-------------------------- MODULE MCMockEndpoints --------------------------
(***************************************************************************)
(* A table or none, with up to one table endpoint and two mock endpoints   *)
(* out of routes that are equal, overlap, or shadow each other.            *)
(***************************************************************************)
EXTENDS MockEndpoints

CONSTANTS users, stats, other, page, agent, mail, field, list, more, rest, noBody, blank, now, v1, v2

Names == {users, stats, other}
MCPaths == UNION {[1..n -> Names] : n \in 1..3}

Rest(name) == [is |-> "rest", of |-> name]
Patterns ==
  {<<Literal(users)>>, <<Literal(users), Param("id")>>, <<Param("thing"), Param("id")>>,
   <<Literal(users), Param("id"), Literal(stats)>>, <<Literal(users), Rest(rest)>>,
   <<Literal(stats), Param("id"), Rest(rest)>>}

Ref(source, name) == [is |-> "ref", of |-> <<source, name>>]
Spaced(source, name) == [is |-> "spaced", of |-> <<source, name>>]
TextNode(parts) == [kind |-> "text", parts |-> parts]

\* An object with a text and an array of texts.
Response(field1, field2, n) ==
  <<[kind |-> "tree", of |-> (field :> 2) @@ (list :> 3) @@ (more :> 5)],
    TextNode(field1), [kind |-> "array", items |-> 4, count |-> n], TextNode(field2),
    [kind |-> "tree", of |-> <<6, 7>>], [kind |-> "literal"], [kind |-> "spec", known |-> n # 3]>>

Word == [is |-> "text", of |-> field]
FromPath == Response(<<Ref("path", "id"), Word, Ref("query", page)>>, <<Ref("path", rest), [is |-> "ref", of |-> Now]>>, 2)
FromBody == Response(<<Ref("body", mail)>>, <<Word, Spaced("body", mail), Spaced("header", agent)>>, 0)
Spacious == Response(<<Spaced("body", mail), Spaced("path", "id")>>, <<Ref("path", "thing")>>, 1)
Faulty == Response(<<Word>>, <<Word>>, 3)

Mock(method, path, status, response) ==
  [kind |-> "mock", method |-> method, path |-> path, status |-> status, response |-> response]

Mocks ==
  {Mock("GET", p, 200, FromPath) : p \in Patterns}
    \cup {Mock("POST", p, 201, FromBody) : p \in Patterns}
    \cup {Mock("PUT", <<Literal(stats)>>, 500, Spacious), Mock("GET", <<Literal(stats)>>, 200, Faulty)}

MCTableRoutes == {[kind |-> "table", method |-> "GET", path |-> p] : p \in Patterns}

MCSchemas ==
  {[tables |-> ts, table |-> t, mock |-> m] :
     ts \in {{}, {users}}, t \in {<<>>} \cup {<<r>> : r \in MCTableRoutes},
     m \in {<<>>} \cup {<<e>> : e \in Mocks} \cup (Mocks \X Mocks)}

NoValues == [n \in {} |-> v1]
MCRequests ==
  {[method |-> m, path |-> p, query |-> q, header |-> agent :> v2, body |-> b] :
     m \in {"GET", "POST", "PUT"}, p \in {<<users>>, <<stats>>, <<users, other>>, <<users, other, stats>>, <<stats, users, other>>},
     q \in {NoValues, page :> v1}, b \in {noBody, NoValues, mail :> v2}}
=============================================================================
