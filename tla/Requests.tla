------------------------------ MODULE Requests ------------------------------
(***************************************************************************)
(* The HTTP requests of the CRUD API as the handlers of package api read   *)
(* them, and what a handler answers before it runs any statement.          *)
(*                                                                         *)
(* A request is a record: the fields `op' and `table', then `page',        *)
(* `limit' and `descending' (a list, as List and sanitizeOrder clamp them) *)
(* and `sort' (a name, whether or not it is a column), `id' (get, update,  *)
(* delete) and `body' (create, update). A response is a status code, the   *)
(* rows it carries as a function from ids, and the X-Total-Count of a list.*)
(***************************************************************************)
EXTENDS Store

CONSTANTS
  Requests,   \* the requests that clients send
  BadId,      \* an {id} path segment that ParseInt refuses
  Malformed,  \* a body that is not a JSON object
  NoRequest,  \* the request of an idle client
  NoAnswer    \* the response of a request that is not answered yet

Ops == {"list", "get", "create", "update", "delete"}
WithId == {"get", "update", "delete"}
WithBody == {"create", "update"}

IsRequest(q) ==
  /\ q.op \in Ops
  /\ q.table \in Tables =>
       /\ q.op = "list" => q.page \in Nat \ {0} /\ q.limit \in 1..100 /\ q.descending \in BOOLEAN
       /\ q.op \in WithId => q.id \in Ids \cup {BadId}
       /\ q.op \in WithBody => q.body \in Data(q.table) \cup {Malformed}

ASSUME RequestAssumption ==
  /\ \A q \in Requests : IsRequest(q)
  /\ BadId \notin Ids
  /\ \A t \in Tables : Malformed \notin Data(t)
  /\ NoRequest \notin Requests

-----------------------------------------------------------------------------
UnknownTable(q) == q.table \notin Tables
BadPath(q) == q.op \in WithId /\ q.id = BadId

\* Create decodes and validates the body before its only statement; Update
\* does so after it has looked the row up.
BadBody(q) == q.op \in WithBody /\ q.body = Malformed
InvalidBody(q) ==
  \/ q.op = "create" /\ CreateInvalid(q.table, q.body)
  \/ q.op = "update" /\ UpdateInvalid(q.table, q.body)

\* The status of the error answer to a request that reaches no statement.
EarlyRefusal(q) ==
  IF UnknownTable(q) THEN {404}
  ELSE IF BadPath(q) THEN {400}
  ELSE IF q.op # "create" THEN {}
  ELSE IF BadBody(q) THEN {400}
  ELSE IF InvalidBody(q) THEN {422}
  ELSE {}

\* writeConstraintError, and the case Delete has before it.
ConstraintStatus(op, broken) ==
  IF broken = "unique" \/ (op = "delete" /\ broken = "foreignkey") THEN 409 ELSE 400

NoRows == [i \in {} |-> NoRow]

Answered(code, body, total) == [code |-> code, body |-> body, total |-> total]
Error(code) == Answered(code, NoRows, 0)
OneRow(code, i, row) == Answered(code, [j \in {i} |-> row], 0)

Codes == {200, 201, 204, 400, 404, 409, 422, 500}
IsAnswer(a) ==
  /\ a.code \in Codes
  /\ a.total \in 0..MaxId
  /\ DOMAIN a.body \subseteq Ids
  /\ \A i \in DOMAIN a.body : a.body[i] # NoRow

ASSUME AnswerAssumption ==
  NoAnswer \notin [code : Codes, body : UNION {[S -> AnyRow] : S \in SUBSET Ids}, total : 0..MaxId]
=============================================================================
