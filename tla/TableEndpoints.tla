--------------------------- MODULE TableEndpoints ---------------------------
(***************************************************************************)
(* One entry of table_endpoints: what validateTableEndpoints makes of it   *)
(* when the program starts, the query that BuildQuery puts together for a  *)
(* request, the rows that SQLite then yields, and the answer that is       *)
(* rendered from them.                                                     *)
(*                                                                         *)
(* An entry is a record: `tables', `joins' (each with `type', `local' and  *)
(* `foreign'), `where' (each condition compares `column' with the request  *)
(* parameter `param'), `order' (`column', `desc'), `limit' and `response', *)
(* a template. References are <<table, column>> pairs. A row of a query    *)
(* maps the tables of its FROM clause to ids, or to NoRow where an outer   *)
(* join has found none. Values are positive numbers.                       *)
(***************************************************************************)
EXTENDS Templates

CONSTANTS
  Tables,     \* names of the tables of the schema
  Columns,    \* Columns[t]: the declared columns of table t, in order
  Schemas,    \* what the foreign key columns of the schema may refer to
  Databases,  \* contents: a function from ids to rows for every table
  Endpoints,  \* the entries
  Contexts,   \* the parameters of requests, as functions from their names
  Id,         \* the name of the implicit id column
  Blank,      \* the value of a parameter that the request does not have
  Null,       \* SQL NULL
  NoRow,      \* no row of a table
  Alias,      \* Alias[ref]: the name table__column of a reference
  NoOrder, NoLimit

ASSUME EndpointAssumption ==
  /\ \A ep \in Endpoints :
       /\ ep.tables \in Seq(ToSet(ep.tables)) /\ ep.joins \in Seq(ToSet(ep.joins))
       /\ ep.limit \in Int \cup {NoLimit}
       /\ WellFormed(ep.response) /\ Refs(ep.response) \subseteq DOMAIN Alias
  /\ NoLimit \notin Int
  /\ \A t \in Tables : Columns[t] \in Seq(ToSet(Columns[t]))
  /\ \A fk \in Schemas : \A p \in DOMAIN fk : p[2] \in ToSet(Columns[p[1]])
  /\ \A d \in Databases :
       LET ids == UNION {DOMAIN d[t] : t \in Tables}
       IN DOMAIN d = Tables /\ IsFiniteSet(ids) /\ Null \notin ids /\ NoRow \notin ids

VARIABLES
  foreignKey,  \* maps the foreign key columns to the tables they refer to
  database,    \* the contents of the tables
  endpoint,    \* the entry
  phase,       \* "parsed", "refused" or "serving", "answered" or "failed"
  context,     \* the parameters of the last request
  rows,        \* the rows its query yielded
  answer       \* what it was answered

vars == <<foreignKey, database, endpoint, phase, context, rows, answer>>

Listed == ToSet(endpoint.tables)

-----------------------------------------------------------------------------
(* validateTableEndpoints *)

Known(ref) ==
  /\ ref[1] \in Listed \cap Tables
  /\ ref[2] = Id \/ ref[2] \in ToSet(Columns[ref[1]])

ValidTables == endpoint.tables # <<>> /\ Listed \subseteq Tables /\ IsInjective(endpoint.tables)

\* The model has two of the types that allowedJoinTypes lists.
ValidJoins ==
  \A join \in ToSet(endpoint.joins) :
    join.type \in {"INNER", "LEFT"} /\ Known(join.local) /\ Known(join.foreign)

\* A condition is only asked for its table. References of the response to
\* tables that are not listed stay as they are.
ValidRefs ==
  /\ \A cond \in ToSet(endpoint.where) : cond.column[1] \in Listed
  /\ endpoint.order # NoOrder => Known(endpoint.order.column)
  /\ \A ref \in Refs(endpoint.response) : ref[1] \in Listed => Known(ref)

Validate ==
  /\ phase = "parsed"
  /\ phase' = IF ValidTables /\ ValidJoins /\ ValidRefs THEN "serving" ELSE "refused"
  /\ UNCHANGED <<foreignKey, database, endpoint, context, rows, answer>>

-----------------------------------------------------------------------------
(* InferJoins *)

\* The positions of the columns of child that refer to parent.
References(parent, child) ==
  {k \in DOMAIN Columns[child] :
     LET p == <<child, Columns[child][k]>> IN p \in DOMAIN foreignKey /\ foreignKey[p] = parent}

Inferable ==
  \A k \in 1..(Len(endpoint.tables) - 1) :
    LET left == endpoint.tables[k]
        right == endpoint.tables[k + 1]
    IN References(left, right) # {} \/ References(right, left) # {}

\* Mutated form: the ids of both tables are compared.
FoundById(parent, child) ==
  [type |-> "INNER", local |-> <<parent, Id>>, foreign |-> <<child, Id>>]

\* findJoin: by the first column of child that refers to parent.
FoundJoin(parent, child) ==
  LET first == CHOOSE k \in References(parent, child) : \A l \in References(parent, child) : k <= l
  IN [type |-> "INNER", local |-> <<parent, Id>>, foreign |-> <<child, Columns[child][first]>>]

\* Mutated form: the table before is taken for the child.
InferredBackwards(left, right) ==
  IF References(right, left) # {} THEN FoundJoin(right, left) ELSE FoundById(right, left)

InferredJoin(left, right) ==
  IF References(left, right) # {} THEN FoundJoin(left, right) ELSE FoundJoin(right, left)

Joins ==
  IF endpoint.joins # <<>> THEN endpoint.joins
  ELSE [k \in 1..(Len(endpoint.tables) - 1) |->
          InferredJoin(endpoint.tables[k], endpoint.tables[k + 1])]

-----------------------------------------------------------------------------
(* BuildQuery, and what the query means *)

\* FROM the first table, JOIN the table on the right of each ON.
Sources == <<Head(endpoint.tables)>> \o [k \in DOMAIN Joins |-> Joins[k].foreign[1]]

JoinedBefore(k) == {Sources[i] : i \in 1..(k + 1)}

\* SQLite finds what the query names, and finds it once. It looks for the
\* tables of an outer join's ON only to the left, for others everywhere.
Prepared ==
  /\ IsInjective(Sources)
  /\ Listed \subseteq ToSet(Sources)
  /\ \A k \in DOMAIN Joins :
       /\ Joins[k].local[1] \in ToSet(Sources)
       /\ Joins[k].type = "LEFT" => Joins[k].local[1] \in JoinedBefore(k)
  /\ \A cond \in ToSet(endpoint.where) : Known(cond.column)

ValueOf(row, ref) ==
  IF row[ref[1]] = NoRow THEN Null
  ELSE IF ref[2] = Id THEN row[ref[1]]
  ELSE database[ref[1]][row[ref[1]]][ref[2]]

\* The condition of a join, as far as its tables are in the row.
On(row, join) ==
  join.local[1] \in DOMAIN row =>
    /\ ValueOf(row, join.local) # Null
    /\ ValueOf(row, join.local) = ValueOf(row, join.foreign)

\* The row with row i of table t.
With(row, t, i) == [u \in DOMAIN row \cup {t} |-> IF u \in DOMAIN row THEN row[u] ELSE i]

\* The rows that match row in the table of the join.
Partners(row, join) ==
  {i \in DOMAIN database[join.foreign[1]] : On(With(row, join.foreign[1], i), join)}

\* Mutated form: BuildJoinClause writes INNER whatever the type is.
InnerJoined(product, join) ==
  UNION {{With(row, join.foreign[1], i) : i \in Partners(row, join)} : row \in product}

Joined(product, join) ==
  UNION {{With(row, join.foreign[1], i) :
            i \in IF join.type = "LEFT" /\ Partners(row, join) = {}
                  THEN {NoRow} ELSE Partners(row, join)} : row \in product}

\* The first table, joined with k others one after the other.
FirstRows == {[t \in {Head(endpoint.tables)} |-> i] : i \in DOMAIN database[Head(endpoint.tables)]}

Product(k, product) == IF k = 0 THEN FirstRows ELSE Joined(product[k - 1], Joins[k])

From ==
  LET product[k \in 0..Len(Joins)] == Product(k, product)
  IN product[Len(Joins)]

\* InterpolateWhere: a placeholder stands for the empty string if the request
\* has no such parameter.
Parameter(ctx, param) == IF param \in DOMAIN ctx THEN ctx[param] ELSE Blank

Satisfies(row, ctx) ==
  \A cond \in ToSet(endpoint.where) : ValueOf(row, cond.column) = Parameter(ctx, cond.param)

\* An inner join that looks to the right is a condition on whole rows.
Selected(ctx) ==
  {row \in From :
     Satisfies(row, ctx) /\ \A join \in ToSet(Joins) : join.type = "INNER" => On(row, join)}

\* NULL is the smallest value.
Rank(row) ==
  LET value == ValueOf(row, endpoint.order.column) IN IF value = Null THEN 0 ELSE value

InOrder(s) ==
  endpoint.order # NoOrder =>
    \A i, j \in DOMAIN s : i < j =>
      IF endpoint.order.desc THEN Rank(s[i]) >= Rank(s[j]) ELSE Rank(s[i]) <= Rank(s[j])

\* SQLite takes a negative limit, which validation lets through, for none.
Limited(s) ==
  IF endpoint.limit \notin 0..Len(s) THEN s
  ELSE SubSeq(s, 1, endpoint.limit)

Results(ctx) == {Limited(s) : s \in {q \in SetToSeqs(Selected(ctx)) : InOrder(q)}}

-----------------------------------------------------------------------------
(* BuildSelectColumns and scanRows *)

\* The columns of table t in the result: its id, and what the response names.
SelectedOf(t) == {<<t, Id>>} \cup {ref \in Refs(endpoint.response) : ref[1] = t}

\* Columns of a result are found by name: of those with one alias, which are
\* of different tables, the last is kept.
Scanned(row) ==
  LET Holders(a) == {k \in DOMAIN endpoint.tables : \E ref \in SelectedOf(endpoint.tables[k]) : Alias[ref] = a}
      Latest(a) == CHOOSE k \in Holders(a) : \A l \in Holders(a) : l <= k
      Source(a) == CHOOSE ref \in SelectedOf(endpoint.tables[Latest(a)]) : Alias[ref] = a
  IN [a \in {Alias[ref] : ref \in UNION {SelectedOf(t) : t \in Listed}} |-> ValueOf(row, Source(a))]

-----------------------------------------------------------------------------
Init ==
  /\ foreignKey \in Schemas
  /\ database \in Databases
  /\ endpoint \in Endpoints
  /\ phase = "parsed"
  /\ context = <<>>
  /\ rows = <<>>
  /\ answer = NullNode

\* Mutated form: the handler goes on after an error, without rows.
RequestGoesOn(ctx) ==
  /\ phase = "serving"
  /\ context' = ctx
  /\ phase' = IF Prepared THEN "answered" ELSE "failed"
  /\ rows' = <<>>
  /\ answer' = RenderedRows(endpoint.response, Alias, <<>>)
  /\ UNCHANGED <<foreignKey, database, endpoint>>

\* The handler of the endpoint: no join to be inferred or a query that SQLite
\* does not prepare is an internal error. A request leaves nothing behind for
\* the next: each behaviour has one.
Request(ctx) ==
  /\ phase = "serving"
  /\ context' = ctx
  /\ IF (endpoint.joins # <<>> \/ Inferable) /\ Prepared
     THEN /\ phase' = "answered"
          /\ rows' \in Results(ctx)
          /\ answer' = RenderedRows(endpoint.response, Alias, [k \in DOMAIN rows' |-> Scanned(rows'[k])])
     ELSE phase' = "failed" /\ rows' = <<>> /\ answer' = NullNode
  /\ UNCHANGED <<foreignKey, database, endpoint>>

Next == Validate \/ \E ctx \in Contexts : Request(ctx)

Spec == Init /\ [][Next]_vars

-----------------------------------------------------------------------------
(* Correctness *)

\* Every row of an answer has a part for each table listed, and an error shows
\* no rows.
TypeOK ==
  /\ foreignKey \in Schemas /\ database \in Databases /\ endpoint \in Endpoints
  /\ phase \in {"parsed", "refused", "serving", "answered", "failed"}
  /\ context \in Contexts \cup {<<>>}
  /\ phase # "answered" => rows = <<>> /\ answer = NullNode
  /\ \A row \in ToSet(rows) :
       DOMAIN row = Listed /\ \A t \in Listed : row[t] \in DOMAIN database[t] \cup {NoRow}

\* The foreign key columns between the k-th table listed and the next.
Between(k) ==
  {p \in DOMAIN foreignKey : {p[1], foreignKey[p]} = {endpoint.tables[k], endpoint.tables[k + 1]}}

\* A row for each way to pick rows of the listed tables that are linked, each
\* table with the next, by the foreign key column link[k].
Linked(link, ctx) ==
  {row \in [Listed -> UNION {DOMAIN database[t] : t \in Listed}] :
     /\ \A t \in Listed : row[t] \in DOMAIN database[t]
     /\ \A k \in DOMAIN link : ValueOf(row, link[k]) = row[foreignKey[link[k]]]
     /\ Satisfies(row, ctx)}

\* An answer over inferred joins is the documented one (README.md:471-473):
\* the linked rows that satisfy the conditions, none left out but by the
\* limit, and then none that comes before one that is there.
AnswerIsDocumented ==
  phase = "answered" /\ endpoint.joins = <<>> =>
    \E link \in [1..(Len(endpoint.tables) - 1) -> DOMAIN foreignKey] :
      /\ \A k \in DOMAIN link : link[k] \in Between(k)
      /\ LET documented == Linked(link, context)
             leftOut == documented \ ToSet(rows)
         IN /\ IsInjective(rows) /\ ToSet(rows) \subseteq documented
            /\ leftOut # {} => Len(rows) = endpoint.limit
            /\ \A row \in leftOut : rows # <<>> => InOrder(Append(rows, row))

\* An outer join, asked for by `type', keeps each row of the first table.
LeftJoinKeepsRows ==
  /\ phase = "answered" /\ endpoint.where = <<>> /\ endpoint.limit = NoLimit
  /\ endpoint.joins # <<>> /\ \A join \in ToSet(endpoint.joins) : join.type = "LEFT"
  => \A i \in DOMAIN database[Head(endpoint.tables)] :
       \E row \in ToSet(rows) : row[Head(endpoint.tables)] = i

ColumnsExist == \A cond \in ToSet(endpoint.where) : Known(cond.column)

\* Validation and inference agree as long as each table refers to the one
\* before it: such an entry is answered.
ForwardIsAnswered ==
  /\ endpoint.joins = <<>> /\ ColumnsExist
  /\ phase \notin {"parsed", "refused"}
  /\ \A k \in 1..(Len(endpoint.tables) - 1) :
       References(endpoint.tables[k], endpoint.tables[k + 1]) # {}
  => phase # "failed"

\* What stands in the place of a reference: the value in the row.
Documented(part, row) ==
  IF part.is = "ref" /\ part.of[1] \in Listed
  THEN [is |-> "value", of |-> ValueOf(row, part.of)] ELSE part

\* Text n of the template is rendered as documented for row, and so are those
\* of an object or a list.
TextFrom(n, made, row) ==
  LET node == endpoint.response[n]
  IN node.kind = "text" => made = Text([p \in DOMAIN node.parts |-> Documented(node.parts[p], row)])

ItemFrom(n, made, row) ==
  LET node == endpoint.response[n]
  IN /\ TextFrom(n, made, row)
     /\ node.kind = "tree" => \A key \in DOMAIN node.of : TextFrom(node.of[key], made.of[key], row)

\* Node n is rendered as documented where it is not an item of an array.
NodeFrom(n, made) ==
  LET node == endpoint.response[n]
  IN /\ rows # <<>> => TextFrom(n, made, rows[1])
     /\ rows = <<>> /\ node.kind = "text" /\ OnlyReferences(node.parts) => made = NullNode
     /\ node.kind = "array" =>
          /\ DOMAIN made.of = DOMAIN rows
          /\ \A i \in DOMAIN rows : ItemFrom(node.items, made.of[i], rows[i])

\* Two references of a response, or one and the id of a table, share a name.
Ambiguous ==
  LET all == Refs(endpoint.response) \cup {<<t, Id>> : t \in Listed}
  IN \E p, q \in all : p # q /\ Alias[p] = Alias[q]

\* README.md:440-445: a scalar reference outside an array has the value of the
\* first row, null if there is none, and an array has one item per row, in
\* their order, whose references have the values of its row. It is about which
\* value stands where and excepts its JSON type: the code makes a text of every
\* value (response.go:88), where README.md:463-464 shows the int of a column as
\* a number. Names with __ that make two columns one are left out, too.
RenderedAsDocumented ==
  phase = "answered" /\ ~Ambiguous =>
    LET root == endpoint.response[1]
    IN /\ NodeFrom(1, answer)
       /\ root.kind = "tree" => \A key \in DOMAIN root.of : NodeFrom(root.of[key], answer.of[key])

-----------------------------------------------------------------------------
(* What the README promises and the code does not keep *)

\* README.md:471-472: "a join is inferred between each consecutive pair of
\* `tables` using foreign keys", whichever of the two tables is the parent.
RelatedIsAnswered ==
  /\ endpoint.joins = <<>> /\ ColumnsExist
  /\ phase \notin {"parsed", "refused"}
  /\ Inferable
  => phase # "failed"
=============================================================================
