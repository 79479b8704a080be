----------------------------- MODULE Templates -----------------------------
(***************************************************************************)
(* Response templates, and what db/response.go renders for query results.  *)
(*                                                                         *)
(* A template is a sequence of nodes, the first its root; a node names its *)
(* children by their places, which come after its own:                     *)
(*   [kind |-> "text", parts]   text; a part is literal, or a reference:   *)
(*                              [is |-> "text" or "ref", of]               *)
(*   [kind |-> "tree", of]      a list or an object, by place or by key    *)
(*   [kind |-> "array", items, count]   "type": "array"                    *)
(*   [kind |-> "spec", known]   any other "type": a generator, known or    *)
(*                              not, whose value is not told here          *)
(*   [kind |-> "literal"]       a number, a boolean or null                *)
(* What is rendered is a tree of the same form, without arrays, in which a *)
(* part that was resolved is [is |-> "value", of].                         *)
(***************************************************************************)
EXTENDS Integers, SequencesExt

\* CollectRefs.
Refs(template) ==
  {part.of : part \in {p \in UNION {ToSet(template[n].parts) : n \in {m \in DOMAIN template :
                                      template[m].kind = "text"}} : p.is = "ref"}}

\* A template of nodes that exist, the children after their parents.
WellFormed(template) ==
  /\ template # <<>> /\ template \in Seq(ToSet(template))
  /\ \A n \in DOMAIN template :
       LET node == template[n]
           Later == (n + 1)..Len(template)
       IN /\ node.kind \in {"text", "tree", "array", "spec", "literal"}
          /\ node.kind = "tree" => \A m \in DOMAIN node.of : node.of[m] \in Later
          /\ node.kind = "array" => node.items \in Later

NullNode == [kind |-> "null"]
Generated == [kind |-> "generated"]

Text(parts) == [kind |-> "text", parts |-> parts]
Tree(of) == [kind |-> "tree", of |-> of]

\* isSinglePlaceholder, which also holds for several in a row.
OnlyReferences(parts) == parts # <<>> /\ \A k \in DOMAIN parts : parts[k].is = "ref"

\* A reference that is no column of the row stays as it is written. alias maps
\* references to the names that columns have in rows.
ResolvedPart(part, alias, row) ==
  IF part.is = "ref" /\ alias[part.of] \in DOMAIN row
  THEN [is |-> "value", of |-> row[alias[part.of]]] ELSE part

\* Mutated form: items see the first row.
RowOfItem(k) == 1

RowOf(k) == k

\* renderTemplate for the k-th of a sequence of rows, each a function from
\* names, or for none if k is 0, where made has what the children are for each.
RenderedFor(node, made, k, alias, rows) ==
  CASE node.kind = "text" ->
         IF k = 0
         THEN IF OnlyReferences(node.parts) THEN NullNode ELSE node
         ELSE Text([p \in DOMAIN node.parts |-> ResolvedPart(node.parts[p], alias, rows[k])])
    [] node.kind = "tree" -> Tree([m \in DOMAIN node.of |-> made[node.of[m]][k]])
    [] node.kind = "array" -> Tree([i \in DOMAIN rows |-> made[node.items][RowOf(i)]])
    [] node.kind = "spec" -> IF node.known THEN Generated ELSE NullNode
    [] node.kind = "literal" -> node

RenderedForAll(node, made, alias, rows) ==
  [k \in 0..Len(rows) |-> RenderedFor(node, made, k, alias, rows)]

\* A response is rendered for the first row, if there is one.
RenderedRows(template, alias, rows) ==
  LET rendered[n \in DOMAIN template] == RenderedForAll(template[n], rendered, alias, rows)
  IN rendered[1][IF rows = <<>> THEN 0 ELSE 1]
=============================================================================
