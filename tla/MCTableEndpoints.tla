-------------------------- MODULE MCTableEndpoints --------------------------
(***************************************************************************)
(* Authors, books and reviews with every choice of foreign keys between    *)
(* them, and entries with and without explicit joins.                      *)
(***************************************************************************)
EXTENDS TableEndpoints

CONSTANTS authors, books, reviews, unknown,
          favourite, writer, editor, book, missing, id, path,
          blank, unset, none, noOrder, noLimit, one, many, label

MCTables == {authors, books, reviews}
MCColumns == (authors :> <<favourite>>) @@ (books :> <<writer, editor>>) @@ (reviews :> <<book>>)

References1 == (<<authors, favourite>> :> books) @@ (<<books, writer>> :> authors)
               @@ (<<books, editor>> :> authors) @@ (<<reviews, book>> :> books)
MCSchemas == {[p \in S |-> References1[p]] : S \in SUBSET DOMAIN References1}

AuthorRow(b) == favourite :> b
BookRow(w, e) == (writer :> w) @@ (editor :> e)
ReviewRow(b) == book :> b

MCDatabases ==
  {(authors :> <<AuthorRow(2), AuthorRow(unset)>>)
     @@ (books :> <<BookRow(1, 2), BookRow(1, unset)>>)
     @@ (reviews :> <<ReviewRow(1), ReviewRow(1), ReviewRow(2)>>),
   (authors :> <<AuthorRow(unset)>>) @@ (books :> <<>>) @@ (reviews :> <<>>)}

Ref(t, c) == [is |-> "ref", of |-> <<t, c>>]
Node(n) == [kind |-> "tree", of |-> n]
TextNode(parts) == [kind |-> "text", parts |-> parts]

\* {"one": "{{t.id}}", "label": "text {{u.c}}", "many": [{"one": "{{u.c}}", "many": "{{t.id}}"}],
\*  and a literal and two generators}
Response(t, u, c) ==
  <<Node((one :> 2) @@ (label :> 3) @@ (many :> 4) @@ (none :> 8)),
    TextNode(<<Ref(t, id)>>),
    TextNode(<<[is |-> "text", of |-> label], Ref(u, c), Ref(unknown, c)>>),
    [kind |-> "array", items |-> 5],
    Node((one :> 6) @@ (many :> 7)),
    TextNode(<<Ref(u, c)>>),
    TextNode(<<Ref(t, id)>>),
    Node(<<9, 10, 11>>),
    [kind |-> "literal"],
    [kind |-> "spec", known |-> TRUE],
    [kind |-> "spec", known |-> FALSE]>>

\* The aliases of the names authors__favourite and books__id are the same in
\* this instance, as they are for a table authors with a column b__id and a
\* table authors__b.
AllColumns == {<<t, c>> : t \in MCTables \cup {unknown}, c \in {favourite, writer, editor, book, missing, id}}
MCAlias ==
  [p \in AllColumns |-> IF p = <<authors, favourite>> THEN <<books, id>> ELSE p]

LastColumn(t) == IF t \in MCTables THEN MCColumns[t][Len(MCColumns[t])] ELSE missing

Entry(tables, joins, where, order, limit) ==
  [tables |-> tables, joins |-> joins, where |-> where, order |-> order, limit |-> limit,
   response |-> IF tables = <<>> THEN Response(authors, authors, id)
                ELSE Response(tables[1], tables[Len(tables)], LastColumn(tables[Len(tables)]))]

By(t, c, descending) == [column |-> <<t, c>>, desc |-> descending]
Where(t, c) == <<[column |-> <<t, c>>, param |-> path]>>
Join(type, local, foreign) == [type |-> type, local |-> local, foreign |-> foreign]

Lists == UNION {Injection(1..n, MCTables) : n \in 1..3}

Inferred ==
  UNION {{Entry(ts, <<>>, <<>>, noOrder, noLimit), Entry(ts, <<>>, Where(ts[1], id), noOrder, noLimit),
          Entry(ts, <<>>, <<>>, noOrder, -1),
          Entry(ts, <<>>, <<>>, By(ts[1], id, TRUE), 2)} : ts \in Lists}

AuthorBooks(type) == Join(type, <<authors, id>>, <<books, writer>>)
BookReviews(type) == Join(type, <<books, id>>, <<reviews, book>>)

Explicit ==
  UNION {{Entry(<<authors, books>>, <<AuthorBooks(a)>>, <<>>, By(books, editor, FALSE), noLimit),
          Entry(<<authors, books, reviews>>, <<AuthorBooks(a), BookReviews(b)>>, <<>>, noOrder, noLimit),
          Entry(<<authors, books, reviews>>, <<BookReviews(b), AuthorBooks(a)>>, <<>>, noOrder, 1),
          Entry(<<authors, books, reviews>>, <<AuthorBooks(a)>>, <<>>, noOrder, noLimit)} :
         a, b \in {"INNER", "LEFT"}}

\* Entries that are refused, and one that should be: its condition names an
\* unknown column.
Wrong ==
  {Entry(<<>>, <<>>, <<>>, noOrder, noLimit),
   Entry(<<books, books>>, <<>>, <<>>, noOrder, noLimit),
   Entry(<<books, unknown>>, <<>>, <<>>, noOrder, noLimit),
   Entry(<<books>>, <<>>, Where(authors, id), noOrder, noLimit),
   Entry(<<books>>, <<>>, <<>>, By(books, missing, TRUE), noLimit),
   Entry(<<authors, books>>, <<Join("SIDEWAYS", <<authors, id>>, <<books, writer>>)>>, <<>>, noOrder, noLimit),
   Entry(<<books, reviews>>, <<AuthorBooks("INNER")>>, <<>>, noOrder, noLimit),
   Entry(<<books>>, <<>>, Where(books, missing), noOrder, noLimit),
   [Entry(<<authors>>, <<>>, <<>>, noOrder, noLimit) EXCEPT !.response = Response(authors, authors, missing)]}

MCEndpoints == Inferred \cup Explicit \cup Wrong

MCContexts == {path :> 1, path :> 2, [p \in {} |-> 1]}
=============================================================================
