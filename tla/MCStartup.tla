----------------------------- MODULE MCStartup ------------------------------
(***************************************************************************)
(* Books, each with an author of its own and a unique code, in a file.     *)
(***************************************************************************)
EXTENDS Startup, TLC

CONSTANTS authors, books, name, author, code, unset, none, noTx

MCTables == {authors, books}
MCColumns == (authors :> {name}) @@ (books :> {author, code})
MCRequired == {<<books, code>>}
MCUnique == {<<books, code>>, <<books, author>>}
MCForeignKey == <<books, author>> :> authors
MCDefault == [p \in {} |-> 1]
MCValues == 1..MaxId
MCRank == [v \in MCValues |-> v]
MCAccepted == [t \in MCTables |-> [c \in MCColumns[t] |-> MCValues]]

\* No rows; as many as a batch; one more, as many as the generator of `code'
\* has values; one too many. Two books may draw the same author.
MCRowCounts == {0, 2, 3, 4}
MCGenerated == (authors :> (name :> {1})) @@ (books :> ((author :> {}) @@ (code :> 1..3)))

MCWritable == (authors :> {name :> 2}) @@ (books :> {(author :> 2) @@ (code :> 1)})
=============================================================================
