------------------------- MODULE MCTopologicalSort --------------------------
(***************************************************************************)
(* All the foreign keys of three tables with two columns each: references  *)
(* to oneself, to one table twice, cycles of two and three tables.         *)
(***************************************************************************)
EXTENDS TopologicalSort

CONSTANTS authors, books, reviews

MCTables == {authors, books, reviews}

MCInputs == UNION {[S -> MCTables] : S \in SUBSET (MCTables \X {"first", "second"})}
=============================================================================
