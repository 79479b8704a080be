---------------------------- MODULE Dependencies ----------------------------
(***************************************************************************)
(* What an order of the tables has to be for seeding, and when there is    *)
(* none. `fk' maps the foreign key columns, as <<table, column>> pairs, to *)
(* the tables they refer to.                                               *)
(***************************************************************************)
EXTENDS Integers, FiniteSets, Sequences, Functions

Parents(fk, t) == {fk[p] : p \in {q \in DOMAIN fk : q[1] = t}}

\* Every table once, and after all the tables it refers to.
DependencyOrder(tables, fk, order) ==
  /\ order \in Seq(tables) /\ Range(order) = tables
  /\ IsInjective(order)
  /\ \A i \in DOMAIN order : Parents(fk, order[i]) \subseteq {order[j] : j \in 1..(i - 1)}

\* Some tables refer to each other all round, or one refers to itself.
Cyclic(tables, fk) ==
  \E S \in SUBSET tables \ {{}} : \A t \in S : Parents(fk, t) \cap S # {}
=============================================================================
