-------------------------- MODULE TopologicalSort ---------------------------
(***************************************************************************)
(* topologicalSort of package seed (Kahn's algorithm): the order in which  *)
(* Seed fills the tables, or the error "circular dependency detected". The *)
(* first queue is in the order of a Go map's iteration, which is any order.*)
(***************************************************************************)
EXTENDS Dependencies

CONSTANTS
  Tables,  \* names of the tables of the schema
  Inputs   \* the foreign keys that a schema may have

ASSUME InputAssumption ==
  /\ IsFiniteSet(Tables)
  /\ \A fk \in Inputs :
       /\ IsFiniteSet(DOMAIN fk)
       /\ \A p \in DOMAIN fk : p[1] \in Tables /\ fk[p] \in Tables

VARIABLES
  foreignKey,  \* the foreign keys of this schema
  inDegree,    \* inDegree[t]: references of t to tables that are not placed
  queue,       \* tables ready to be placed
  result,      \* tables placed, in order
  answer       \* "none" yet, then "sorted" or "circular"

vars == <<foreignKey, inDegree, queue, result, answer>>

Visited == Range(result)

\* The foreign key columns of t that refer to a table of S.
ColumnsTo(t, S) == {p \in DOMAIN foreignKey : p[1] = t /\ foreignKey[p] \in S}

Arrangements(S) == Injection(1..Cardinality(S), S)

\* Mutated form: two columns that refer to the same table count for one.
ParentCount(t) == Cardinality(Parents(foreignKey, t))

ReferenceCount(t) == Cardinality(ColumnsTo(t, Tables))

Init ==
  /\ foreignKey \in Inputs
  /\ inDegree = [t \in Tables |-> ReferenceCount(t)]
  /\ queue \in Arrangements({t \in Tables : inDegree[t] = 0})
  /\ result = <<>>
  /\ answer = "none"

\* Mutated form: a dependent is counted down once for each table, not for
\* each of its columns.
CountedOnce(name) ==
  [t \in Tables |-> inDegree[t] - IF ColumnsTo(t, {name}) = {} THEN 0 ELSE 1]

\* The in-degrees when `name' has been placed: one less for every reference.
CountedDown(name) == [t \in Tables |-> inDegree[t] - Cardinality(ColumnsTo(t, {name}))]

\* Mutated form: a dependent is queued when its first parent is placed.
Dependents(name) == {t \in Tables : ColumnsTo(t, {name}) # {}}

\* The dependents whose last reference was to `name'.
MadeReady(name) == {t \in Tables : ColumnsTo(t, {name}) # {} /\ CountedDown(name)[t] = 0}

\* The table at the head of the queue. One that is placed already would only
\* leave the queue.
Place ==
  LET name == Head(queue) IN
  /\ answer = "none" /\ queue # <<>>
  /\ IF name \in Visited
     THEN queue' = Tail(queue) /\ UNCHANGED <<inDegree, result>>
     ELSE /\ result' = Append(result, name)
          /\ inDegree' = CountedDown(name)
          /\ \E ready \in Arrangements(MadeReady(name)) : queue' = Tail(queue) \o ready
  /\ UNCHANGED <<foreignKey, answer>>

Finish ==
  /\ answer = "none" /\ queue = <<>>
  /\ answer' = IF Len(result) = Cardinality(Tables) THEN "sorted" ELSE "circular"
  /\ UNCHANGED <<foreignKey, inDegree, queue, result>>

Next == Place \/ Finish

Spec == Init /\ [][Next]_vars

-----------------------------------------------------------------------------
TypeOK ==
  /\ foreignKey \in Inputs
  /\ inDegree \in [Tables -> Nat]
  /\ queue \in Seq(Tables)
  /\ result \in Seq(Tables)
  /\ answer \in {"none", "sorted", "circular"}

\* The bookkeeping of seed.go:113-160: in-degrees count the references to the
\* tables that are not placed, although they are kept by counting down, once
\* for every column; a table is queued exactly when none is left.
Bookkeeping ==
  /\ \A t \in Tables : inDegree[t] = Cardinality(ColumnsTo(t, Tables \ Visited))
  /\ Range(queue) = {t \in Tables \ Visited : inDegree[t] = 0}
  /\ IsInjective(queue)

\* A sorted answer has every table once and behind all the tables it refers
\* to, so that Seed has ids to choose from (seed.go:55-64).
SortedIsOrder == answer = "sorted" => DependencyOrder(Tables, foreignKey, result)

\* A schema is refused as circular only if it is.
CircularIsCyclic == answer = "circular" => Cyclic(Tables, foreignKey)
=============================================================================
