------------------------ MODULE TopologicalSortProofs ------------------------
(***************************************************************************)
(* Proofs about TopologicalSort, for any finite set of tables and any      *)
(* foreign keys among them: references to oneself, several to one table    *)
(* and cycles included.                                                    *)
(***************************************************************************)
EXTENDS TopologicalSort, FiniteSetTheorems, TLAPS

(***************************************************************************)
(* Columns, arrangements and queues                                        *)
(***************************************************************************)

\* A table has finitely many foreign keys, so counting them makes sense.
LEMMA ColumnsCount ==
  ASSUME foreignKey \in Inputs, NEW t, NEW S
  PROVE  /\ IsFiniteSet(ColumnsTo(t, S))
         /\ Cardinality(ColumnsTo(t, S)) \in Nat
         /\ Cardinality(ColumnsTo(t, S)) = 0 <=> ColumnsTo(t, S) = {}
  <1>1. IsFiniteSet(DOMAIN foreignKey)
    BY InputAssumption
  <1>2. ColumnsTo(t, S) \in SUBSET DOMAIN foreignKey
    BY DEF ColumnsTo
  <1>3. IsFiniteSet(ColumnsTo(t, S))
    BY <1>1, <1>2, FS_Subset
  <1> QED BY <1>3, FS_CardinalityType, FS_EmptySet

\* Placing one table takes exactly the references to it off the count.
LEMMA ColumnsSplit ==
  ASSUME foreignKey \in Inputs, NEW t, NEW S, NEW name \in S
  PROVE  Cardinality(ColumnsTo(t, S \ {name}))
           = Cardinality(ColumnsTo(t, S)) - Cardinality(ColumnsTo(t, {name}))
  <1>1. /\ ColumnsTo(t, S \ {name}) = ColumnsTo(t, S) \ ColumnsTo(t, {name})
        /\ ColumnsTo(t, S) \cap ColumnsTo(t, {name}) = ColumnsTo(t, {name})
    BY DEF ColumnsTo
  <1>2. IsFiniteSet(ColumnsTo(t, S))
    BY ColumnsCount
  <1> QED BY <1>1, <1>2, FS_Difference

\* An order in which a map's iteration yields the elements of a finite set.
LEMMA ArrangementOfAll ==
  ASSUME NEW S, IsFiniteSet(S), NEW a \in Arrangements(S)
  PROVE  a \in Seq(S) /\ Range(a) = S /\ IsInjective(a)
  <1> DEFINE n == Cardinality(S)
  <1>1. n \in Nat
    BY FS_CardinalityType
  <1>2. a \in [1..n -> S] /\ IsInjective(a)
    BY DEF Arrangements, Injection
  <1>3. Cardinality(1..n) = n
    BY <1>1, FS_Interval
  <1>4. a \in Injection(1..n, S)
    BY DEF Arrangements
  <1>5. a \in Surjection(1..n, S)
    BY <1>3, <1>4, FS_Injection
  <1>6. Range(a) = S
    BY <1>2, <1>5 DEF Range, Surjection
  <1> QED BY <1>1, <1>2, <1>6

LEMMA SeqWider ==
  ASSUME NEW S, NEW T, S \subseteq T, NEW s \in Seq(S)
  PROVE  s \in Seq(T)
  <1>1. Len(s) \in Nat /\ s \in [1..Len(s) -> S]
    OBVIOUS
  <1>2. s \in [1..Len(s) -> T]
    BY <1>1
  <1> QED BY <1>1, <1>2

\* The queue when its head has left and others have come.
LEMMA QueueMoved ==
  ASSUME NEW T, NEW q \in Seq(T), q # <<>>, IsInjective(q),
         NEW r \in Seq(T), IsInjective(r), Range(q) \cap Range(r) = {}
  PROVE  /\ Tail(q) \o r \in Seq(T)
         /\ Range(Tail(q) \o r) = (Range(q) \ {Head(q)}) \cup Range(r)
         /\ IsInjective(Tail(q) \o r)
  <1> DEFINE m == Tail(q) \o r
  <1>1. /\ m \in Seq(T) /\ Len(m) = Len(q) - 1 + Len(r)
        /\ Len(q) \in Nat \ {0} /\ Len(r) \in Nat
        /\ DOMAIN m = 1..Len(m) /\ DOMAIN q = 1..Len(q) /\ DOMAIN r = 1..Len(r)
    OBVIOUS
  <1>2. \A k \in 1..Len(m) :
          m[k] = IF k < Len(q) THEN q[k + 1] ELSE r[k - Len(q) + 1]
    BY <1>1
  <1>3. Range(m) \subseteq (Range(q) \ {Head(q)}) \cup Range(r)
    BY <1>1, <1>2 DEF Range, IsInjective
  <1>4. ASSUME NEW k \in 1..Len(q), q[k] # Head(q)
        PROVE  q[k] \in Range(m)
    <2>1. k # 1
      BY <1>4
    <2>2. k - 1 \in 1..Len(m) /\ m[k - 1] = q[k]
      BY <1>1, <1>2, <2>1
    <2> QED BY <1>1, <2>2 DEF Range
  <1>5. ASSUME NEW k \in 1..Len(r)
        PROVE  r[k] \in Range(m)
    <2>1. Len(q) + k - 1 \in 1..Len(m) /\ m[Len(q) + k - 1] = r[k]
      BY <1>1, <1>2
    <2> QED BY <1>1, <2>1 DEF Range
  <1>6. IsInjective(m)
    <2> SUFFICES ASSUME NEW j \in 1..Len(m), NEW k \in 1..Len(m), m[j] = m[k]
                 PROVE  j = k
      BY <1>1 DEF IsInjective
    <2>1. CASE j < Len(q) /\ k < Len(q)
      <3>1. j + 1 \in DOMAIN q /\ k + 1 \in DOMAIN q
        BY <1>1, <2>1
      <3>2. q[j + 1] = q[k + 1]
        BY <1>2, <2>1
      <3>3. j + 1 = k + 1
        BY <3>1, <3>2 DEF IsInjective
      <3> QED BY <1>1, <3>3
    <2>2. CASE ~(j < Len(q)) /\ ~(k < Len(q))
      <3>1. j - Len(q) + 1 \in DOMAIN r /\ k - Len(q) + 1 \in DOMAIN r
        BY <1>1, <2>2
      <3>2. r[j - Len(q) + 1] = r[k - Len(q) + 1]
        BY <1>1, <1>2, <2>2
      <3>3. j - Len(q) + 1 = k - Len(q) + 1
        BY <3>1, <3>2 DEF IsInjective
      <3> QED BY <1>1, <3>3
    <2>3. ASSUME NEW x \in 1..Len(m), NEW y \in 1..Len(m), x < Len(q), ~(y < Len(q))
          PROVE  m[x] # m[y]
      <3>1. x + 1 \in DOMAIN q /\ y - Len(q) + 1 \in DOMAIN r
        BY <1>1, <2>3
      <3>2. m[x] = q[x + 1] /\ m[y] = r[y - Len(q) + 1]
        BY <1>2, <2>3
      <3>3. m[x] \in Range(q) /\ m[y] \in Range(r)
        BY <3>1, <3>2 DEF Range
      <3> QED BY <3>3
    <2> QED BY <2>1, <2>2, <2>3
  <1>7. (Range(q) \ {Head(q)}) \cup Range(r) \subseteq Range(m)
    BY <1>1, <1>4, <1>5 DEF Range
  <1> QED BY <1>1, <1>3, <1>6, <1>7

\* One more table is placed.
LEMMA ResultGrown ==
  ASSUME NEW T, NEW s \in Seq(T), IsInjective(s), NEW e \in T, e \notin Range(s)
  PROVE  /\ Append(s, e) \in Seq(T)
         /\ Range(Append(s, e)) = Range(s) \cup {e}
         /\ IsInjective(Append(s, e))
  <1>1. /\ Append(s, e) \in Seq(T) /\ DOMAIN Append(s, e) = 1..(Len(s) + 1)
        /\ \A k \in 1..Len(s) : Append(s, e)[k] = s[k]
        /\ Append(s, e)[Len(s) + 1] = e
        /\ DOMAIN s = 1..Len(s) /\ Len(s) \in Nat
    OBVIOUS
  <1>2. Range(Append(s, e)) = Range(s) \cup {e}
    BY <1>1 DEF Range
  <1>3. IsInjective(Append(s, e))
    BY <1>1 DEF Range, IsInjective
  <1> QED BY <1>1, <1>2, <1>3

(***************************************************************************)
(* The inductive invariant                                                 *)
(***************************************************************************)

\* What is placed is placed once and behind all that it refers to.
ParentsFirst ==
  /\ IsInjective(result)
  /\ \A i \in DOMAIN result :
       Parents(foreignKey, result[i]) \subseteq {result[j] : j \in 1..(i - 1)}

\* An answer is given when the queue is empty, by the number of tables placed.
AnswerByCount ==
  answer # "none" =>
    queue = <<>> /\ (answer = "sorted" <=> Len(result) = Cardinality(Tables))

IInv == TypeOK /\ Bookkeeping /\ ParentsFirst /\ AnswerByCount

LEMMA InitIInv == Init => IInv
  <1> SUFFICES ASSUME Init PROVE IInv
    OBVIOUS
  <1> USE DEF Init
  <1> DEFINE Ready == {t \in Tables : inDegree[t] = 0}
  <1>1. Visited = {} /\ Tables \ Visited = Tables
    BY DEF Visited, Range
  <1>2. \A t \in Tables : inDegree[t] = Cardinality(ColumnsTo(t, Tables)) /\ inDegree[t] \in Nat
    BY ColumnsCount DEF ReferenceCount
  <1>3. IsFiniteSet(Ready)
    BY InputAssumption, FS_Subset
  <1>4. queue \in Seq(Ready) /\ Range(queue) = Ready /\ IsInjective(queue)
    BY <1>3, ArrangementOfAll
  <1>5. TypeOK
    <2>1. inDegree \in [Tables -> Nat]
      BY <1>2
    <2>2. queue \in Seq(Tables) /\ result \in Seq(Tables)
      <3>1. Ready \subseteq Tables
        OBVIOUS
      <3> HIDE DEF Ready
      <3> QED BY <1>4, <3>1, SeqWider
    <2> QED BY <2>1, <2>2 DEF TypeOK
  <1>6. Bookkeeping
    BY <1>1, <1>2, <1>4 DEF Bookkeeping
  <1>7. ParentsFirst /\ AnswerByCount
    BY DEF ParentsFirst, AnswerByCount, IsInjective
  <1> QED BY <1>5, <1>6, <1>7 DEF IInv

\* What is known of a table that is placed, and of the one that comes next.
LEMMA NextIsReady ==
  ASSUME IInv, queue # <<>>
  PROVE  /\ Head(queue) \in Tables \ Visited
         /\ inDegree[Head(queue)] = 0
         /\ Parents(foreignKey, Head(queue)) \subseteq Visited
         /\ \A t \in Visited : ColumnsTo(t, Tables \ Visited) = {}
  <1> DEFINE h == Head(queue)
  <1> USE DEF IInv, TypeOK
  <1>1. h \in Range(queue)
    BY DEF Range
  <1>2. h \in Tables \ Visited /\ inDegree[h] = 0
    BY <1>1 DEF Bookkeeping
  <1>3. ColumnsTo(h, Tables \ Visited) = {}
    BY <1>2, ColumnsCount DEF Bookkeeping
  <1>4. \A p \in DOMAIN foreignKey : foreignKey[p] \in Tables
    BY InputAssumption
  <1>5. Parents(foreignKey, h) \subseteq Visited
    BY <1>3, <1>4 DEF Parents, ColumnsTo
  <1>6. ASSUME NEW t \in Visited, NEW p \in ColumnsTo(t, Tables \ Visited)
        PROVE  FALSE
    <2>1. PICK i \in DOMAIN result : t = result[i]
      BY DEF Visited, Range
    <2>2. foreignKey[p] \in Parents(foreignKey, result[i])
      BY <1>6, <2>1 DEF Parents, ColumnsTo
    <2>3. PICK j \in 1..(i - 1) : foreignKey[p] = result[j]
      BY <2>2 DEF ParentsFirst
    <2>4. j \in DOMAIN result
      BY <2>1, <2>3
    <2>5. foreignKey[p] \in Visited
      BY <2>3, <2>4 DEF Visited, Range
    <2> QED BY <1>6, <2>5 DEF ColumnsTo
  <1> QED BY <1>2, <1>5, <1>6

\* Placing the head of the queue: the count of every table, and who is ready.
LEMMA PlaceKeeps ==
  ASSUME IInv, Place
  PROVE  IInv'
  <1> DEFINE name == Head(queue)
             left == Tables \ Visited
  <1> USE DEF IInv, TypeOK
  <1>1. /\ name \in left /\ inDegree[name] = 0
        /\ Parents(foreignKey, name) \subseteq Visited
        /\ \A t \in Visited : ColumnsTo(t, left) = {}
        /\ answer = "none" /\ queue # <<>>
    BY NextIsReady DEF Place
  <1>2. /\ result' = Append(result, name)
        /\ inDegree' = CountedDown(name)
        /\ foreignKey' = foreignKey /\ answer' = answer
    BY <1>1 DEF Place
  <1>3. PICK ready \in Arrangements(MadeReady(name)) : queue' = Tail(queue) \o ready
    BY <1>1 DEF Place
  <1>4. IsFiniteSet(MadeReady(name))
    BY InputAssumption, FS_Subset DEF MadeReady
  <1>5. ready \in Seq(MadeReady(name)) /\ Range(ready) = MadeReady(name) /\ IsInjective(ready)
    BY <1>4, ArrangementOfAll
  <1>6. ready \in Seq(Tables)
    BY <1>5, SeqWider DEF MadeReady
  \* The result grows by a table that was not placed and whose parents are.
  <1>7. /\ result' \in Seq(Tables) /\ IsInjective(result')
        /\ Visited' = Visited \cup {name}
        /\ Tables \ Visited' = left \ {name}
    BY <1>1, <1>2, ResultGrown DEF ParentsFirst, Visited
  <1>8. ParentsFirst'
    <2> SUFFICES ASSUME NEW i \in DOMAIN result'
                 PROVE  Parents(foreignKey, result'[i]) \subseteq {result'[j] : j \in 1..(i - 1)}
      BY <1>2, <1>7 DEF ParentsFirst
    <2>1. /\ Len(result) \in Nat /\ DOMAIN result = 1..Len(result)
          /\ DOMAIN result' = 1..(Len(result) + 1)
          /\ \A k \in 1..Len(result) : result'[k] = result[k]
          /\ result'[Len(result) + 1] = name
      BY <1>2
    <2>2. \A j \in 1..(i - 1) : result'[j] = result[j]
      BY <2>1
    <2>3. {result'[j] : j \in 1..(i - 1)} = {result[j] : j \in 1..(i - 1)}
      BY <2>2
    <2>4. CASE i = Len(result) + 1
      <3>1. Visited = {result[j] : j \in 1..(i - 1)}
        BY <2>1, <2>4 DEF Visited, Range
      <3> QED BY <1>1, <2>1, <2>3, <2>4, <3>1
    <2>5. CASE i # Len(result) + 1
      <3>1. i \in DOMAIN result /\ result'[i] = result[i]
        BY <2>1, <2>5
      <3> QED BY <2>3, <3>1 DEF ParentsFirst
    <2> QED BY <2>4, <2>5
  \* The counts are those of the references to what is left.
  <1>9. \A t \in Tables : inDegree'[t] = Cardinality(ColumnsTo(t, left \ {name})) /\ inDegree'[t] \in Nat
    <2> TAKE t \in Tables
    <2>1. inDegree'[t] = inDegree[t] - Cardinality(ColumnsTo(t, {name}))
      BY <1>2 DEF CountedDown
    <2>2. inDegree[t] = Cardinality(ColumnsTo(t, left))
      BY DEF Bookkeeping
    <2>3. Cardinality(ColumnsTo(t, left \ {name}))
            = Cardinality(ColumnsTo(t, left)) - Cardinality(ColumnsTo(t, {name}))
      BY <1>1, ColumnsSplit
    <2>4. Cardinality(ColumnsTo(t, left \ {name})) \in Nat
      BY ColumnsCount
    <2> QED BY <2>1, <2>2, <2>3, <2>4
  <1>10. \A t \in Tables : inDegree'[t] = 0 <=> ColumnsTo(t, left \ {name}) = {}
    BY <1>9, ColumnsCount
  <1>11. \A t \in Tables : inDegree[t] = 0 <=> ColumnsTo(t, left) = {}
    BY ColumnsCount DEF Bookkeeping
  <1>12. Range(queue) = {t \in left : ColumnsTo(t, left) = {}}
    BY <1>11 DEF Bookkeeping
  <1>13. MadeReady(name) = {t \in left \ {name} : ColumnsTo(t, left \ {name}) = {} /\ ColumnsTo(t, left) # {}}
    <2>1. MadeReady(name) = {t \in Tables : ColumnsTo(t, {name}) # {} /\ ColumnsTo(t, left \ {name}) = {}}
      BY <1>2, <1>10 DEF MadeReady
    <2>2. ColumnsTo(name, left) = {}
      BY <1>1, <1>11
    <2>3. \A t \in Tables : ColumnsTo(t, {name}) # {} => ColumnsTo(t, left) # {}
      BY <1>1 DEF ColumnsTo
    <2>4. \A t \in Tables : ColumnsTo(t, left) # {} /\ ColumnsTo(t, left \ {name}) = {}
            => ColumnsTo(t, {name}) # {}
      BY DEF ColumnsTo
    <2> QED BY <1>1, <2>1, <2>2, <2>3, <2>4
  <1>14. \A t \in Tables : ColumnsTo(t, left) = {} => ColumnsTo(t, left \ {name}) = {}
    BY DEF ColumnsTo
  <1>15. /\ queue' \in Seq(Tables) /\ IsInjective(queue')
         /\ Range(queue') = (Range(queue) \ {name}) \cup MadeReady(name)
    <2>1. Range(queue) \cap Range(ready) = {}
      BY <1>5, <1>12, <1>13
    <2> QED BY <1>1, <1>3, <1>5, <1>6, <2>1, QueueMoved DEF Bookkeeping
  <1>16. Range(queue') = {t \in left \ {name} : inDegree'[t] = 0}
    BY <1>10, <1>12, <1>13, <1>14, <1>15
  <1>17. Bookkeeping'
    <2>1. \A t \in Tables : (ColumnsTo(t, Tables \ Visited))' = ColumnsTo(t, left \ {name})
      BY <1>2, <1>7 DEF ColumnsTo
    <2> QED BY <1>7, <1>9, <1>15, <1>16, <2>1 DEF Bookkeeping
  <1>18. TypeOK'
    <2>1. inDegree' \in [Tables -> Nat]
      BY <1>2, <1>9 DEF CountedDown
    <2> QED BY <1>2, <1>7, <1>15, <2>1
  <1>19. AnswerByCount'
    BY <1>1, <1>2 DEF AnswerByCount
  <1> QED BY <1>8, <1>17, <1>18, <1>19

LEMMA FinishKeeps ==
  ASSUME IInv, Finish
  PROVE  IInv'
  <1> USE DEF IInv, Finish
  <1>1. TypeOK'
    BY DEF TypeOK
  <1>2. Bookkeeping'
    BY DEF Bookkeeping, ColumnsTo, Visited
  <1>3. ParentsFirst' /\ AnswerByCount'
    BY DEF ParentsFirst, AnswerByCount
  <1> QED BY <1>1, <1>2, <1>3

\* In every state the counts are right, the queue holds who is ready, and the
\* result is an order of what is placed.
THEOREM Invariance == Spec => []IInv
  <1>1. IInv /\ [Next]_vars => IInv'
    <2> SUFFICES ASSUME IInv, [Next]_vars PROVE IInv'
      OBVIOUS
    <2>1. CASE UNCHANGED vars
      BY <2>1 DEF vars, IInv, TypeOK, Bookkeeping, ParentsFirst, AnswerByCount, ColumnsTo, Visited
    <2> QED BY <2>1, PlaceKeeps, FinishKeeps DEF Next
  <1> QED BY <1>1, InitIInv, PTL DEF Spec

\* In-degrees stay natural numbers: counting down, once for each column that
\* refers to the table placed, never goes below zero (seed.go:143-148).
THEOREM TypeCorrect == Spec => []TypeOK
  <1>1. IInv => TypeOK
    BY DEF IInv
  <1> QED BY <1>1, Invariance, PTL

\* The bookkeeping of seed.go:113-160.
THEOREM BookkeepingAlways == Spec => []Bookkeeping
  <1>1. IInv => Bookkeeping
    BY DEF IInv
  <1> QED BY <1>1, Invariance, PTL

\* All tables are placed exactly when their number is.
LEMMA PlacedAll ==
  ASSUME IInv
  PROVE  Len(result) = Cardinality(Tables) <=> Visited = Tables
  <1>1. /\ Len(result) \in Nat /\ DOMAIN result = 1..Len(result)
        /\ result \in [1..Len(result) -> Tables]
    BY DEF IInv, TypeOK
  <1>2. result \in Injection(1..Len(result), Tables)
    BY <1>1 DEF IInv, ParentsFirst, Injection
  <1>3. IsFiniteSet(Tables) /\ Cardinality(1..Len(result)) = Len(result)
    <2>1. Cardinality(1..Len(result)) = Len(result)
      BY <1>1, FS_Interval
    <2> QED BY <2>1, InputAssumption
  <1>4. Len(result) = Cardinality(Tables) <=> result \in Surjection(1..Len(result), Tables)
    BY <1>2, <1>3, FS_Injection
  <1>5. result \in Surjection(1..Len(result), Tables) <=> Visited = Tables
    BY <1>1 DEF Surjection, Visited, Range
  <1> QED BY <1>4, <1>5

\* Every sorted answer is an order in which Seed finds the rows that a row
\* refers to (seed.go:55-64), whatever the order of the map.
THEOREM SortedAlways == Spec => []SortedIsOrder
  <1>1. IInv => SortedIsOrder
    <2> SUFFICES ASSUME IInv, answer = "sorted"
                 PROVE  DependencyOrder(Tables, foreignKey, result)
      BY DEF SortedIsOrder
    <2>1. Range(result) = Tables
      BY PlacedAll DEF IInv, AnswerByCount, Visited
    <2> QED BY <2>1 DEF IInv, TypeOK, ParentsFirst, DependencyOrder
  <1> QED BY <1>1, Invariance, PTL

\* A schema that has an order is never refused: what is left when the queue
\* is empty refers to each other all round.
THEOREM CircularAlways == Spec => []CircularIsCyclic
  <1>1. IInv => CircularIsCyclic
    <2> SUFFICES ASSUME IInv, answer = "circular"
                 PROVE  Cyclic(Tables, foreignKey)
      BY DEF CircularIsCyclic
    <2> DEFINE S == Tables \ Visited
    <2>1. S # {} /\ queue = <<>>
      <3>1. Visited \subseteq Tables
        BY DEF IInv, TypeOK, Visited, Range
      <3> QED BY <3>1, PlacedAll DEF IInv, AnswerByCount
    <2>2. Range(queue) = {}
      BY <2>1 DEF Range
    <2>3. ASSUME NEW t \in S
          PROVE  Parents(foreignKey, t) \cap S # {}
      <3>1. inDegree[t] # 0
        BY <2>2 DEF IInv, Bookkeeping
      <3>2. ColumnsTo(t, S) # {}
        BY <3>1, ColumnsCount DEF IInv, TypeOK, Bookkeeping
      <3> QED BY <3>2 DEF ColumnsTo, Parents
    <2> QED BY <2>1, <2>3 DEF Cyclic
  <1> QED BY <1>1, Invariance, PTL
==============================================================================
