------------------------ MODULE TableEndpointsProofs ------------------------
(***************************************************************************)
(* Proofs about TableEndpoints, for any tables, foreign keys, contents and *)
(* entries with any number of joins and templates of any size.             *)
(***************************************************************************)
EXTENDS TableEndpoints, FiniteSetTheorems, WellFoundedInduction, TLAPS

\* A set of natural numbers has a least one.
LEMMA LeastNatural ==
  ASSUME NEW S, S \subseteq Nat, S # {} PROVE \E m \in S : \A k \in S : m <= k
  <1>1. PICK m \in S : \A k \in S : <<k, m>> \notin OpToRel(<, Nat)
    BY NatLessThanWellFounded, WFMin
  <1>2. \A k \in S : ~(k < m)
    BY <1>1 DEF OpToRel
  <1> QED BY <1>2

\* Induction up to N, for a set of numbers.
LEMMA UpTo ==
  ASSUME NEW N \in Nat, NEW S, 0 \in S, \A k \in 1..N : k - 1 \in S => k \in S
  PROVE  \A k \in 0..N : k \in S
  <1> DEFINE Others == {k \in 0..N : k \notin S}
  <1>1. Others \subseteq Nat
    OBVIOUS
  <1>2. ASSUME Others # {} PROVE FALSE
    <2>1. PICK m \in Others : \A k \in Others : m <= k
      BY <1>1, <1>2, LeastNatural
    <2>2. m \in 1..N /\ m - 1 \in 0..N /\ m - 1 < m
      BY <2>1
    <2>3. m - 1 \in S
      BY <2>1, <2>2
    <2> QED BY <2>1, <2>2, <2>3
  <1> QED BY <1>2

-----------------------------------------------------------------------------
(* What is rendered *)

\* What a node is rendered as depends on what nodes after it are rendered as.
LEMMA ChildrenAreLater ==
  ASSUME NEW template, WellFormed(template), NEW alias, NEW results, NEW k, NEW n \in DOMAIN template,
         NEW f, NEW g, \A m \in (n + 1)..Len(template) : f[m] = g[m]
  PROVE  RenderedFor(template[n], f, k, alias, results) = RenderedFor(template[n], g, k, alias, results)
  <1> DEFINE node == template[n]
  <1>1. /\ node.kind \in {"text", "tree", "array", "spec", "literal"}
        /\ node.kind = "tree" => \A m \in DOMAIN node.of : f[node.of[m]] = g[node.of[m]]
        /\ node.kind = "array" => f[node.items] = g[node.items]
    BY DEF WellFormed
  <1> HIDE DEF node
  <1>2. CASE node.kind = "tree"
    <2>1. [m \in DOMAIN node.of |-> f[node.of[m]][k]] = [m \in DOMAIN node.of |-> g[node.of[m]][k]]
      BY <1>1, <1>2
    <2> QED BY <1>2, <2>1 DEF RenderedFor, node
  <1>3. CASE node.kind = "array"
    BY <1>1, <1>3 DEF RenderedFor, node
  <1>4. CASE node.kind \in {"text", "spec", "literal"}
    BY <1>4 DEF RenderedFor, node
  <1> QED BY <1>1, <1>2, <1>3, <1>4

IsRendering(f, template, alias, results) ==
  f = [n \in DOMAIN template |-> RenderedForAll(template[n], f, alias, results)]

\* All nodes of a template can be rendered, the last ones first.
LEMMA RenderingExists ==
  ASSUME NEW template, WellFormed(template), NEW alias, NEW results
  PROVE  \E f : IsRendering(f, template, alias, results)
  <1> DEFINE N == Len(template)
             Node(n, f) == RenderedForAll(template[n], f, alias, results)
             RenderedFrom(f, j) == \A n \in j..N : f[n] = Node(n, f)
             Done == {j \in 1..(N + 1) : \E f : f = [n \in 1..N |-> f[n]] /\ RenderedFrom(f, j)}
  <1>1. N \in Nat /\ DOMAIN template = 1..N
    BY DEF WellFormed
  <1>2. N + 1 \in Done
    <2> DEFINE h == [n \in 1..N |-> NullNode]
    <2>1. h = [n \in 1..N |-> h[n]] /\ RenderedFrom(h, N + 1)
      BY <1>1
    <2> QED BY <1>1, <2>1
  <1>3. PICK i \in Done : \A other \in Done : i <= other
    <2>1. Done \subseteq Nat
      BY <1>1
    <2> HIDE DEF Done
    <2> QED BY <1>2, <2>1, LeastNatural
  <1>4. PICK f : f = [n \in 1..N |-> f[n]] /\ RenderedFrom(f, i)
    OBVIOUS
  <1>5. i \in 1..(N + 1)
    OBVIOUS
  <1> HIDE DEF Done
  <1>6. \A n \in 1..N : \A g, h : (\A m \in (n + 1)..N : g[m] = h[m]) => Node(n, g) = Node(n, h)
    BY <1>1, ChildrenAreLater DEF RenderedForAll
  <1> HIDE DEF Node
  <1>7. i = 1
    <2> SUFFICES ASSUME i # 1 PROVE FALSE
      OBVIOUS
    <2> DEFINE j == i - 1
               g == [f EXCEPT ![j] = Node(j, f)]
    <2>1. j \in 1..N /\ i = j + 1
      BY <1>1, <1>5
    <2> HIDE DEF j
    <2>2. /\ g = [n \in 1..N |-> g[n]] /\ g[j] = Node(j, f)
          /\ \A n \in i..N : g[n] = f[n]
      <3>1. \A v : LET h == [f EXCEPT ![j] = v]
                  IN h = [n \in 1..N |-> h[n]] /\ h[j] = v /\ \A n \in 1..N \ {j} : h[n] = f[n]
        <4> HIDE DEF N
        <4> QED BY <1>4, <2>1
      <3>2. \A n \in i..N : n \in 1..N \ {j}
        BY <1>1, <2>1
      <3> QED BY <3>1, <3>2
    <2> HIDE DEF g
    <2>3. ASSUME NEW n \in j..N PROVE g[n] = Node(n, g)
      <3>1. n \in 1..N /\ \A m \in (n + 1)..N : m \in i..N
        BY <1>1, <2>1
      <3>2. n = j \/ n \in i..N
        BY <1>1, <2>1
      <3>3. Node(n, f) = Node(n, g)
        <4>1. \A m \in (n + 1)..N : f[m] = g[m]
          BY <2>2, <3>1
        <4> QED BY <1>6, <3>1, <4>1
      <3>4. g[n] = Node(n, f)
        BY <1>4, <2>2, <3>2
      <3> QED BY <3>3, <3>4
    <2>4. j \in Done
      <3>1. j \in 1..(N + 1)
        BY <1>1, <2>1
      <3> QED BY <2>2, <2>3, <3>1 DEF Done
    <2> QED BY <1>3, <2>1, <2>4
  <1>8. f = [n \in 1..N |-> Node(n, f)]
    BY <1>4, <1>7
  <1> QED BY <1>1, <1>8 DEF Node, IsRendering

\* RenderedRows is the first of what the nodes are rendered as, for the first
\* row if there is one.
LEMMA RenderedRowsAre ==
  ASSUME NEW template, WellFormed(template), NEW alias, NEW results
  PROVE  \E f : /\ \A n \in DOMAIN template : \A k \in 0..Len(results) :
                     f[n][k] = RenderedFor(template[n], f, k, alias, results)
                /\ RenderedRows(template, alias, results) = f[1][IF results = <<>> THEN 0 ELSE 1]
  <1> DEFINE chosen == CHOOSE f : IsRendering(f, template, alias, results)
  <1>1. RenderedRows(template, alias, results) = chosen[1][IF results = <<>> THEN 0 ELSE 1]
    BY DEF RenderedRows, IsRendering
  <1>2. IsRendering(chosen, template, alias, results)
    BY RenderingExists
  <1>3. \A n \in DOMAIN template : \A k \in 0..Len(results) :
          chosen[n][k] = RenderedFor(template[n], chosen, k, alias, results)
    <2> HIDE DEF chosen
    <2>1. \A n \in DOMAIN template : chosen[n] = RenderedForAll(template[n], chosen, alias, results)
      BY <1>2 DEF IsRendering
    <2> QED BY <2>1 DEF RenderedForAll
  <1> HIDE DEF chosen
  <1> QED BY <1>1, <1>3

-----------------------------------------------------------------------------
(* The rows of a query *)

IsProduct(f) == f[0] = FirstRows /\ \A k \in 1..Len(Joins) : f[k] = Joined(f[k - 1], Joins[k])

\* From is built one join after the other.
LEMMA FromIs ==
  ASSUME Len(Joins) \in Nat
  PROVE  \E f : IsProduct(f) /\ From = f[Len(Joins)]
  <1> DEFINE N == Len(Joins)
             Building(f) == f = [k \in 0..N |-> Product(k, f)]
             chosen == CHOOSE f : Building(f)
             Done == {m \in 0..N : \E f : f = [k \in 0..N |-> f[k]] /\ \A k \in 0..m : f[k] = Product(k, f)}
  <1>1. From = chosen[N]
    BY DEF From
  <1>2. 0 \in Done
    <2> DEFINE f == [k \in 0..N |-> FirstRows]
    <2>1. f = [k \in 0..N |-> f[k]] /\ \A k \in 0..0 : f[k] = Product(k, f)
      BY DEF Product
    <2> QED BY <2>1
  <1>3. ASSUME NEW m \in 1..N, m - 1 \in Done PROVE m \in Done
    <2>1. PICK f : f = [k \in 0..N |-> f[k]] /\ \A k \in 0..(m - 1) : f[k] = Product(k, f)
      BY <1>3
    <2> DEFINE g == [f EXCEPT ![m] = Product(m, f)]
    <2>2. /\ g = [k \in 0..N |-> g[k]] /\ g[m] = Product(m, f)
          /\ \A k \in 0..(m - 1) : g[k] = f[k]
      <3>1. \A v : LET h == [f EXCEPT ![m] = v]
                  IN h = [k \in 0..N |-> h[k]] /\ h[m] = v /\ \A k \in 0..N \ {m} : h[k] = f[k]
        <4>1. m \in 0..N
          OBVIOUS
        <4> HIDE DEF N
        <4> QED BY <2>1, <4>1
      <3>2. \A k \in 0..(m - 1) : k \in 0..N \ {m}
        BY <1>3
      <3> QED BY <3>1, <3>2
    <2> HIDE DEF g
    <2>3. ASSUME NEW k \in 0..m PROVE g[k] = Product(k, g)
      <3>1. k = 0 \/ k - 1 \in 0..(m - 1)
        BY <1>3
      <3>2. Product(k, g) = Product(k, f)
        BY <2>2, <3>1 DEF Product
      <3>3. k = m \/ k \in 0..(m - 1)
        BY <1>3
      <3> QED BY <2>1, <2>2, <3>2, <3>3
    <2>4. m \in 0..N
      BY <1>3
    <2> QED BY <2>2, <2>3, <2>4
  <1>4. N \in Done
    <2>1. N \in Nat /\ N \in 0..N
      OBVIOUS
    <2> HIDE DEF Done, N
    <2> QED BY <1>2, <1>3, <2>1, UpTo
  <1>5. Building(chosen)
    <2>1. \E f : Building(f)
      BY <1>4
    <2> HIDE DEF Building
    <2> QED BY <2>1
  <1> HIDE DEF chosen
  <1>6. \A k \in 0..N : chosen[k] = Product(k, chosen)
    BY <1>5
  <1>7. IsProduct(chosen)
    BY <1>6 DEF Product, IsProduct
  <1> QED BY <1>1, <1>7

\* The sequences of all elements of a finite set.
LEMMA Enumeration ==
  ASSUME NEW S, IsFiniteSet(S), NEW s \in SetToSeqs(S)
  PROVE  /\ s \in Seq(S) /\ Len(s) \in Nat /\ DOMAIN s = 1..Len(s)
         /\ ToSet(s) = S /\ IsInjective(s)
  <1> DEFINE n == Cardinality(S)
  <1>1. n \in Nat
    BY FS_CardinalityType
  <1>2. s \in [1..n -> S] /\ IsInjective(s)
    BY DEF SetToSeqs, IsInjective
  <1>3. s \in Seq(S) /\ Len(s) = n /\ DOMAIN s = 1..n
    BY <1>1, <1>2
  <1>4. s \in Injection(1..n, S)
    BY <1>2 DEF Injection
  <1>5. IsFiniteSet(1..n) /\ Cardinality(1..n) = n
    BY <1>1, FS_Interval
  <1>6. s \in Surjection(1..n, S)
    BY <1>4, <1>5, FS_Injection
  <1>7. ToSet(s) = S
    BY <1>2, <1>6 DEF Surjection, ToSet
  <1> QED BY <1>1, <1>2, <1>3, <1>7

\* The joins of a query and the tables that it names.
LEMMA InferredParts ==
  ASSUME NEW left, NEW right
  PROVE  /\ InferredJoin(left, right).type = "INNER"
         /\ InferredJoin(left, right).foreign[1] \in {left, right}
         /\ InferredJoin(left, right).local[1] \in {left, right}
         /\ References(left, right) # {} =>
              /\ InferredJoin(left, right).foreign[1] = right
              /\ InferredJoin(left, right).local = <<left, Id>>
         /\ References(left, right) = {} => InferredJoin(left, right).foreign[1] = left
  BY DEF InferredJoin, FoundJoin

Valid == ValidTables /\ ValidJoins /\ ValidRefs

LEMMA JoinsAre ==
  ASSUME endpoint \in Endpoints, Valid
  PROVE  /\ Len(Joins) \in Nat /\ DOMAIN Joins = 1..Len(Joins)
         /\ endpoint.joins = <<>> =>
              /\ Len(Joins) = Len(endpoint.tables) - 1
              /\ \A k \in 1..Len(Joins) :
                   Joins[k] = InferredJoin(endpoint.tables[k], endpoint.tables[k + 1])
         /\ endpoint.joins # <<>> => Joins = endpoint.joins
         /\ \A k \in 1..Len(Joins) : /\ Joins[k].type \in {"INNER", "LEFT"}
                                     /\ Joins[k].foreign[1] \in Listed /\ Joins[k].local[1] \in Listed
  <1> DEFINE ts == endpoint.tables
  <1>1. /\ ts \in Seq(ToSet(ts)) /\ endpoint.joins \in Seq(ToSet(endpoint.joins)) /\ ts # <<>>
    BY EndpointAssumption DEF Valid, ValidTables
  <1>2. CASE endpoint.joins # <<>>
    <2>1. Joins = endpoint.joins
      BY <1>2 DEF Joins
    <2>2. \A k \in DOMAIN endpoint.joins : endpoint.joins[k] \in ToSet(endpoint.joins)
      BY DEF ToSet
    <2>3. \A k \in DOMAIN endpoint.joins :
            /\ endpoint.joins[k].type \in {"INNER", "LEFT"}
            /\ endpoint.joins[k].foreign[1] \in Listed /\ endpoint.joins[k].local[1] \in Listed
      BY <2>2 DEF Valid, ValidJoins, Known
    <2>4. Len(Joins) \in Nat /\ DOMAIN Joins = 1..Len(Joins)
      BY <1>1, <2>1
    <2> QED BY <1>2, <2>1, <2>3, <2>4
  <1>3. CASE endpoint.joins = <<>>
    <2> DEFINE n == Len(ts) - 1
    <2>1. n \in Nat /\ DOMAIN ts = 1..(n + 1)
      BY <1>1
    <2>2. Joins = [k \in 1..n |-> InferredJoin(ts[k], ts[k + 1])]
      BY <1>3 DEF Joins
    <2> HIDE DEF n
    <2>3. Len(Joins) = n /\ DOMAIN Joins = 1..n
      BY <2>1, <2>2
    <2>4. \A k \in 1..n : ts[k] \in Listed /\ ts[k + 1] \in Listed
      <3>1. \A k \in 1..n : k \in DOMAIN ts /\ k + 1 \in DOMAIN ts
        BY <2>1
      <3> QED BY <3>1 DEF Listed, ToSet
    <2>5. \A k \in 1..n : /\ Joins[k] = InferredJoin(ts[k], ts[k + 1])
                          /\ Joins[k].type = "INNER"
                          /\ Joins[k].foreign[1] \in Listed /\ Joins[k].local[1] \in Listed
      BY <2>2, <2>4, InferredParts
    <2> QED BY <1>3, <2>1, <2>3, <2>5 DEF n
  <1> QED BY <1>2, <1>3

LEMMA AfterOne ==
  ASSUME NEW S, NEW e \in S, NEW s \in Seq(S)
  PROVE  /\ DOMAIN (<<e>> \o s) = 1..(Len(s) + 1) /\ (<<e>> \o s)[1] = e
         /\ \A k \in 1..Len(s) : (<<e>> \o s)[k + 1] = s[k]
         /\ \A i \in 1..(Len(s) + 1) : (<<e>> \o s)[i] \in S
  <1>1. Len(s) \in Nat /\ DOMAIN s = 1..Len(s) /\ <<e>> \in Seq(S) /\ Len(<<e>>) = 1
    OBVIOUS
  <1>2. Len(<<e>> \o s) = Len(s) + 1 /\ <<e>> \o s \in Seq(S)
    BY <1>1
  <1>3. DOMAIN (<<e>> \o s) = 1..(Len(s) + 1) /\ \A i \in 1..(Len(s) + 1) : (<<e>> \o s)[i] \in S
    BY <1>1, <1>2
  <1>4. (<<e>> \o s)[1] = e
    BY <1>1
  <1>5. ASSUME NEW k \in 1..Len(s) PROVE (<<e>> \o s)[k + 1] = s[k]
    BY <1>1
  <1> QED BY <1>3, <1>4, <1>5

LEMMA SourcesAre ==
  ASSUME endpoint \in Endpoints, Valid
  PROVE  /\ DOMAIN Sources = 1..(Len(Joins) + 1)
         /\ Sources[1] = endpoint.tables[1] /\ Head(endpoint.tables) = endpoint.tables[1]
         /\ endpoint.tables[1] \in Listed
         /\ \A k \in 1..Len(Joins) : Sources[k + 1] = Joins[k].foreign[1]
         /\ ToSet(Sources) \subseteq Listed
         /\ JoinedBefore(0) = {endpoint.tables[1]}
         /\ \A k \in 1..Len(Joins) : JoinedBefore(k) = JoinedBefore(k - 1) \cup {Joins[k].foreign[1]}
         /\ JoinedBefore(Len(Joins)) = ToSet(Sources)
  <1> DEFINE n == Len(Joins)
             one == <<Head(endpoint.tables)>>
             rest == [k \in 1..n |-> Joins[k].foreign[1]]
  <1>1. n \in Nat /\ DOMAIN Joins = 1..n
    BY JoinsAre
  <1>2. Sources = one \o rest
    BY <1>1 DEF Sources
  <1>3. endpoint.tables \in Seq(ToSet(endpoint.tables)) /\ endpoint.tables # <<>>
    BY EndpointAssumption DEF Valid, ValidTables
  <1>4. Head(endpoint.tables) = endpoint.tables[1] /\ endpoint.tables[1] \in Listed
    <2>1. 1 \in DOMAIN endpoint.tables
      BY <1>3
    <2> QED BY <1>3, <2>1 DEF Listed, ToSet
  <1>5. \A k \in 1..n : Joins[k].foreign[1] \in Listed
    BY JoinsAre
  <1> HIDE DEF n
  <1>6. /\ rest \in Seq(Listed) /\ Len(rest) = n /\ DOMAIN rest = 1..n
        /\ one \in Seq(Listed) /\ Len(one) = 1 /\ one[1] = endpoint.tables[1]
    BY <1>1, <1>4, <1>5
  <1>7. \A k \in 1..n : rest[k] = Joins[k].foreign[1]
    OBVIOUS
  <1> HIDE DEF one, rest
  <1>8. /\ DOMAIN Sources = 1..(n + 1) /\ Sources[1] = endpoint.tables[1]
        /\ \A k \in 1..n : Sources[k + 1] = rest[k]
        /\ \A i \in 1..(n + 1) : Sources[i] \in Listed
    <2>1. one = <<endpoint.tables[1]>>
      BY <1>4 DEF one
    <2> QED BY <1>2, <1>4, <1>6, <2>1, AfterOne
  <1> HIDE DEF Sources
  <1>9. JoinedBefore(0) = {endpoint.tables[1]}
    <2>1. 1..(0 + 1) = {1}
      OBVIOUS
    <2> QED BY <1>8, <2>1 DEF JoinedBefore
  <1>10. ASSUME NEW k \in 1..n PROVE JoinedBefore(k) = JoinedBefore(k - 1) \cup {Joins[k].foreign[1]}
    <2>1. 1..(k + 1) = (1..((k - 1) + 1)) \cup {k + 1}
      BY <1>1
    <2> QED BY <1>7, <1>8, <2>1 DEF JoinedBefore
  <1>11. JoinedBefore(n) = ToSet(Sources)
    BY <1>8 DEF JoinedBefore, ToSet
  <1>12. ToSet(Sources) \subseteq Listed
    BY <1>8 DEF ToSet
  <1> QED BY <1>4, <1>7, <1>8, <1>9, <1>10, <1>11, <1>12 DEF n

\* A row of the query has a part for each of the tables it names.
IdsOf(T) == UNION {DOMAIN database[t] : t \in T}

RowsOver(T) ==
  {row \in [T -> IdsOf(T) \cup {NoRow}] : \A t \in T : row[t] \in DOMAIN database[t] \cup {NoRow}}

LEMMA IdsOfTable == ASSUME NEW T, NEW t \in T PROVE DOMAIN database[t] \subseteq IdsOf(T)
  <1> DEFINE Domains == {DOMAIN database[u] : u \in T}
  <1>1. DOMAIN database[t] \in Domains
    OBVIOUS
  <1>2. IdsOf(T) = UNION Domains
    BY DEF IdsOf
  <1> HIDE DEF Domains
  <1> QED BY <1>1, <1>2

LEMMA WithIs ==
  ASSUME NEW T, NEW row \in RowsOver(T), NEW t, NEW i \in DOMAIN database[t] \cup {NoRow}
  PROVE  /\ With(row, t, i) \in RowsOver(T \cup {t})
         /\ \A u \in T : With(row, t, i)[u] = row[u]
         /\ t \notin T => With(row, t, i)[t] = i
  <1>1. DOMAIN row = T /\ \A u \in T : row[u] \in DOMAIN database[u] \cup {NoRow}
    BY DEF RowsOver
  <1>2. With(row, t, i) = [u \in T \cup {t} |-> IF u \in T THEN row[u] ELSE i]
    BY <1>1 DEF With
  <1>3. \A u \in T \cup {t} : With(row, t, i)[u] \in DOMAIN database[u] \cup {NoRow}
    BY <1>1, <1>2
  <1> HIDE DEF With
  <1>4. With(row, t, i) \in [T \cup {t} -> IdsOf(T \cup {t}) \cup {NoRow}]
    <2>1. With(row, t, i) = [u \in T \cup {t} |-> With(row, t, i)[u]]
      BY <1>2
    <2>2. \A u \in T \cup {t} : With(row, t, i)[u] \in IdsOf(T \cup {t}) \cup {NoRow}
      BY <1>3, IdsOfTable
    <2> QED BY <2>1, <2>2
  <1> QED BY <1>1, <1>2, <1>3, <1>4 DEF RowsOver

LEMMA RowsOfProducts ==
  ASSUME endpoint \in Endpoints, Valid, NEW f, IsProduct(f), NEW k \in 0..Len(Joins)
  PROVE  f[k] \subseteq RowsOver(JoinedBefore(k))
  <1> DEFINE n == Len(Joins)
  <1>1. n \in Nat
    BY JoinsAre
  <1>2. f[0] = FirstRows /\ \A j \in 1..n : f[j] = Joined(f[j - 1], Joins[j])
    BY DEF IsProduct
  <1> DEFINE Done == {j \in 0..n : f[j] \subseteq RowsOver(JoinedBefore(j))}
  <1>6. k \in 0..n
    OBVIOUS
  <1> HIDE DEF n
  <1>3. 0 \in Done
    <2>1. Head(endpoint.tables) = endpoint.tables[1] /\ JoinedBefore(0) = {endpoint.tables[1]}
      BY SourcesAre
    <2> DEFINE first == endpoint.tables[1]
    <2>2. FirstRows = {[t \in {first} |-> i] : i \in DOMAIN database[first]}
      BY <2>1 DEF FirstRows
    <2> HIDE DEF first
    <2>3. ASSUME NEW i \in DOMAIN database[first] PROVE [t \in {first} |-> i] \in RowsOver({first})
      <3>1. DOMAIN database[first] \subseteq IdsOf({first})
        BY IdsOfTable
      <3> QED BY <3>1 DEF RowsOver
    <2>4. FirstRows \subseteq RowsOver(JoinedBefore(0))
      BY <2>1, <2>2, <2>3 DEF first
    <2> QED BY <1>1, <1>2, <2>4
  <1>4. ASSUME NEW j \in 1..n, j - 1 \in Done PROVE j \in Done
    <2>1. f[j - 1] \subseteq RowsOver(JoinedBefore(j - 1)) /\ f[j] = Joined(f[j - 1], Joins[j])
      BY <1>2, <1>4
    <2>2. JoinedBefore(j) = JoinedBefore(j - 1) \cup {Joins[j].foreign[1]}
      BY SourcesAre DEF n
    <2>3. ASSUME NEW row \in f[j] PROVE row \in RowsOver(JoinedBefore(j))
      <3>1. PICK old \in f[j - 1], i \in DOMAIN database[Joins[j].foreign[1]] \cup {NoRow} :
              row = With(old, Joins[j].foreign[1], i)
        BY <2>1 DEF Joined, Partners
      <3>2. old \in RowsOver(JoinedBefore(j - 1))
        BY <2>1
      <3>3. row \in RowsOver(JoinedBefore(j - 1) \cup {Joins[j].foreign[1]})
        BY <3>1, <3>2, WithIs
      <3> QED BY <2>2, <3>3
    <2> QED BY <2>3
  <1>5. k \in Done
    <2> HIDE DEF Done
    <2> QED BY <1>1, <1>3, <1>4, <1>6, UpTo
  <1> QED BY <1>5

LEMMA RowsOfFrom == ASSUME endpoint \in Endpoints, Valid PROVE From \subseteq RowsOver(ToSet(Sources))
  <1>1. Len(Joins) \in 0..Len(Joins)
    BY JoinsAre
  <1>2. PICK f : IsProduct(f) /\ From = f[Len(Joins)]
    BY <1>1, FromIs
  <1>3. From \subseteq RowsOver(JoinedBefore(Len(Joins)))
    BY <1>1, <1>2, RowsOfProducts
  <1> QED BY <1>3, SourcesAre

-----------------------------------------------------------------------------
(* The result of a query *)

LEMMA FunctionsAreFinite ==
  ASSUME NEW S, IsFiniteSet(S), NEW T, IsFiniteSet(T) PROVE IsFiniteSet([S -> T])
  <1> DEFINE Graph(f) == {<<x, f[x]>> : x \in S}
             graph == [f \in [S -> T] |-> Graph(f)]
  <1>1. IsFiniteSet(SUBSET (S \X T))
    BY FS_Product, FS_SUBSET
  <1>2. \A f \in [S -> T] : Graph(f) \in SUBSET (S \X T)
    OBVIOUS
  <1>3. ASSUME NEW f \in [S -> T], NEW g \in [S -> T], Graph(f) = Graph(g) PROVE f = g
    <2>1. ASSUME NEW x \in S PROVE f[x] = g[x]
      <3>1. <<x, f[x]>> \in Graph(g)
        BY <1>3
      <3> QED BY <3>1
    <2> QED BY <2>1
  <1> HIDE DEF Graph
  <1>4. graph \in [[S -> T] -> SUBSET (S \X T)]
    BY <1>2
  <1>5. IsInjective(graph)
    BY <1>3 DEF IsInjective
  <1>6. graph \in Injection([S -> T], SUBSET (S \X T))
    BY <1>4, <1>5 DEF Injection
  <1> QED BY <1>1, <1>6, FS_Injection

LEMMA SequenceIsFinite == ASSUME NEW S, NEW s \in Seq(S) PROVE IsFiniteSet(ToSet(s))
  <1> DEFINE f == [i \in 1..Len(s) |-> s[i]]
  <1>1. Len(s) \in Nat /\ DOMAIN s = 1..Len(s)
    OBVIOUS
  <1>2. f \in Surjection(1..Len(s), ToSet(s))
    BY <1>1 DEF Surjection, ToSet
  <1> QED BY <1>1, <1>2, FS_NatSurjection DEF ExistsSurjection

LEMMA SelectedIsFinite ==
  ASSUME endpoint \in Endpoints, database \in Databases, Valid, NEW ctx
  PROVE  IsFiniteSet(Selected(ctx)) /\ Selected(ctx) \subseteq RowsOver(ToSet(Sources))
  <1> DEFINE T == ToSet(Sources)
  <1>1. T \subseteq Listed /\ Listed \subseteq Tables
    BY SourcesAre DEF Valid, ValidTables
  <1>2. IsFiniteSet(T)
    <2>1. IsFiniteSet(Listed)
      BY EndpointAssumption, SequenceIsFinite DEF Listed
    <2> HIDE DEF T
    <2> QED BY <1>1, <2>1, FS_Subset
  <1>3. IsFiniteSet(IdsOf(T) \cup {NoRow})
    <2>1. IsFiniteSet(IdsOf(Tables))
      BY EndpointAssumption DEF IdsOf
    <2>2. IdsOf(T) \subseteq IdsOf(Tables)
      <3> HIDE DEF T
      <3> QED BY <1>1 DEF IdsOf
    <2>3. IsFiniteSet(IdsOf(T))
      <3> HIDE DEF T
      <3> QED BY <2>1, <2>2, FS_Subset
    <2> HIDE DEF T
    <2> QED BY <2>3, FS_AddElement
  <1>4. IsFiniteSet([T -> IdsOf(T) \cup {NoRow}])
    <2> HIDE DEF T
    <2> QED BY <1>2, <1>3, FunctionsAreFinite
  <1>5. Selected(ctx) \subseteq RowsOver(T)
    BY RowsOfFrom DEF Selected
  <1>6. Selected(ctx) \subseteq [T -> IdsOf(T) \cup {NoRow}]
    BY <1>5 DEF RowsOver
  <1> HIDE DEF T
  <1>7. IsFiniteSet(Selected(ctx))
    BY <1>4, <1>6, FS_Subset
  <1> QED BY <1>5, <1>7 DEF T

Earlier(a, b) == IF endpoint.order.desc THEN Rank(a) >= Rank(b) ELSE Rank(a) <= Rank(b)

LEMMA InOrderIs ==
  ASSUME NEW s
  PROVE  InOrder(s) <=>
           (endpoint.order # NoOrder => \A i, j \in DOMAIN s : i < j => Earlier(s[i], s[j]))
  BY DEF InOrder, Earlier

\* What a result has of the rows that the query selects.
ResultOf(selected, s) ==
  /\ s \in Seq(selected) /\ Len(s) \in Nat /\ DOMAIN s = 1..Len(s) /\ IsInjective(s)
  /\ selected \ ToSet(s) # {} => Len(s) = endpoint.limit
  /\ \A row \in selected \ ToSet(s) : InOrder(Append(s, row))

LEMMA ResultIs ==
  ASSUME endpoint \in Endpoints, database \in Databases, Valid, NEW ctx, NEW s \in Results(ctx)
  PROVE  ResultOf(Selected(ctx), s)
  <1> DEFINE S == Selected(ctx)
             limit == endpoint.limit
  <1>1. PICK q \in SetToSeqs(S) : InOrder(q) /\ s = Limited(q)
    BY DEF Results
  <1>2. IsFiniteSet(S)
    BY SelectedIsFinite
  <1> HIDE DEF S
  <1>3. q \in Seq(S) /\ Len(q) \in Nat /\ DOMAIN q = 1..Len(q) /\ ToSet(q) = S /\ IsInjective(q)
    BY <1>2, Enumeration
  <1>4. CASE limit \notin 0..Len(q)
    <2>1. s = q
      BY <1>1, <1>4 DEF Limited
    <2> QED BY <1>3, <2>1 DEF ResultOf, S
  <1>5. CASE limit \in 0..Len(q)
    <2>1. s = SubSeq(q, 1, limit)
      BY <1>1, <1>5 DEF Limited
    <2> HIDE DEF limit
    <2>2. s \in Seq(S) /\ Len(s) = limit /\ DOMAIN s = 1..limit /\ \A i \in 1..limit : s[i] = q[i]
      BY <1>3, <1>5, <2>1
    <2>3. \A i \in 1..limit : i \in DOMAIN q
      BY <1>3, <1>5
    <2>4. IsInjective(s)
      BY <1>3, <2>2, <2>3 DEF IsInjective
    <2>5. ASSUME NEW row \in S \ ToSet(s) PROVE InOrder(Append(s, row))
      <3>1. PICK j \in DOMAIN q : row = q[j]
        BY <1>3 DEF ToSet
      <3>2. j \notin 1..limit
        BY <2>2, <2>5, <3>1 DEF ToSet
      <3>3. j > limit /\ limit \in Nat
        BY <1>3, <1>5, <3>2
      <3> DEFINE a == Append(s, row)
      <3>4. /\ DOMAIN a = 1..(limit + 1) /\ a[limit + 1] = row
            /\ \A i \in 1..limit : a[i] = s[i]
        <4>1. s \in Seq(S) /\ row \in S /\ Len(s) = limit
          BY <2>2
        <4> QED BY <3>3, <4>1
      <3> HIDE DEF a
      <3>5. ASSUME endpoint.order # NoOrder, NEW i \in DOMAIN a, NEW k \in DOMAIN a, i < k
            PROVE  Earlier(a[i], a[k])
        <4>1. i \in 1..limit /\ a[i] = q[i]
          BY <2>2, <3>3, <3>4, <3>5
        <4>2. CASE k \in 1..limit
          <5>1. a[k] = q[k]
            BY <2>2, <3>4, <4>2
          <5> QED BY <1>1, <2>3, <3>5, <4>1, <4>2, <5>1, InOrderIs
        <4>3. CASE k = limit + 1
          <5>1. i < j
            BY <3>3, <4>1, <1>3
          <5> QED BY <1>1, <2>3, <3>1, <3>4, <3>5, <4>1, <4>3, <5>1, InOrderIs
        <4> QED BY <3>3, <3>4, <4>2, <4>3
      <3> QED BY <3>5, InOrderIs DEF a
    <2>6. limit \in Nat
      BY <1>3, <1>5
    <2> QED BY <2>2, <2>4, <2>5, <2>6 DEF ResultOf, S, limit
  <1> QED BY <1>4, <1>5

\* A limit that is no number of rows, none or a negative one, is none.
LEMMA ResultIsAll ==
  ASSUME endpoint \in Endpoints, database \in Databases, Valid, NEW ctx, NEW s \in Results(ctx),
         endpoint.limit \notin Nat
  PROVE  ToSet(s) = Selected(ctx)
  <1>1. ResultOf(Selected(ctx), s)
    BY ResultIs
  <1>2. ToSet(s) \subseteq Selected(ctx)
    BY <1>1 DEF ResultOf, ToSet
  <1>3. Selected(ctx) \ ToSet(s) = {}
    BY <1>1 DEF ResultOf
  <1> QED BY <1>2, <1>3

-----------------------------------------------------------------------------
(* Inferred joins *)

\* A query over inferred joins is only prepared if each table that is listed
\* refers to the one before it.
LEMMA PreparedIsForward ==
  ASSUME endpoint \in Endpoints, Valid, endpoint.joins = <<>>, Prepared
  PROVE  /\ \A k \in 1..Len(Joins) : References(endpoint.tables[k], endpoint.tables[k + 1]) # {}
         /\ \A i \in 1..(Len(Joins) + 1) : Sources[i] = endpoint.tables[i]
  <1> DEFINE n == Len(Joins)
             ts == endpoint.tables
             Done == {k \in 0..n : Sources[k + 1] = ts[k + 1]}
  <1>1. n \in Nat /\ \A k \in 1..n : Joins[k] = InferredJoin(ts[k], ts[k + 1])
    BY JoinsAre
  <1>2. /\ DOMAIN Sources = 1..(n + 1) /\ Sources[1] = ts[1]
        /\ \A k \in 1..n : Sources[k + 1] = Joins[k].foreign[1]
    BY SourcesAre
  <1>3. \A i, j \in 1..(n + 1) : Sources[i] = Sources[j] => i = j
    BY <1>2 DEF Prepared, IsInjective
  <1> HIDE DEF n, ts
  <1>4. \A k \in 1..n : References(ts[k], ts[k + 1]) = {} => Sources[k + 1] = ts[k]
    BY <1>1, <1>2, InferredParts
  <1>5. \A k \in 1..n : References(ts[k], ts[k + 1]) # {} => Sources[k + 1] = ts[k + 1]
    BY <1>1, <1>2, InferredParts
  <1>6. ASSUME NEW k \in 1..n, k - 1 \in Done
        PROVE  References(ts[k], ts[k + 1]) # {} /\ k \in Done
    <2>1. (k - 1) + 1 = k /\ k \in 1..(n + 1) /\ k + 1 \in 1..(n + 1) /\ k # k + 1 /\ k \in 0..n
      BY <1>1
    <2>2. Sources[k] = ts[k]
      BY <1>6, <2>1
    <2>3. References(ts[k], ts[k + 1]) # {}
      BY <1>3, <1>4, <2>1, <2>2
    <2> QED BY <1>5, <2>1, <2>3
  <1>7. 0 \in Done
    BY <1>1, <1>2
  <1>8. \A k \in 0..n : k \in Done
    <2> HIDE DEF Done
    <2> QED BY <1>1, <1>6, <1>7, UpTo
  <1>9. \A k \in 1..n : References(ts[k], ts[k + 1]) # {}
    <2>1. \A k \in 1..n : k - 1 \in 0..n
      BY <1>1
    <2> HIDE DEF Done
    <2> QED BY <1>6, <1>8, <2>1
  <1>10. ASSUME NEW i \in 1..(n + 1) PROVE Sources[i] = ts[i]
    <2>1. i - 1 \in 0..n /\ (i - 1) + 1 = i
      BY <1>1
    <2> QED BY <1>8, <2>1
  <1> QED BY <1>9, <1>10 DEF n, ts

\* If each table refers to the one before it, the query is prepared.
LEMMA ForwardIsAnswerable ==
  ASSUME endpoint \in Endpoints, Valid, endpoint.joins = <<>>, ColumnsExist,
         \A k \in 1..(Len(endpoint.tables) - 1) :
           References(endpoint.tables[k], endpoint.tables[k + 1]) # {}
  PROVE  Inferable /\ Prepared
  <1> DEFINE n == Len(Joins)
             ts == endpoint.tables
  <1>1. /\ n \in Nat /\ n = Len(ts) - 1 /\ DOMAIN Joins = 1..n
        /\ \A k \in 1..n : Joins[k] = InferredJoin(ts[k], ts[k + 1])
    BY JoinsAre
  <1>2. \A k \in 1..n : /\ Joins[k].type = "INNER"
                        /\ Joins[k].foreign[1] = ts[k + 1] /\ Joins[k].local[1] = ts[k]
    BY <1>1, InferredParts
  <1>3. /\ DOMAIN Sources = 1..(n + 1) /\ Sources[1] = ts[1]
        /\ \A k \in 1..n : Sources[k + 1] = Joins[k].foreign[1]
    BY SourcesAre
  <1>4. ts \in Seq(ToSet(ts)) /\ IsInjective(ts)
    BY EndpointAssumption DEF Valid, ValidTables
  <1> HIDE DEF n
  <1>5. DOMAIN ts = 1..(n + 1)
    BY <1>1, <1>4
  <1>6. ASSUME NEW i \in 1..(n + 1) PROVE Sources[i] = ts[i]
    <2>1. CASE i = 1
      BY <1>3, <2>1
    <2>2. CASE i # 1
      <3>1. i - 1 \in 1..n /\ (i - 1) + 1 = i
        BY <1>1, <2>2
      <3> QED BY <1>2, <1>3, <3>1
    <2> QED BY <2>1, <2>2
  <1>7. IsInjective(Sources) /\ ToSet(Sources) = Listed
    BY <1>3, <1>4, <1>5, <1>6 DEF IsInjective, ToSet, Listed
  <1>8. \A k \in DOMAIN Joins : Joins[k].local[1] \in ToSet(Sources) /\ Joins[k].type # "LEFT"
    <2>1. \A k \in 1..n : k \in DOMAIN ts
      BY <1>1, <1>5
    <2>2. \A k \in 1..n : ts[k] \in Listed
      BY <2>1 DEF Listed, ToSet
    <2> HIDE DEF ts
    <2> QED BY <1>1, <1>2, <1>7, <2>2
  <1>9. Prepared
    BY <1>7, <1>8 DEF Prepared, ColumnsExist
  <1>10. Inferable
    BY DEF Inferable
  <1> QED BY <1>9, <1>10

\* The column of an inferred join.
LEMMA InferredLink ==
  ASSUME NEW left, NEW right \in Tables, References(left, right) # {}
  PROVE  LET link == InferredJoin(left, right).foreign
         IN link \in DOMAIN foreignKey /\ foreignKey[link] = left /\ link[1] = right
  <1> DEFINE R == References(left, right)
             first == CHOOSE k \in R : \A l \in R : k <= l
  <1>1. R \subseteq Nat
    <2>1. Columns[right] \in Seq(ToSet(Columns[right]))
      BY EndpointAssumption
    <2>2. DOMAIN Columns[right] \subseteq Nat
      BY <2>1
    <2> QED BY <2>2 DEF References
  <1>2. first \in R
    <2>1. \E k \in R : \A l \in R : k <= l
      BY <1>1, LeastNatural
    <2> HIDE DEF R
    <2> QED BY <2>1
  <1>3. InferredJoin(left, right).foreign = <<right, Columns[right][first]>>
    BY DEF InferredJoin, FoundJoin
  <1> HIDE DEF first
  <1> QED BY <1>2, <1>3 DEF References

\* Whether a row satisfies the condition of a join depends on its parts in the
\* two tables of the join.
LEMMA OnIsLocal ==
  ASSUME NEW join, NEW a, NEW b, join.local[1] \in DOMAIN a, join.local[1] \in DOMAIN b,
         a[join.local[1]] = b[join.local[1]], a[join.foreign[1]] = b[join.foreign[1]]
  PROVE  On(a, join) <=> On(b, join)
  <1>1. ValueOf(a, join.local) = ValueOf(b, join.local) /\ ValueOf(a, join.foreign) = ValueOf(b, join.foreign)
    BY DEF ValueOf
  <1> QED BY <1>1 DEF On

\* The rows of the first k + 1 tables that satisfy the conditions of the first
\* k joins.
Inner(k) ==
  {row \in [JoinedBefore(k) -> IdsOf(JoinedBefore(k))] :
     /\ \A t \in JoinedBefore(k) : row[t] \in DOMAIN database[t]
     /\ \A j \in 1..k : On(row, Joins[j])}

LEMMA InnerStep ==
  ASSUME endpoint \in Endpoints, Valid, endpoint.joins = <<>>, Prepared, NEW k \in 1..Len(Joins)
  PROVE  Inner(k) = Joined(Inner(k - 1), Joins[k])
  <1> DEFINE n == Len(Joins)
             ts == endpoint.tables
             join == Joins[k]
             new == ts[k + 1]
             Old == JoinedBefore(k - 1)
             New == JoinedBefore(k)
  <1>1. /\ n \in Nat /\ n + 1 = Len(ts)
        /\ \A j \in 1..n : Joins[j] = InferredJoin(ts[j], ts[j + 1])
    <2>1. n \in Nat /\ n = Len(ts) - 1 /\ \A j \in 1..n : Joins[j] = InferredJoin(ts[j], ts[j + 1])
      BY JoinsAre
    <2>2. ts \in Seq(ToSet(ts))
      BY EndpointAssumption
    <2> QED BY <2>1, <2>2
  <1>2. \A j \in 1..n : References(ts[j], ts[j + 1]) # {}
    BY PreparedIsForward
  <1>3. \A j \in 1..n : /\ Joins[j].type = "INNER"
                        /\ Joins[j].foreign[1] = ts[j + 1] /\ Joins[j].local[1] = ts[j]
    <2> SUFFICES ASSUME NEW j \in 1..n
                 PROVE  /\ Joins[j].type = "INNER"
                        /\ Joins[j].foreign[1] = ts[j + 1] /\ Joins[j].local[1] = ts[j]
      OBVIOUS
    <2>1. References(ts[j], ts[j + 1]) # {} /\ Joins[j] = InferredJoin(ts[j], ts[j + 1])
      BY <1>1, <1>2
    <2>2. InferredJoin(ts[j], ts[j + 1]).local = <<ts[j], Id>>
      BY <2>1, InferredParts
    <2> QED BY <2>1, <2>2, InferredParts
  <1>4. \A i \in 1..(n + 1) : Sources[i] = ts[i]
    BY PreparedIsForward
  <1>5. \A j \in 0..n : JoinedBefore(j) = {ts[i] : i \in 1..(j + 1)}
    <2> SUFFICES ASSUME NEW j \in 0..n PROVE JoinedBefore(j) = {ts[i] : i \in 1..(j + 1)}
      OBVIOUS
    <2>1. \A i \in 1..(j + 1) : i \in 1..(n + 1)
      BY <1>1
    <2> QED BY <1>4, <2>1 DEF JoinedBefore
  <1>6. New = Old \cup {new}
    BY <1>3, SourcesAre
  <1>7. new \notin Old
    <2>1. \A i, j \in 1..(n + 1) : ts[i] = ts[j] => i = j
      <3>1. ts \in Seq(ToSet(ts)) /\ IsInjective(ts)
        BY EndpointAssumption DEF Valid, ValidTables
      <3>2. DOMAIN ts = 1..(n + 1)
        BY <1>1, <3>1
      <3> HIDE DEF ts
      <3> QED BY <3>1, <3>2 DEF IsInjective
    <2>2. k - 1 \in 0..n /\ k + 1 \in 1..(n + 1) /\ \A i \in 1..((k - 1) + 1) : i \in 1..(n + 1) /\ i # k + 1
      BY <1>1
    <2>3. Old = {ts[i] : i \in 1..((k - 1) + 1)}
      BY <1>5, <2>2
    <2> HIDE DEF ts, Old
    <2> QED BY <2>1, <2>2, <2>3
  <1>8. \A j \in 1..k : /\ j \in 1..n /\ Joins[j].local[1] \in Old
                        /\ j # k => Joins[j].foreign[1] \in Old /\ j \in 1..(k - 1)
    <2> SUFFICES ASSUME NEW j \in 1..k
                 PROVE  /\ j \in 1..n /\ Joins[j].local[1] \in Old
                        /\ j # k => Joins[j].foreign[1] \in Old /\ j \in 1..(k - 1)
      OBVIOUS
    <2>1. k - 1 \in 0..n /\ j \in 1..n /\ j \in 1..((k - 1) + 1) /\ (j # k => j + 1 \in 1..((k - 1) + 1) /\ j \in 1..(k - 1))
      BY <1>1
    <2>2. Old = {ts[i] : i \in 1..((k - 1) + 1)}
      BY <1>5, <2>1
    <2> HIDE DEF Old, ts
    <2> QED BY <1>3, <2>1, <2>2
  <1>9. Joined(Inner(k - 1), join) = UNION {{With(row, new, i) : i \in Partners(row, join)} : row \in Inner(k - 1)}
    <2>1. join.type # "LEFT" /\ join.foreign[1] = new
      BY <1>1, <1>3
    <2> HIDE DEF join, new
    <2> QED BY <2>1 DEF Joined
  <1>10. join.foreign[1] = new /\ join.local[1] \in Old
    <2>1. k \in 1..k
      BY <1>1
    <2> QED BY <1>1, <1>3, <1>8, <2>1
  <1> HIDE DEF n, ts, join, new, Old, New
  <1>11. \A row \in Inner(k - 1) :
           /\ row \in [Old -> IdsOf(Old)] /\ \A t \in Old : row[t] \in DOMAIN database[t]
           /\ \A j \in 1..(k - 1) : On(row, Joins[j])
    BY DEF Inner, Old
  <1>12. ASSUME NEW row \in Inner(k - 1), NEW i \in DOMAIN database[new]
         PROVE  LET x == With(row, new, i)
                IN x = [t \in New |-> IF t \in Old THEN row[t] ELSE i]
    BY <1>6, <1>11 DEF With
  <1>13. ASSUME NEW row \in Inner(k - 1), NEW i \in Partners(row, join)
         PROVE  With(row, new, i) \in Inner(k)
    <2> DEFINE x == With(row, new, i)
    <2>1. i \in DOMAIN database[new] /\ On(x, join)
      BY <1>10, <1>13 DEF Partners
    <2>2. x = [t \in New |-> IF t \in Old THEN row[t] ELSE i]
      BY <2>1, <1>12
    <2> HIDE DEF x
    <2>3. \A t \in New : x[t] \in DOMAIN database[t]
      BY <1>6, <1>11, <2>1, <2>2
    <2>4. \A t \in New : x[t] \in IdsOf(New)
      BY <2>3, IdsOfTable
    <2>5. x \in [New -> IdsOf(New)]
      BY <2>2, <2>4
    <2>6. ASSUME NEW j \in 1..k PROVE On(x, Joins[j])
      <3>1. CASE j = k
        BY <2>1, <3>1 DEF join
      <3>2. CASE j # k
        <4>1. j \in 1..(k - 1) /\ Joins[j].local[1] \in Old /\ Joins[j].foreign[1] \in Old
          BY <1>8, <3>2
        <4>2. /\ On(row, Joins[j])
              /\ Joins[j].local[1] \in DOMAIN row /\ Joins[j].local[1] \in DOMAIN x
              /\ row[Joins[j].local[1]] = x[Joins[j].local[1]] /\ row[Joins[j].foreign[1]] = x[Joins[j].foreign[1]]
          BY <1>6, <1>11, <2>2, <4>1
        <4> QED BY <4>2, OnIsLocal
      <3> QED BY <3>1, <3>2
    <2> QED BY <2>3, <2>5, <2>6 DEF Inner, x, New
  <1>14. ASSUME NEW x \in Inner(k)
         PROVE  \E row \in Inner(k - 1) : \E i \in Partners(row, join) : x = With(row, new, i)
    <2> DEFINE row == [t \in Old |-> x[t]]
    <2>1. /\ x \in [New -> IdsOf(New)] /\ \A t \in New : x[t] \in DOMAIN database[t]
          /\ \A j \in 1..k : On(x, Joins[j])
      BY DEF Inner, New
    <2>2. \A t \in Old : row[t] = x[t] /\ row[t] \in DOMAIN database[t]
      BY <1>6, <2>1
    <2>3. row \in [Old -> IdsOf(Old)]
      BY <2>2, IdsOfTable
    <2>4. ASSUME NEW j \in 1..(k - 1) PROVE On(row, Joins[j])
      <3>1. j \in 1..k /\ j # k
        BY <1>1
      <3>2. Joins[j].local[1] \in Old /\ Joins[j].foreign[1] \in Old
        BY <1>8, <3>1
      <3>3. /\ On(x, Joins[j])
            /\ Joins[j].local[1] \in DOMAIN row /\ Joins[j].local[1] \in DOMAIN x
            /\ row[Joins[j].local[1]] = x[Joins[j].local[1]] /\ row[Joins[j].foreign[1]] = x[Joins[j].foreign[1]]
        BY <1>6, <2>1, <2>2, <3>1, <3>2
      <3> HIDE DEF row
      <3> QED BY <3>3, OnIsLocal
    <2>5. row \in Inner(k - 1)
      BY <2>2, <2>3, <2>4 DEF Inner, Old
    <2>6. x[new] \in DOMAIN database[new]
      BY <1>6, <2>1
    <2>7. x = With(row, new, x[new])
      <3>1. With(row, new, x[new]) = [t \in New |-> IF t \in Old THEN row[t] ELSE x[new]]
        BY <1>12, <2>5, <2>6
      <3> QED BY <1>6, <1>7, <2>1, <3>1
    <2>8. On(x, join)
      <3>1. k \in 1..k
        BY <1>1
      <3> QED BY <2>1, <3>1 DEF join
    <2> HIDE DEF row
    <2>9. x[new] \in Partners(row, join)
      BY <1>10, <2>6, <2>7, <2>8 DEF Partners
    <2> QED BY <2>5, <2>7, <2>9
  <1>15. Inner(k) = Joined(Inner(k - 1), join)
    <2>1. \A x : x \in Joined(Inner(k - 1), join) <=>
                  \E row \in Inner(k - 1) : \E i \in Partners(row, join) : x = With(row, new, i)
      BY <1>9
    <2>2. Inner(k) \subseteq Joined(Inner(k - 1), join)
      BY <1>14, <2>1
    <2>3. Joined(Inner(k - 1), join) \subseteq Inner(k)
      <3> SUFFICES ASSUME NEW x \in Joined(Inner(k - 1), join) PROVE x \in Inner(k)
        OBVIOUS
      <3>1. PICK row \in Inner(k - 1) : \E i \in Partners(row, join) : x = With(row, new, i)
        BY <2>1
      <3>2. PICK i \in Partners(row, join) : x = With(row, new, i)
        BY <3>1
      <3> QED BY <1>13, <3>2
    <2> QED BY <2>2, <2>3
  <1> QED BY <1>15 DEF join

\* The query over inferred joins selects the linked rows.
LEMMA FromIsInner ==
  ASSUME endpoint \in Endpoints, Valid, endpoint.joins = <<>>, Prepared
  PROVE  From = Inner(Len(Joins))
  <1> DEFINE n == Len(Joins)
  <1>1. n \in Nat /\ n \in 0..n
    BY JoinsAre
  <1>2. PICK f : IsProduct(f) /\ From = f[n]
    BY <1>1, FromIs
  <1> DEFINE Done == {k \in 0..n : f[k] = Inner(k)}
  <1>3. 0 \in Done
    <2> DEFINE first == endpoint.tables[1]
    <2>1. JoinedBefore(0) = {first} /\ Head(endpoint.tables) = first
      BY SourcesAre
    <2>2. FirstRows = {[t \in {first} |-> i] : i \in DOMAIN database[first]}
      BY <2>1 DEF FirstRows
    <2> HIDE DEF first
    <2>3. \A row : row \in Inner(0) <=>
                      row \in [{first} -> IdsOf({first})] /\ row[first] \in DOMAIN database[first]
      <3>1. \A j : j \notin 1..0
        OBVIOUS
      <3> QED BY <2>1, <3>1 DEF Inner
    <2>4. DOMAIN database[first] \subseteq IdsOf({first})
      BY IdsOfTable
    <2>5. ASSUME NEW row \in Inner(0) PROVE row \in FirstRows
      <3>1. row = [t \in {first} |-> row[first]] /\ row[first] \in DOMAIN database[first]
        BY <2>3
      <3> QED BY <2>2, <3>1
    <2>6. FirstRows \subseteq Inner(0)
      BY <2>2, <2>3, <2>4
    <2> QED BY <1>1, <1>2, <2>5, <2>6 DEF IsProduct
  <1>4. ASSUME NEW k \in 1..n, k - 1 \in Done PROVE k \in Done
    <2>1. f[k] = Joined(f[k - 1], Joins[k]) /\ f[k - 1] = Inner(k - 1)
      BY <1>2, <1>4 DEF IsProduct
    <2>2. f[k] = Inner(k)
      BY <2>1, InnerStep
    <2>3. k \in 0..n
      BY <1>1
    <2> QED BY <2>2, <2>3
  <1>5. n \in Done
    <2> HIDE DEF Done, n
    <2> QED BY <1>1, <1>3, <1>4, UpTo
  <1> QED BY <1>2, <1>5

LinkOf == [k \in 1..Len(Joins) |-> Joins[k].foreign]

LEMMA SelectedIsLinked ==
  ASSUME endpoint \in Endpoints, database \in Databases, Valid, endpoint.joins = <<>>, Prepared, NEW ctx
  PROVE  /\ LinkOf \in [1..(Len(endpoint.tables) - 1) -> DOMAIN foreignKey]
         /\ \A k \in DOMAIN LinkOf : LinkOf[k] \in Between(k)
         /\ Selected(ctx) = Linked(LinkOf, ctx)
  <1> DEFINE n == Len(Joins)
             ts == endpoint.tables
  <1>1. /\ n \in Nat /\ n = Len(ts) - 1 /\ DOMAIN Joins = 1..n
        /\ \A k \in 1..n : Joins[k] = InferredJoin(ts[k], ts[k + 1])
    BY JoinsAre
  <1>2. ts \in Seq(ToSet(ts))
    BY EndpointAssumption
  <1>3. DOMAIN ts = 1..(n + 1) /\ \A k \in 1..n : k \in DOMAIN ts /\ k + 1 \in DOMAIN ts
    BY <1>1, <1>2
  <1>4. \A k \in 1..n : ts[k] \in Listed /\ ts[k + 1] \in Listed /\ ts[k + 1] \in Tables
    BY <1>3 DEF Valid, ValidTables, Listed, ToSet
  <1>5. \A k \in 1..n : References(ts[k], ts[k + 1]) # {}
    BY PreparedIsForward
  <1>6. \A k \in 1..n : /\ LinkOf[k] = Joins[k].foreign
                        /\ Joins[k].local = <<ts[k], Id>>
                        /\ LinkOf[k] \in DOMAIN foreignKey
                        /\ foreignKey[LinkOf[k]] = ts[k] /\ LinkOf[k][1] = ts[k + 1]
    <2> SUFFICES ASSUME NEW k \in 1..n
                 PROVE  /\ LinkOf[k] = Joins[k].foreign
                        /\ Joins[k].local = <<ts[k], Id>>
                        /\ LinkOf[k] \in DOMAIN foreignKey
                        /\ foreignKey[LinkOf[k]] = ts[k] /\ LinkOf[k][1] = ts[k + 1]
      OBVIOUS
    <2>1. LinkOf[k] = Joins[k].foreign
      BY DEF LinkOf
    <2> HIDE DEF ts, n
    <2> QED BY <1>1, <1>4, <1>5, <2>1, InferredLink, InferredParts
  <1>7. LinkOf \in [1..n -> DOMAIN foreignKey]
    <2>1. LinkOf = [k \in 1..n |-> LinkOf[k]]
      BY DEF LinkOf
    <2> QED BY <1>6, <2>1
  <1>8. \A k \in DOMAIN LinkOf : LinkOf[k] \in Between(k)
    BY <1>6, <1>7 DEF Between
  <1>9. JoinedBefore(n) = Listed
    <2>1. JoinedBefore(n) = ToSet(Sources) /\ ToSet(Sources) \subseteq Listed
      BY SourcesAre
    <2> QED BY <2>1 DEF Prepared
  <1>10. Null \notin IdsOf(Listed) /\ NoRow \notin IdsOf(Listed)
    <2>1. Null \notin IdsOf(Tables) /\ NoRow \notin IdsOf(Tables)
      BY EndpointAssumption DEF IdsOf
    <2>2. IdsOf(Listed) \subseteq IdsOf(Tables)
      BY DEF IdsOf, Valid, ValidTables
    <2> QED BY <2>1, <2>2
  <1> HIDE DEF n, ts
  <1>11. ASSUME NEW row \in [Listed -> IdsOf(Listed)], NEW k \in 1..n
         PROVE  On(row, Joins[k]) <=> ValueOf(row, LinkOf[k]) = row[foreignKey[LinkOf[k]]]
    <2>1. row[ts[k]] # Null /\ row[ts[k]] # NoRow /\ DOMAIN row = Listed
      BY <1>4, <1>10
    <2>2. ValueOf(row, Joins[k].local) = row[ts[k]]
      BY <1>6, <2>1 DEF ValueOf
    <2>3. Joins[k].local[1] = ts[k]
      BY <1>6
    <2> QED BY <1>4, <1>6, <2>1, <2>2, <2>3 DEF On
  <1>12. From = {row \in [Listed -> IdsOf(Listed)] :
                   (\A t \in Listed : row[t] \in DOMAIN database[t]) /\ \A k \in 1..n : On(row, Joins[k])}
    BY <1>9, FromIsInner DEF Inner, n
  <1>13. \A row \in From : \A join \in ToSet(Joins) : On(row, join)
    BY <1>1, <1>12 DEF ToSet
  <1>14. Selected(ctx) = {row \in From : Satisfies(row, ctx)}
    BY <1>13 DEF Selected
  <1>15. DOMAIN LinkOf = 1..n
    BY <1>7
  <1>16. \A row : row \in Linked(LinkOf, ctx) <=>
           /\ row \in [Listed -> IdsOf(Listed)] /\ \A t \in Listed : row[t] \in DOMAIN database[t]
           /\ \A k \in 1..n : ValueOf(row, LinkOf[k]) = row[foreignKey[LinkOf[k]]]
           /\ Satisfies(row, ctx)
    BY <1>15 DEF Linked, IdsOf
  <1>17. \A row : row \in Selected(ctx) <=> row \in Linked(LinkOf, ctx)
    BY <1>11, <1>12, <1>14, <1>16
  <1>18. Selected(ctx) = Linked(LinkOf, ctx)
    BY <1>17 DEF Linked, Selected
  <1> QED BY <1>1, <1>7, <1>8, <1>18 DEF ts

-----------------------------------------------------------------------------
(* Outer joins *)

\* Each row of the first table is continued by an outer join.
LEMMA OuterKeepsRows ==
  ASSUME endpoint \in Endpoints, Valid, endpoint.joins # <<>>,
         \A join \in ToSet(endpoint.joins) : join.type = "LEFT",
         NEW i \in DOMAIN database[Head(endpoint.tables)]
  PROVE  \E row \in From : row[Head(endpoint.tables)] = i
  <1> DEFINE n == Len(Joins)
             first == endpoint.tables[1]
  <1>1. n \in Nat /\ n \in 0..n /\ \A k \in 1..n : Joins[k].type = "LEFT"
    <2>1. n \in Nat /\ DOMAIN Joins = 1..n /\ Joins = endpoint.joins
      BY JoinsAre
    <2> QED BY <2>1 DEF ToSet
  <1>2. PICK f : IsProduct(f) /\ From = f[n]
    BY <1>1, FromIs
  <1>3. Head(endpoint.tables) = first /\ JoinedBefore(0) = {first}
    BY SourcesAre
  <1>4. \A k \in 0..n : first \in JoinedBefore(k)
    <2> DEFINE Has == {k \in 0..n : first \in JoinedBefore(k)}
    <2>1. 0 \in Has
      BY <1>1, <1>3
    <2>2. ASSUME NEW k \in 1..n, k - 1 \in Has PROVE k \in Has
      <3>1. k \in 0..n
        BY <1>1
      <3>2. JoinedBefore(k) = JoinedBefore(k - 1) \cup {Joins[k].foreign[1]}
        BY SourcesAre
      <3> QED BY <2>2, <3>1, <3>2
    <2> HIDE DEF Has, n
    <2>3. \A k \in 0..n : k \in Has
      BY <1>1, <2>1, <2>2, UpTo
    <2> QED BY <2>3 DEF Has
  <1> DEFINE Done == {k \in 0..n : \E row \in f[k] : row[first] = i}
  <1>5. 0 \in Done
    <2>1. [t \in {first} |-> i] \in f[0]
      BY <1>2, <1>3 DEF IsProduct, FirstRows
    <2> QED BY <1>1, <2>1
  <1>6. ASSUME NEW k \in 1..n, k - 1 \in Done PROVE k \in Done
    <2>1. k \in 0..n /\ k - 1 \in 0..n
      BY <1>1
    <2>2. PICK old \in f[k - 1] : old[first] = i
      BY <1>6
    <2>3. f[k] = Joined(f[k - 1], Joins[k]) /\ Joins[k].type = "LEFT"
      BY <1>1, <1>2 DEF IsProduct
    <2>4. PICK x : With(old, Joins[k].foreign[1], x) \in f[k]
      <3> DEFINE join == Joins[k]
                 Found == IF join.type = "LEFT" /\ Partners(old, join) = {} THEN {NoRow} ELSE Partners(old, join)
      <3>1. \A x \in Found : With(old, join.foreign[1], x) \in f[k]
        BY <2>2, <2>3 DEF Joined
      <3>2. \E x : x \in Found
        BY <2>3
      <3> HIDE DEF Found
      <3> QED BY <3>1, <3>2
    <2>5. old \in RowsOver(JoinedBefore(k - 1))
      BY <1>2, <2>1, <2>2, RowsOfProducts
    <2>6. With(old, Joins[k].foreign[1], x)[first] = i
      BY <1>4, <2>1, <2>2, <2>5 DEF With, RowsOver
    <2> QED BY <2>1, <2>4, <2>6
  <1>7. n \in Done
    <2> HIDE DEF Done, n
    <2> QED BY <1>1, <1>5, <1>6, UpTo
  <1> QED BY <1>2, <1>3, <1>7

-----------------------------------------------------------------------------
(* What an answer shows *)

\* The parts of Scanned.
Holders(a) == {k \in DOMAIN endpoint.tables : \E ref \in SelectedOf(endpoint.tables[k]) : Alias[ref] = a}
Latest(a) == CHOOSE k \in Holders(a) : \A l \in Holders(a) : l <= k
Source(a) == CHOOSE ref \in SelectedOf(endpoint.tables[Latest(a)]) : Alias[ref] = a
Names == {Alias[ref] : ref \in UNION {SelectedOf(t) : t \in Listed}}

LEMMA ScannedParts == \A row : Scanned(row) = [a \in Names |-> ValueOf(row, Source(a))]
  BY DEF Scanned, Names, Source, Latest, Holders

\* A column of a result is found by its name, and an unlisted one is not there.
LEMMA ScannedIs ==
  ASSUME endpoint \in Endpoints, Valid, ~Ambiguous, NEW row, NEW ref \in Refs(endpoint.response)
  PROVE  /\ ref[1] \in Listed => Alias[ref] \in DOMAIN Scanned(row) /\ Scanned(row)[Alias[ref]] = ValueOf(row, ref)
         /\ ref[1] \notin Listed => Alias[ref] \notin DOMAIN Scanned(row)
  <1> DEFINE a == Alias[ref]
             ts == endpoint.tables
  <1>1. ts \in Seq(ToSet(ts)) /\ IsInjective(ts)
    BY EndpointAssumption DEF Valid, ValidTables
  <1>2. DOMAIN ts \subseteq Nat /\ Listed = {ts[k] : k \in DOMAIN ts} /\ \A k, l \in DOMAIN ts : ts[k] = ts[l] => k = l
    BY <1>1 DEF Listed, ToSet, IsInjective
  <1>3. \A t \in Listed : \A other \in SelectedOf(t) : other[1] = t /\ (Alias[other] = a => other = ref)
    BY DEF SelectedOf, Ambiguous
  <1>4. \A name : name \in Names <=> \E t \in Listed : \E other \in SelectedOf(t) : name = Alias[other]
    BY DEF Names
  <1>5. DOMAIN Scanned(row) = Names
    BY ScannedParts
  <1>6. CASE ref[1] \notin Listed
    BY <1>3, <1>4, <1>5, <1>6
  <1>7. CASE ref[1] \in Listed
    <2>1. PICK p \in DOMAIN ts : ts[p] = ref[1]
      BY <1>2, <1>7
    <2>2. ref \in SelectedOf(ts[p])
      BY <2>1 DEF SelectedOf
    <2>3. Holders(a) = {p}
      BY <1>2, <1>3, <2>1, <2>2 DEF Holders
    <2>4. Latest(a) = p
      <3>1. p <= p
        BY <1>2
      <3> QED BY <2>3, <3>1 DEF Latest
    <2>5. Source(a) = ref
      BY <1>2, <1>3, <2>1, <2>2, <2>4 DEF Source
    <2>6. a \in Names
      BY <1>4, <1>7, <2>1, <2>2
    <2> QED BY <1>5, <1>7, <2>5, <2>6, ScannedParts
  <1> QED BY <1>6, <1>7

LEMMA RefsHas ==
  ASSUME NEW template, NEW n \in DOMAIN template, template[n].kind = "text",
         NEW p \in DOMAIN template[n].parts, template[n].parts[p].is = "ref"
  PROVE  template[n].parts[p].of \in Refs(template)
  <1> DEFINE Texts == {m \in DOMAIN template : template[m].kind = "text"}
             Sets == {ToSet(template[m].parts) : m \in Texts}
             part == template[n].parts[p]
  <1>1. part \in ToSet(template[n].parts) /\ ToSet(template[n].parts) \in Sets
    BY DEF ToSet
  <1>2. part \in UNION Sets
    <2> HIDE DEF Sets, part
    <2> QED BY <1>1
  <1> HIDE DEF Sets
  <1>3. part \in {q \in UNION Sets : q.is = "ref"}
    BY <1>2
  <1>4. part.of \in {q.of : q \in {q \in UNION Sets : q.is = "ref"}}
    <2> HIDE DEF part
    <2> QED BY <1>3
  <1> QED BY <1>4 DEF Refs, Sets

\* An answer that is rendered from the rows of a result is rendered as the
\* README says.
LEMMA RenderingIsDocumented ==
  ASSUME endpoint \in Endpoints, Valid, NEW S, rows \in Seq(S),
         answer = RenderedRows(endpoint.response, Alias, [k \in DOMAIN rows |-> Scanned(rows[k])])
  PROVE  RenderedAsDocumented
  <1> SUFFICES ASSUME ~Ambiguous
               PROVE  LET root == endpoint.response[1]
                      IN /\ NodeFrom(1, answer)
                         /\ root.kind = "tree" => \A key \in DOMAIN root.of : NodeFrom(root.of[key], answer.of[key])
    BY DEF RenderedAsDocumented
  <1> DEFINE template == endpoint.response
             results == [k \in DOMAIN rows |-> Scanned(rows[k])]
             size == Len(rows)
             shown == IF rows = <<>> THEN 0 ELSE 1
  <1>1. WellFormed(template)
    BY EndpointAssumption
  <1>2. size \in Nat /\ DOMAIN rows = 1..size /\ (rows = <<>> <=> size = 0)
    OBVIOUS
  <1>3. Len(results) = size /\ DOMAIN results = 1..size /\ (results = <<>> <=> rows = <<>>)
    <2> HIDE DEF size
    <2> QED BY <1>2
  <1>4. \A k \in 1..size : results[k] = Scanned(rows[k])
    BY <1>2
  <1> HIDE DEF results
  <1>5. PICK f : /\ \A n \in DOMAIN template : \A k \in 0..size :
                      f[n][k] = RenderedFor(template[n], f, k, Alias, results)
                 /\ answer = f[1][shown]
    <2>1. answer = RenderedRows(template, Alias, results)
      BY DEF results
    <2> HIDE DEF template, size
    <2> QED BY <1>1, <1>3, <2>1, RenderedRowsAre
  <1>6. /\ template # <<>> /\ 1 \in DOMAIN template
        /\ \A n \in DOMAIN template :
             /\ template[n].kind = "tree" => \A key \in DOMAIN template[n].of : template[n].of[key] \in DOMAIN template
             /\ template[n].kind = "array" => template[n].items \in DOMAIN template
    <2>1. template \in Seq(ToSet(template)) /\ template # <<>>
      BY <1>1 DEF WellFormed
    <2> HIDE DEF template
    <2>2. Len(template) \in Nat /\ DOMAIN template = 1..Len(template) /\ 1 \in DOMAIN template
      BY <2>1
    <2>3. \A n \in DOMAIN template : (n + 1)..Len(template) \subseteq DOMAIN template
      BY <2>2
    <2> QED BY <1>1, <2>1, <2>2, <2>3 DEF WellFormed
  <1>7. ASSUME NEW n \in DOMAIN template, NEW k \in 1..size
        PROVE  TextFrom(n, f[n][k], rows[k])
    <2> SUFFICES ASSUME template[n].kind = "text"
                 PROVE  f[n][k] = Text([p \in DOMAIN template[n].parts |-> Documented(template[n].parts[p], rows[k])])
      BY DEF TextFrom
    <2> DEFINE parts == template[n].parts
    <2>1. k \in 0..size /\ k # 0
      BY <1>2
    <2>2. f[n][k] = Text([p \in DOMAIN parts |-> ResolvedPart(parts[p], Alias, results[k])])
      <3>1. f[n][k] = RenderedFor(template[n], f, k, Alias, results)
        BY <1>5, <2>1
      <3> HIDE DEF template
      <3> QED BY <2>1, <3>1 DEF RenderedFor
    <2>3. ASSUME NEW p \in DOMAIN parts
          PROVE  ResolvedPart(parts[p], Alias, results[k]) = Documented(parts[p], rows[k])
      <3>1. CASE parts[p].is = "ref"
        <4>1. parts[p].of \in Refs(template)
          BY <3>1, RefsHas
        <4> QED BY <1>4, <3>1, <4>1, ScannedIs DEF ResolvedPart, Documented
      <3>2. CASE parts[p].is # "ref"
        BY <3>2 DEF ResolvedPart, Documented
      <3> QED BY <3>1, <3>2
    <2> QED BY <2>2, <2>3
  <1>8. ASSUME NEW n \in DOMAIN template, NEW k \in 1..size
        PROVE  ItemFrom(n, f[n][k], rows[k])
    <2>1. ASSUME template[n].kind = "tree", NEW key \in DOMAIN template[n].of
          PROVE  TextFrom(template[n].of[key], f[n][k].of[key], rows[k])
      <3>1. template[n].of[key] \in DOMAIN template
        BY <1>6, <2>1
      <3>2. f[n][k] = RenderedFor(template[n], f, k, Alias, results)
        BY <1>5, <1>2
      <3>3. f[n][k].of[key] = f[template[n].of[key]][k]
        <4> HIDE DEF template
        <4> QED BY <2>1, <3>2 DEF RenderedFor, Tree
      <3> QED BY <1>7, <3>1, <3>3
    <2> QED BY <1>7, <2>1 DEF ItemFrom
  <1>9. ASSUME NEW n \in DOMAIN template PROVE NodeFrom(n, f[n][shown])
    <2>1. shown \in 0..size /\ (rows # <<>> => shown = 1 /\ 1 \in 1..size)
      BY <1>2
    <2>2. f[n][shown] = RenderedFor(template[n], f, shown, Alias, results)
      BY <1>5, <2>1
    <2>3. rows # <<>> => TextFrom(n, f[n][shown], rows[1])
      BY <1>7, <2>1
    <2>4. rows = <<>> /\ template[n].kind = "text" /\ OnlyReferences(template[n].parts) => f[n][shown] = NullNode
      <3> HIDE DEF template
      <3> QED BY <2>2 DEF RenderedFor
    <2>5. ASSUME template[n].kind = "array"
          PROVE  /\ DOMAIN f[n][shown].of = DOMAIN rows
                 /\ \A i \in DOMAIN rows : ItemFrom(template[n].items, f[n][shown].of[i], rows[i])
      <3>1. f[n][shown] = Tree([i \in DOMAIN results |-> f[template[n].items][i]])
        <4> HIDE DEF template
        <4> QED BY <2>2, <2>5 DEF RenderedFor, RowOf
      <3>2. DOMAIN f[n][shown].of = 1..size /\ \A i \in 1..size : f[n][shown].of[i] = f[template[n].items][i]
        BY <1>3, <3>1 DEF Tree
      <3>3. template[n].items \in DOMAIN template
        BY <1>6, <2>5
      <3> QED BY <1>2, <1>8, <3>2, <3>3
    <2> QED BY <2>3, <2>4, <2>5 DEF NodeFrom
  <1>10. ASSUME template[1].kind = "tree", NEW key \in DOMAIN template[1].of
         PROVE  NodeFrom(template[1].of[key], answer.of[key])
    <2>1. template[1].of[key] \in DOMAIN template
      BY <1>6, <1>10
    <2>2. shown \in 0..size
      BY <1>2
    <2>3. answer = RenderedFor(template[1], f, shown, Alias, results)
      BY <1>5, <1>6, <2>2
    <2>4. answer.of[key] = f[template[1].of[key]][shown]
      <3> HIDE DEF template, shown
      <3> QED BY <1>10, <2>3 DEF RenderedFor, Tree
    <2> QED BY <1>9, <2>1, <2>4
  <1> QED BY <1>5, <1>6, <1>9, <1>10

-----------------------------------------------------------------------------
(* The invariant *)

Answerable == (endpoint.joins # <<>> \/ Inferable) /\ Prepared

\* An entry is served once it is valid, a request fails only if there is no
\* query, and an answer is rendered from a result of the query.
Decided ==
  /\ phase \in {"serving", "answered", "failed"} => Valid
  /\ phase = "failed" => ~Answerable
  /\ phase = "answered" =>
       /\ Answerable
       /\ \E ctx \in Contexts : context = ctx /\ rows \in Results(ctx)
       /\ answer = RenderedRows(endpoint.response, Alias, [k \in DOMAIN rows |-> Scanned(rows[k])])

IInv == TypeOK /\ Decided

\* What the tables, the columns, the contents and the entry decide stays as it
\* is as long as they do.
Same == UNCHANGED <<foreignKey, database, endpoint>>

LEMMA SameParts ==
  ASSUME Same
  PROVE  /\ Listed' = Listed
         /\ \A row, ref : ValueOf(row, ref)' = ValueOf(row, ref)
         /\ \A row, join : On(row, join)' = On(row, join)
         /\ \A ref : Known(ref)' = Known(ref)
         /\ \A p, c : References(p, c)' = References(p, c)
         /\ \A row, t, i : With(row, t, i)' = With(row, t, i)
  <1>1. endpoint' = endpoint /\ foreignKey' = foreignKey /\ database' = database
    BY DEF Same
  <1>2. Listed' = Listed
    BY <1>1 DEF Listed
  <1>3. \A row, ref : ValueOf(row, ref)' = ValueOf(row, ref)
    BY <1>1 DEF ValueOf
  <1>4. \A row, join : On(row, join)' = On(row, join)
    BY <1>3 DEF On
  <1>5. \A ref : Known(ref)' = Known(ref)
    BY <1>2 DEF Known
  <1>6. \A p, c : References(p, c)' = References(p, c)
    BY <1>1 DEF References
  <1>7. \A row, t, i : With(row, t, i)' = With(row, t, i)
    BY DEF With
  <1> QED BY <1>2, <1>3, <1>4, <1>5, <1>6, <1>7

LEMMA SameJoins == ASSUME Same PROVE Joins' = Joins /\ (Inferable)' = Inferable
  <1>1. endpoint' = endpoint /\ foreignKey' = foreignKey /\ database' = database
    BY DEF Same
  <1>2. \A p, c : FoundJoin(p, c)' = FoundJoin(p, c)
    BY SameParts DEF FoundJoin
  <1>3. \A p, c : InferredJoin(p, c)' = InferredJoin(p, c)
    BY <1>2, SameParts DEF InferredJoin
  <1>4. Joins' = Joins
    BY <1>1, <1>3 DEF Joins
  <1>5. Inferable' = Inferable
    BY <1>1, SameParts DEF Inferable
  <1> QED BY <1>4, <1>5

LEMMA SamePrepared == ASSUME Same PROVE Sources' = Sources /\ Prepared' = Prepared
  <1>1. endpoint' = endpoint /\ Joins' = Joins
    BY SameJoins DEF Same
  <1>2. Sources' = Sources
    BY <1>1 DEF Sources
  <1>3. \A k : JoinedBefore(k)' = JoinedBefore(k)
    BY <1>2 DEF JoinedBefore
  <1> HIDE DEF Sources
  <1>4. Prepared' = Prepared
    BY <1>1, <1>2, <1>3, SameParts DEF Prepared
  <1> QED BY <1>2, <1>4

LEMMA SameSelected == ASSUME Same, NEW ctx PROVE Selected(ctx)' = Selected(ctx)
  <1>1. endpoint' = endpoint /\ database' = database /\ Joins' = Joins
    BY SameJoins DEF Same
  <1>2. \A row, join : Partners(row, join)' = Partners(row, join)
    BY <1>1, SameParts DEF Partners
  <1>3. \A product, join : Joined(product, join)' = Joined(product, join)
    BY <1>2, SameParts DEF Joined
  <1>4. FirstRows' = FirstRows
    BY <1>1 DEF FirstRows
  <1>5. \A k, product : Product(k, product)' = Product(k, product)
    BY <1>1, <1>3, <1>4 DEF Product
  <1>6. From' = From
    BY <1>1, <1>5 DEF From
  <1>7. \A row : Satisfies(row, ctx)' = Satisfies(row, ctx)
    BY <1>1, SameParts DEF Satisfies
  <1> QED BY <1>1, <1>6, <1>7, SameParts DEF Selected

LEMMA SameResults == ASSUME Same, NEW ctx PROVE Results(ctx)' = Results(ctx)
  <1>1. endpoint' = endpoint
    BY DEF Same
  <1>2. \A row : Rank(row)' = Rank(row)
    BY <1>1, SameParts DEF Rank
  <1>3. \A s : InOrder(s)' = InOrder(s)
    BY <1>1, <1>2 DEF InOrder
  <1>4. \A s : Limited(s)' = Limited(s)
    BY <1>1 DEF Limited
  <1> QED BY <1>3, <1>4, SameSelected DEF Results

LEMMA SameScanned == ASSUME Same PROVE \A row : Scanned(row)' = Scanned(row)
  <1>1. endpoint' = endpoint /\ Listed' = Listed
    BY SameParts DEF Same
  <1>2. \A t : SelectedOf(t)' = SelectedOf(t)
    BY <1>1 DEF SelectedOf
  <1>3. Names' = Names
    BY <1>1, <1>2 DEF Names
  <1>4. \A a : Holders(a)' = Holders(a)
    BY <1>1, <1>2 DEF Holders
  <1>5. \A a : Latest(a)' = Latest(a)
    BY <1>4 DEF Latest
  <1>6. \A a : Source(a)' = Source(a)
    BY <1>1, <1>2, <1>5 DEF Source
  <1>7. \A row, a : ValueOf(row, Source(a))' = ValueOf(row, Source(a))
    BY <1>6 DEF ValueOf, Same
  <1>8. \A row : [a \in Names |-> ValueOf(row, Source(a))]' = [a \in Names |-> ValueOf(row, Source(a))]
    BY <1>3, <1>7
  <1>9. \A row : Scanned(row)' = [a \in Names |-> ValueOf(row, Source(a))]'
    BY DEF Scanned, Names, Source, Latest, Holders
  <1> QED BY <1>8, <1>9, ScannedParts

LEMMA SameVerdict == ASSUME Same PROVE Valid' = Valid /\ Answerable' = Answerable
  <1>1. endpoint' = endpoint
    BY DEF Same
  <1>2. ValidTables' = ValidTables
    BY <1>1, SameParts DEF ValidTables
  <1>3. ValidJoins' = ValidJoins
    BY <1>1, SameParts DEF ValidJoins
  <1>4. ValidRefs' = ValidRefs
    BY <1>1, SameParts DEF ValidRefs
  <1>5. Answerable' = Answerable
    BY <1>1, SameJoins, SamePrepared DEF Answerable
  <1> QED BY <1>2, <1>3, <1>4, <1>5 DEF Valid

LEMMA InitDecided == Init => IInv
  BY DEF Init, IInv, TypeOK, Decided, ToSet

\* The rows of a result have a part for each table listed.
LEMMA ResultRows ==
  ASSUME endpoint \in Endpoints, database \in Databases, Valid, Prepared,
         NEW ctx, NEW s \in Results(ctx), NEW row \in ToSet(s)
  PROVE  DOMAIN row = Listed /\ \A t \in Listed : row[t] \in DOMAIN database[t] \cup {NoRow}
  <1>1. s \in Seq(Selected(ctx))
    BY ResultIs DEF ResultOf
  <1>2. row \in Selected(ctx)
    BY <1>1 DEF ToSet
  <1>3. ToSet(Sources) = Listed
    BY SourcesAre DEF Prepared
  <1> QED BY <1>2, <1>3, SelectedIsFinite DEF RowsOver

LEMMA ValidateDecides == ASSUME IInv, Validate PROVE IInv'
  <1>1. Same /\ rows' = rows /\ answer' = answer /\ context' = context
    BY DEF Validate, Same
  <1>2. /\ phase = "parsed" /\ phase' \in {"serving", "refused"}
        /\ phase' = "serving" => Valid
    BY DEF Validate, Valid
  <1>3. rows' = <<>> /\ answer' = NullNode
    BY <1>1, <1>2 DEF IInv, TypeOK
  <1>4. TypeOK'
    BY <1>1, <1>2, <1>3 DEF IInv, TypeOK, Same, ToSet
  <1>5. Decided'
    BY <1>1, <1>2, SameVerdict DEF Decided
  <1> QED BY <1>4, <1>5 DEF IInv

LEMMA RequestDecides == ASSUME IInv, NEW ctx \in Contexts, Request(ctx) PROVE IInv'
  <1>1. Same /\ context' = ctx /\ phase = "serving"
    BY DEF Request, Same
  <1>2. endpoint \in Endpoints /\ database \in Databases /\ Valid
    BY <1>1 DEF IInv, TypeOK, Decided
  <1>3. Listed' = Listed
    BY <1>1, SameParts
  <1>4. CASE Answerable
    <2>1. /\ phase' = "answered" /\ rows' \in Results(ctx)
          /\ answer' = RenderedRows(endpoint.response, Alias, [k \in DOMAIN rows' |-> Scanned(rows'[k])])
      BY <1>4 DEF Request, Answerable
    <2>2. \A row \in ToSet(rows') :
            DOMAIN row = Listed /\ \A t \in Listed : row[t] \in DOMAIN database[t] \cup {NoRow}
      BY <1>2, <1>4, <2>1, ResultRows DEF Answerable
    <2>3. TypeOK'
      BY <1>1, <1>3, <2>1, <2>2 DEF IInv, TypeOK, Same
    <2>4. Results(ctx)' = Results(ctx)
      BY <1>1, SameResults
    <2>5. [k \in DOMAIN rows |-> Scanned(rows[k])]' = [k \in DOMAIN rows' |-> Scanned(rows'[k])]
      <3>1. \A row : Scanned(row)' = Scanned(row)
        BY <1>1, SameScanned
      <3> QED BY <3>1
    <2>6. Decided'
      BY <1>1, <1>2, <1>4, <2>1, <2>4, <2>5, SameVerdict DEF Decided, Same
    <2> QED BY <2>3, <2>6 DEF IInv
  <1>5. CASE ~Answerable
    <2>1. phase' = "failed" /\ rows' = <<>> /\ answer' = NullNode
      BY <1>5 DEF Request, Answerable
    <2>2. TypeOK'
      BY <1>1, <2>1 DEF IInv, TypeOK, Same, ToSet
    <2>3. Decided'
      BY <1>1, <1>2, <1>5, <2>1, SameVerdict DEF Decided
    <2> QED BY <2>2, <2>3 DEF IInv
  <1> QED BY <1>4, <1>5

LEMMA StutterDecides == ASSUME IInv, UNCHANGED vars PROVE IInv'
  <1>1. Same /\ phase' = phase /\ rows' = rows /\ answer' = answer /\ context' = context
    BY DEF vars, Same
  <1>2. TypeOK'
    BY <1>1, SameParts DEF IInv, TypeOK, Same
  <1>3. \A ctx : Results(ctx)' = Results(ctx)
    BY <1>1, SameResults
  <1>4. [k \in DOMAIN rows |-> Scanned(rows[k])]' = [k \in DOMAIN rows |-> Scanned(rows[k])]
    <2>1. \A row : Scanned(row)' = Scanned(row)
      BY <1>1, SameScanned
    <2> QED BY <1>1, <2>1
  <1>5. Decided'
    BY <1>1, <1>3, <1>4, SameVerdict DEF IInv, Decided, Same
  <1> QED BY <1>2, <1>5 DEF IInv

\* Whatever is requested, what was validated and what the query selects decide
\* what the endpoint answers.
THEOREM Invariance == Spec => []IInv
  <1>1. IInv /\ [Next]_vars => IInv'
    BY ValidateDecides, RequestDecides, StutterDecides DEF Next
  <1> QED BY <1>1, InitDecided, PTL DEF Spec

\* The rows of an answer have a part for each table listed, each a row of the
\* table or none, and an error shows no rows.
THEOREM TypeCorrect == Spec => []TypeOK
  <1>1. IInv => TypeOK
    BY DEF IInv
  <1> QED BY <1>1, Invariance, PTL

\* An answer over inferred joins has the rows that are linked by foreign keys,
\* from each table to the next, in order, up to the limit.
THEOREM DocumentedAlways == Spec => []AnswerIsDocumented
  <1>1. IInv => AnswerIsDocumented
    <2> SUFFICES ASSUME IInv, phase = "answered", endpoint.joins = <<>>
                 PROVE  AnswerIsDocumented
      BY DEF AnswerIsDocumented
    <2>1. /\ endpoint \in Endpoints /\ database \in Databases /\ Valid /\ Prepared
          /\ rows \in Results(context)
      BY DEF IInv, TypeOK, Decided, Answerable
    <2>2. /\ LinkOf \in [1..(Len(endpoint.tables) - 1) -> DOMAIN foreignKey]
          /\ \A k \in DOMAIN LinkOf : LinkOf[k] \in Between(k)
          /\ Selected(context) = Linked(LinkOf, context)
      BY <2>1, SelectedIsLinked
    <2>3. ResultOf(Linked(LinkOf, context), rows)
      BY <2>1, <2>2, ResultIs
    <2>4. IsInjective(rows) /\ ToSet(rows) \subseteq Linked(LinkOf, context)
      BY <2>3 DEF ResultOf, ToSet
    <2> QED BY <2>2, <2>3, <2>4 DEF AnswerIsDocumented, ResultOf
  <1> QED BY <1>1, Invariance, PTL

\* An outer join asked for by `type' loses no row of the first table.
THEOREM LeftJoinAlways == Spec => []LeftJoinKeepsRows
  <1>1. IInv => LeftJoinKeepsRows
    <2> SUFFICES ASSUME IInv, phase = "answered", endpoint.where = <<>>, endpoint.limit = NoLimit,
                        endpoint.joins # <<>>, \A join \in ToSet(endpoint.joins) : join.type = "LEFT",
                        NEW i \in DOMAIN database[Head(endpoint.tables)]
                 PROVE  \E row \in ToSet(rows) : row[Head(endpoint.tables)] = i
      BY DEF LeftJoinKeepsRows
    <2>1. endpoint \in Endpoints /\ database \in Databases /\ Valid /\ rows \in Results(context)
      BY DEF IInv, TypeOK, Decided
    <2>2. endpoint.limit \notin Nat
      BY EndpointAssumption
    <2>3. ToSet(rows) = Selected(context)
      BY <2>1, <2>2, ResultIsAll
    <2>4. PICK row \in From : row[Head(endpoint.tables)] = i
      BY <2>1, OuterKeepsRows
    <2>5. Joins = endpoint.joins
      BY <2>1, JoinsAre
    <2>6. row \in Selected(context)
      BY <2>4, <2>5 DEF Selected, Satisfies, ToSet
    <2> QED BY <2>3, <2>4, <2>6
  <1> QED BY <1>1, Invariance, PTL

\* An entry in which each table refers to the one before it is answered.
THEOREM ForwardAlways == Spec => []ForwardIsAnswered
  <1>1. IInv => ForwardIsAnswered
    BY ForwardIsAnswerable DEF IInv, TypeOK, Decided, Answerable, ForwardIsAnswered
  <1> QED BY <1>1, Invariance, PTL

\* What an answer shows for the references of its template is what the README
\* says: values of the first row, and in an array those of each row in turn.
THEOREM RenderedAlways == Spec => []RenderedAsDocumented
  <1>1. IInv => RenderedAsDocumented
    <2> SUFFICES ASSUME IInv, phase = "answered" PROVE RenderedAsDocumented
      BY DEF RenderedAsDocumented
    <2>1. endpoint \in Endpoints /\ database \in Databases /\ Valid /\ rows \in Results(context)
      BY DEF IInv, TypeOK, Decided
    <2>2. rows \in Seq(Selected(context))
      BY <2>1, ResultIs DEF ResultOf
    <2> QED BY <2>1, <2>2, RenderingIsDocumented DEF IInv, Decided
  <1> QED BY <1>1, Invariance, PTL
=============================================================================
