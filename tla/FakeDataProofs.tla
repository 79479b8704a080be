--------------------------- MODULE FakeDataProofs ---------------------------
(***************************************************************************)
(* Proofs about FakeData, for any specs, whatever their bounds and         *)
(* patterns, any resolution of numbers, and whichever hundredths float64   *)
(* cuts short.                                                             *)
(***************************************************************************)
EXTENDS FakeData, TLAPS

Cent == Scale \div 100

\* The values that an int or a float may get.
IntChoices == IF High <= Low THEN {Truncated(Low, Scale)} ELSE Ints(Low, High)
FloatChoices == IF High <= Low THEN {Low} ELSE Floats(Low, High)

\* What was generated is one of the choices that the type, the bounds and the
\* format leave, and only a text can have panicked.
ValueIsChoice ==
  /\ phase = "done" => value.matches \in spec.matches
  /\ phase = "done" =>
       \/ spec.type = "int" /\ value.type = "int" /\ value.of \in IntChoices
       \/ spec.type = "float" /\ value.type = "float" /\ value.of \in FloatChoices
       \/ spec.type \in {"bool", "datetime"} /\ value.type = spec.type
       \/ /\ spec.type = "string" /\ value.type = "string" /\ value.of \in Nat
          /\ value.of \in Shorter..Longer \/ ~ViolatesExplicitLength(value.of)
       \/ /\ Checked /\ value.type = spec.format /\ value.of = CheckDigit
          /\ \E n \in FormatLengths[spec.format] : ~ViolatesExplicitLength(n)
  /\ phase # "done" => value = NoNumber
  /\ phase = "panicked" => spec.type = "string" /\ \E n \in Shorter..Longer : n < 0

\* The generator weighs digits as the standard does.
SameSum == drawn \in 0..15 /\ sum \in 0..9 /\ weighed = sum

IInv ==
  /\ spec \in Specs /\ phase \in {"drawing", "done", "failed", "panicked"}
  /\ ValueIsChoice
  /\ SameSum

-----------------------------------------------------------------------------
(* Division and cut-off *)

LEMMA Division ==
  ASSUME NEW b \in Nat \ {0}, NEW x \in Nat
  PROVE  /\ x \div b \in Nat /\ x % b \in 0..(b - 1)
         /\ x = b * (x \div b) + (x % b)
  OBVIOUS

\* A product is positive only if a positive one is.
LEMMA FactorOrder ==
  ASSUME NEW b \in Nat \ {0}, NEW x \in Int, NEW y \in Int, b * x < b * y + b
  PROVE  x <= y
  <1> SUFFICES ASSUME y < x PROVE FALSE
    OBVIOUS
  <1>1. ASSUME NEW k \in Nat \ {0} PROVE b * k >= b
    OBVIOUS
  <1>2. x - y \in Nat \ {0} /\ b * x = b * y + b * (x - y)
    OBVIOUS
  <1> QED BY <1>1, <1>2

\* Only multiples leave no rest.
LEMMA MultipleRest ==
  ASSUME NEW b \in Nat \ {0}, NEW q \in Int
  PROVE  (b * q) % b = 0
  OBVIOUS

LEMMA RestZero ==
  ASSUME NEW b \in Nat \ {0}, NEW x \in Int, x % b = 0
  PROVE  \E q \in Int : x = b * q
  OBVIOUS

\* int() of a float gives a multiple of the step.
LEMMA TruncatedWhole ==
  ASSUME NEW b \in Nat \ {0}, NEW x \in Int
  PROVE  \E q \in Int : Truncated(x, b) = b * q
  <1>1. CASE x >= 0
    <2>1. x \div b \in Int /\ Truncated(x, b) = b * (x \div b)
      BY <1>1, Division DEF Truncated
    <2> QED BY <2>1
  <1>2. CASE x < 0
    <2>1. (-x) \div b \in Nat
      BY <1>2, Division
    <2>2. Truncated(x, b) = b * (-((-x) \div b))
      BY <1>2, <2>1 DEF Truncated
    <2> QED BY <2>1, <2>2
  <1> QED BY <1>1, <1>2

\* It passes no multiple on its way to zero.
LEMMA TruncatedBetween ==
  ASSUME NEW b \in Nat \ {0}, NEW x \in Int, NEW m \in Int
  PROVE  /\ b * m <= x => b * m <= Truncated(x, b)
         /\ x <= b * m => Truncated(x, b) <= b * m
  <1>1. CASE x >= 0
    <2> DEFINE q == x \div b
    <2>1. q \in Nat /\ b * q <= x /\ x < b * q + b /\ Truncated(x, b) = b * q
      BY <1>1, Division DEF Truncated
    <2> HIDE DEF q
    <2>2. ASSUME b * m <= x PROVE b * m <= b * q
      <3>1. m <= q
        BY <2>1, <2>2, FactorOrder
      <3> QED BY <2>1, <3>1
    <2> QED BY <2>1, <2>2
  <1>2. CASE x < 0
    <2> DEFINE q == (-x) \div b
    <2>1. q \in Nat /\ b * q <= -x /\ -x < b * q + b /\ Truncated(x, b) = -(b * q)
      BY <1>2, Division DEF Truncated
    <2> HIDE DEF q
    <2>2. ASSUME x <= b * m PROVE -(b * q) <= b * m
      <3>1. b * (-m) = -(b * m)
        OBVIOUS
      <3>2. -m <= q
        BY <2>1, <2>2, <3>1, FactorOrder
      <3>3. b * (-m) <= b * q
        BY <2>1, <3>2
      <3> QED BY <2>1, <3>1, <3>3
    <2> QED BY <2>1, <2>2
  <1> QED BY <1>1, <1>2

\* The bounds of numbers, and a hundredth in units.
LEMMA Bounds ==
  ASSUME spec \in Specs
  PROVE  /\ Low \in Int /\ High \in Int
         /\ Cent \in Nat \ {0} /\ Scale = 100 * Cent
         /\ Short \in SUBSET (Nat \ {0}) /\ \A x \in Short : x % Cent = 0
         /\ \A n \in {spec.minLength, spec.maxLength} : n \in Int \/ n = Unset
         /\ Shorter \in Int /\ Longer \in Int
  <1>1. /\ {spec.min, spec.max, spec.minLength, spec.maxLength} \subseteq Int \cup {Unset}
        /\ DefaultMax \in Nat /\ Scale \in Nat \ {0} /\ Scale % 200 = 0 /\ Widest \in Nat
        /\ DefaultLengths[1] \in Nat /\ DefaultLengths[2] \in Nat
        /\ Short \in SUBSET (Nat \ {0}) /\ \A x \in Short : x % Cent = 0
    BY FakeDataAssumption DEF Cent
  <1>2. DefaultMax * Scale \in Int
    BY <1>1
  <1>3. Low \in Int /\ High \in Int
    BY <1>1, <1>2 DEF Low, High, Or
  <1>4. Cent \in Nat \ {0} /\ Scale = 100 * Cent
    BY <1>1 DEF Cent
  <1>5. Shorter \in Int /\ Longer \in Int
    BY <1>1 DEF Shorter, Longer, Or
  <1> QED BY <1>1, <1>3, <1>4, <1>5
-----------------------------------------------------------------------------
(* The inductive invariant *)

\* A generator doubles the digits of a card that the standard doubles, and
\* weighs those of an ISBN as the standard does.
LEMMA SameWeights ==
  ASSUME NEW d \in 0..9
  PROVE  /\ \A i \in 0..14 : CardWeight(i, d) = StandardCard(i, d) /\ CardWeight(i, d) \in Nat
         /\ \A i \in 0..11 : IsbnWeight(i, d) = StandardIsbn(i, d) /\ IsbnWeight(i, d) \in Nat
  <1>1. ASSUME NEW i \in 0..14 PROVE CardWeight(i, d) = StandardCard(i, d) /\ CardWeight(i, d) \in Nat
    <2>1. (14 - i) % 2 = (16 - i) % 2 /\ (14 - i) % 2 \in {0, 1}
      OBVIOUS
    <2>2. (IF 2 * d > 9 THEN 2 * d - 9 ELSE 2 * d) = ((2 * d) \div 10) + ((2 * d) % 10)
      OBVIOUS
    <2> QED BY <2>1, <2>2 DEF CardWeight, StandardCard
  <1>2. ASSUME NEW i \in 0..11 PROVE IsbnWeight(i, d) = StandardIsbn(i, d) /\ IsbnWeight(i, d) \in Nat
    BY DEF IsbnWeight, StandardIsbn
  <1> QED BY <1>1, <1>2

LEMMA InitIInv == Init => IInv
  BY DEF Init, IInv, ValueIsChoice, SameSum

\* What a step does that ends with a value.
LEMMA Finished ==
  ASSUME NEW type, NEW n, Finish(type, n)
  PROVE  /\ spec' = spec /\ drawn' = drawn /\ sum' = sum /\ weighed' = weighed /\ phase' = "done"
         /\ value'.type = type /\ value'.of = n /\ value'.matches \in spec.matches
  BY DEF Finish

\* A step that ends with a value keeps the invariant if the value is a choice.
LEMMA FinishKeeps ==
  ASSUME IInv, NEW type, NEW n, Finish(type, n), ValueIsChoice'
  PROVE  IInv'
  BY Finished DEF IInv, SameSum

LEMMA DrawIntKeeps == ASSUME IInv, DrawInt PROVE IInv'
  <1>1. PICK n \in IntChoices : Finish("int", n)
    BY DEF DrawInt, IntChoices
  <1>2. /\ spec.type = "int" /\ spec' = spec /\ phase' = "done"
        /\ value'.type = "int" /\ value'.of = n /\ value'.matches \in spec.matches
    BY <1>1, Finished DEF DrawInt
  <1>3. IntChoices' = IntChoices
    BY <1>2 DEF IntChoices, Low, High
  <1>4. ValueIsChoice'
    BY <1>2, <1>3 DEF ValueIsChoice
  <1> QED BY <1>1, <1>4, FinishKeeps

LEMMA DrawFloatKeeps == ASSUME IInv, DrawFloat PROVE IInv'
  <1>1. PICK n \in FloatChoices : Finish("float", n)
    BY DEF DrawFloat, FloatChoices
  <1>2. /\ spec.type = "float" /\ spec' = spec /\ phase' = "done"
        /\ value'.type = "float" /\ value'.of = n /\ value'.matches \in spec.matches
    BY <1>1, Finished DEF DrawFloat
  <1>3. FloatChoices' = FloatChoices
    BY <1>2 DEF FloatChoices, Low, High
  <1>4. ValueIsChoice'
    BY <1>2, <1>3 DEF ValueIsChoice
  <1> QED BY <1>1, <1>4, FinishKeeps

LEMMA DrawOtherKeeps == ASSUME IInv, DrawOther PROVE IInv'
  <1>1. ValueIsChoice'
    BY Finished DEF DrawOther, ValueIsChoice
  <1> QED BY <1>1, FinishKeeps DEF DrawOther

LEMMA UnsupportedKeeps == ASSUME IInv, Unsupported PROVE IInv'
  BY DEF Unsupported, IInv, ValueIsChoice, SameSum

\* The bounds of lengths do not change.
LEMMA LengthsKept ==
  ASSUME spec' = spec
  PROVE  /\ Shorter' = Shorter /\ Longer' = Longer
         /\ \A n : ViolatesExplicitLength(n)' <=> ViolatesExplicitLength(n)
  BY DEF Shorter, Longer, ViolatesExplicitLength

LEMMA RandomStringKeeps ==
  ASSUME IInv, phase = "drawing", spec.type = "string", RandomString
  PROVE  IInv'
  <1>1. PICK n \in Shorter..Longer :
          IF n >= 0 THEN Finish("string", n)
          ELSE phase' = "panicked" /\ UNCHANGED <<spec, value, drawn, sum, weighed>>
    BY DEF RandomString
  <1>2. spec' = spec
    BY <1>1, Finished
  <1>3. Shorter \in Int /\ Longer \in Int
    BY Bounds DEF IInv
  <1>4. CASE n >= 0
    <2>1. n \in Nat
      BY <1>3, <1>4
    <2>2. ValueIsChoice'
      BY <1>1, <1>2, <1>4, <2>1, Finished, LengthsKept DEF ValueIsChoice
    <2> QED BY <1>1, <1>4, <2>2, FinishKeeps
  <1>5. CASE ~(n >= 0)
    <2>1. n < 0
      BY <1>3, <1>5
    <2>2. ValueIsChoice'
      BY <1>1, <1>2, <1>5, <2>1, LengthsKept DEF IInv, ValueIsChoice
    <2> QED BY <1>1, <1>5, <2>2 DEF IInv, SameSum
  <1> QED BY <1>4, <1>5

LEMMA DrawTextKeeps == ASSUME IInv, DrawText PROVE IInv'
  <1>1. CASE RandomString
    BY <1>1, RandomStringKeeps DEF DrawText
  <1>2. CASE /\ spec.format \in DOMAIN FormatLengths
             /\ \E n \in FormatLengths[spec.format] : Formatted(n)
    <2>1. PICK n \in FormatLengths[spec.format] : Formatted(n)
      BY <1>2
    <2>2. CASE ViolatesExplicitLength(n)
      BY <2>1, <2>2, RandomStringKeeps DEF DrawText, Formatted
    <2>3. CASE ~ViolatesExplicitLength(n)
      <3>1. Finish("string", n) /\ spec' = spec /\ spec.type = "string" /\ n \in Nat
        BY <1>2, <2>1, <2>3, Finished, FakeDataAssumption DEF DrawText, Formatted
      <3>2. ValueIsChoice'
        BY <3>1, <2>3, Finished, LengthsKept DEF ValueIsChoice
      <3> QED BY <3>1, <3>2, FinishKeeps
    <2> QED BY <2>2, <2>3
  <1> QED BY <1>1, <1>2 DEF DrawText

LEMMA DrawDigitKeeps == ASSUME IInv, DrawDigit PROVE IInv'
  <1>1. /\ Checked /\ drawn \in Nat /\ sum \in 0..9 /\ weighed = sum
        /\ \/ spec.format = "credit_card" /\ drawn \in 0..14
           \/ spec.format = "isbn" /\ drawn \in 0..11
        /\ drawn' = drawn + 1 /\ spec' = spec /\ phase' = phase /\ value' = value /\ phase = "drawing"
    BY DEF DrawDigit, IInv, SameSum, Payload, Checked
  <1>2. sum' = weighed' /\ sum' \in 0..9
    <2>1. PICK d \in 0..9 :
            IF spec.format = "credit_card"
            THEN sum' = (sum + CardWeight(drawn, d)) % 10 /\ weighed' = (weighed + StandardCard(drawn, d)) % 10
            ELSE sum' = (sum + IsbnWeight(drawn, d)) % 10 /\ weighed' = (weighed + StandardIsbn(drawn, d)) % 10
      BY DEF DrawDigit
    <2>2. ASSUME NEW w \in Nat PROVE (sum + w) % 10 \in 0..9
      BY <1>1
    <2> QED BY <1>1, <2>1, <2>2, SameWeights
  <1>3. drawn' \in 0..15
    BY <1>1
  <1> QED BY <1>1, <1>2, <1>3 DEF IInv, ValueIsChoice, SameSum

LEMMA AddCheckDigitKeeps == ASSUME IInv, AddCheckDigit PROVE IInv'
  <1>1. PICK n \in FormatLengths[spec.format] :
          IF ViolatesExplicitLength(n) THEN RandomString ELSE Finish(spec.format, CheckDigit)
    BY DEF AddCheckDigit
  <1>2. Checked /\ spec.type = "string" /\ phase = "drawing"
    BY DEF AddCheckDigit, Checked
  <1>3. CASE ViolatesExplicitLength(n)
    BY <1>1, <1>2, <1>3, RandomStringKeeps
  <1>4. CASE ~ViolatesExplicitLength(n)
    <2>1. Finish(spec.format, CheckDigit) /\ spec' = spec /\ sum' = sum
      BY <1>1, <1>4, Finished
    <2>2. ValueIsChoice'
      BY <1>2, <1>4, <2>1, Finished, LengthsKept DEF ValueIsChoice, Checked, CheckDigit
    <2> QED BY <2>1, <2>2, FinishKeeps
  <1> QED BY <1>3, <1>4

LEMMA StutterKeeps == ASSUME IInv, UNCHANGED vars PROVE IInv'
  <1>1. /\ Shorter' = Shorter /\ Longer' = Longer
        /\ \A n : ViolatesExplicitLength(n)' <=> ViolatesExplicitLength(n)
    BY LengthsKept DEF vars
  <1>2. IntChoices' = IntChoices /\ FloatChoices' = FloatChoices /\ Checked' = Checked /\ CheckDigit' = CheckDigit
    BY DEF vars, IntChoices, FloatChoices, Low, High, Checked, CheckDigit
  <1>3. ValueIsChoice'
    BY <1>1, <1>2 DEF IInv, vars, ValueIsChoice
  <1> QED BY <1>3 DEF vars, IInv, SameSum

\* The invariant holds in every state.
THEOREM Invariance == Spec => []IInv
  <1>1. Init => IInv
    BY InitIInv
  <1>2. IInv /\ [Next]_vars => IInv'
    BY DrawIntKeeps, DrawFloatKeeps, DrawOtherKeeps, UnsupportedKeeps, DrawTextKeeps, DrawDigitKeeps,
       AddCheckDigitKeeps, StutterKeeps DEF Next
  <1> QED BY <1>1, <1>2, PTL DEF Spec

-----------------------------------------------------------------------------
(* What follows *)

\* Ints of bounds that are whole are between them, and whole in any case.
LEMMA IntsFit ==
  ASSUME spec \in Specs, NEW n \in IntChoices
  PROVE  /\ n \in Int /\ n % Scale = 0
         /\ Low % Scale = 0 /\ High % Scale = 0 /\ Low <= High => Low <= n /\ n <= High
  <1>1. Low \in Int /\ High \in Int /\ Scale \in Nat \ {0} /\ MaxInt32 \in Nat
    BY Bounds, FakeDataAssumption
  <1>2. PICK q \in Int : Truncated(Low, Scale) = Scale * q
    BY <1>1, TruncatedWhole
  <1>3. Low % Scale = 0 => Truncated(Low, Scale) = Low
    <2> SUFFICES ASSUME Low % Scale = 0 PROVE Truncated(Low, Scale) = Low
      OBVIOUS
    <2>1. PICK m \in Int : Low = Scale * m
      BY <1>1, RestZero
    <2>2. Scale * m <= Low /\ Low <= Scale * m
      BY <1>1, <2>1
    <2>3. Scale * m <= Truncated(Low, Scale) /\ Truncated(Low, Scale) <= Scale * m
      BY <1>1, <2>2, TruncatedBetween
    <2>4. Truncated(Low, Scale) \in Int /\ Scale * m \in Int
      BY <1>1, <1>2
    <2> QED BY <2>1, <2>3, <2>4
  <1>4. CASE High <= Low
    <2>1. n = Truncated(Low, Scale)
      BY <1>4 DEF IntChoices
    <2>2. n \in Int /\ n % Scale = 0
      BY <1>1, <1>2, <2>1, MultipleRest
    <2>3. Low % Scale = 0 /\ High % Scale = 0 /\ Low <= High => Low <= n /\ n <= High
      BY <1>1, <1>3, <1>4, <2>1
    <2> QED BY <2>2, <2>3
  <1>5. CASE ~(High <= Low)
    <2> DEFINE width == (High - Low) \div Scale
    <2>1. High - Low \in Nat
      BY <1>1, <1>5
    <2>2. width \in Nat /\ Scale * width <= High - Low
      <3>1. ASSUME NEW x \in Nat PROVE x \div Scale \in Nat /\ Scale * (x \div Scale) <= x
        BY <1>1, Division
      <3> QED BY <2>1, <3>1
    <2> HIDE DEF width
    <2> DEFINE count == IF High - Low >= MaxInt32 * Scale THEN MaxInt32 ELSE width + 1
    <2>3. count \in Int
      BY <1>1, <2>2
    <2>4. PICK k \in 0..(count - 1) : n = Truncated(Low, Scale) + Scale * k
      BY <1>5 DEF IntChoices, Ints, width
    <2>5. k \in Nat /\ Scale * k <= High - Low
      <3>1. CASE High - Low >= MaxInt32 * Scale
        <4>1. k \in Nat /\ MaxInt32 - k \in Nat
          BY <1>1, <2>3, <2>4, <3>1
        <4>2. Scale * (MaxInt32 - k) \in Nat /\ Scale * (MaxInt32 - k) = MaxInt32 * Scale - Scale * k
          BY <1>1, <4>1
        <4>3. Scale * k \in Int /\ MaxInt32 * Scale \in Int
          BY <1>1, <4>1
        <4> QED BY <1>1, <3>1, <4>1, <4>2, <4>3
      <3>2. CASE ~(High - Low >= MaxInt32 * Scale)
        <4>1. k \in Nat /\ width - k \in Nat
          BY <2>2, <2>3, <2>4, <3>2
        <4>2. Scale * (width - k) \in Nat /\ Scale * (width - k) = Scale * width - Scale * k
          BY <1>1, <2>2, <4>1
        <4>3. Scale * k \in Int /\ Scale * width \in Int
          BY <1>1, <2>2, <4>1
        <4> QED BY <1>1, <2>2, <4>1, <4>2, <4>3
      <3> QED BY <3>1, <3>2
    <2>6. Scale * k \in Nat
      BY <1>1, <2>5
    <2>7. n = Scale * (q + k)
      BY <1>1, <1>2, <2>4, <2>5
    <2>8. n \in Int /\ n % Scale = 0
      BY <1>1, <2>5, <2>7, MultipleRest
    <2>9. Low % Scale = 0 => Low <= n /\ n <= High
      BY <1>1, <1>3, <2>4, <2>5, <2>6
    <2> QED BY <2>8, <2>9
  <1> QED BY <1>4, <1>5

\* A float is cut to a hundredth, and not past one unless that one is short.
LEMMA CutFits ==
  ASSUME NEW x \in Int, spec \in Specs
  PROVE  /\ \E q \in Int : Cut(x) = Cent * q
         /\ \A m \in Int : Cent * m \notin Short /\ Cent * m <= x => Cent * m <= Cut(x)
         /\ \A m \in Int : m >= 0 /\ x <= Cent * m + 1 => Cut(x) <= Cent * m
  <1>1. /\ Cent \in Nat \ {0} /\ Short \in SUBSET (Nat \ {0}) /\ \A y \in Short : y % Cent = 0
        /\ Cent > 1
    BY Bounds, FakeDataAssumption DEF Cent
  <1>2. CASE x \in Short
    <2>1. PICK k \in Int : x = Cent * k
      BY <1>1, <1>2, RestZero
    <2>2. Cut(x) = Cent * (k - 1) /\ Cut(x) = x - Cent
      BY <1>1, <1>2, <2>1 DEF Cut, Cent
    <2>3. ASSUME NEW m \in Int, Cent * m \notin Short, Cent * m <= x
          PROVE  Cent * m <= Cut(x)
      <3>1. m <= k /\ m # k
        BY <1>1, <1>2, <2>1, <2>3, FactorOrder
      <3>2. m <= k - 1
        BY <3>1
      <3> QED BY <1>1, <2>2, <3>2
    <2>4. ASSUME NEW m \in Int, x <= Cent * m + 1 PROVE Cut(x) <= Cent * m
      BY <1>1, <2>2, <2>4
    <2> QED BY <2>2, <2>3, <2>4
  <1>3. CASE x \notin Short /\ -x \in Short
    <2>1. PICK k \in Int : -x = Cent * k
      BY <1>1, <1>3, RestZero
    <2>2. x = Cent * (-k) /\ Cut(x) = Cent * (1 - k) /\ Cut(x) = x + Cent /\ x < 0
      BY <1>1, <1>3, <2>1 DEF Cut, Cent
    <2>3. ASSUME NEW m \in Int, Cent * m <= x PROVE Cent * m <= Cut(x)
      BY <1>1, <2>2, <2>3
    <2>4. ASSUME NEW m \in Int, m >= 0 PROVE Cut(x) <= Cent * m
      <3>1. k \in Nat \ {0}
        <4>1. Cent * 0 < Cent * k
          BY <1>1, <2>1, <2>2
        <4> QED BY <1>1, <4>1, FactorOrder
      <3>2. 1 - k <= m
        BY <2>4, <3>1
      <3> QED BY <1>1, <2>2, <3>2
    <2> QED BY <2>2, <2>3, <2>4
  <1>4. CASE x \notin Short /\ -x \notin Short
    <2>1. Cut(x) = Truncated(x, Cent)
      BY <1>4 DEF Cut, Cent
    <2>2. PICK q \in Int : Cut(x) = Cent * q
      BY <1>1, <2>1, TruncatedWhole
    <2>3. ASSUME NEW m \in Int, Cent * m <= x PROVE Cent * m <= Cut(x)
      BY <1>1, <2>1, <2>3, TruncatedBetween
    <2>4. ASSUME NEW m \in Int, m >= 0, x <= Cent * m + 1 PROVE Cut(x) <= Cent * m
      <3>1. CASE x <= Cent * m
        BY <1>1, <2>1, <3>1, TruncatedBetween
      <3>2. CASE x = Cent * m + 1
        <4>1. x \in Nat /\ Cent * m \in Nat
          BY <1>1, <2>4, <3>2
        <4>2. Cut(x) <= x
          <5>1. Cut(x) = Cent * (x \div Cent) /\ Cent * (x \div Cent) <= x
            BY <1>1, <2>1, <4>1, Division DEF Truncated
          <5> QED BY <5>1
        <4>3. Cent * q < Cent * m + Cent
          BY <1>1, <2>2, <3>2, <4>1, <4>2
        <4>4. q <= m
          BY <1>1, <4>3, FactorOrder
        <4> QED BY <1>1, <2>2, <4>4
      <3> QED BY <1>1, <2>4, <3>1, <3>2
    <2> QED BY <2>2, <2>3, <2>4
  <1> QED BY <1>2, <1>3, <1>4

\* Floats are hundredths, and between bounds that cutting does not lead out of.
LEMMA FloatsFit ==
  ASSUME spec \in Specs, NEW n \in FloatChoices
  PROVE  /\ (n \in Int /\ n % Cent = 0) \/ n = Low
         /\ Low % Cent = 0 /\ High % Cent = 0 /\ (Low = High \/ (Low < High /\ Low \notin Short /\ High >= 0))
              => Low <= n /\ n <= High
  <1>1. Low \in Int /\ High \in Int /\ Cent \in Nat \ {0}
    BY Bounds
  <1>2. CASE High <= Low
    <2>1. n = Low
      BY <1>2 DEF FloatChoices
    <2> QED BY <1>1, <1>2, <2>1
  <1>3. CASE ~(High <= Low)
    <2>1. PICK x \in Low..(High + 1) : n = Cut(x)
      BY <1>3 DEF FloatChoices, Floats
    <2>2. x \in Int /\ Low <= x /\ x <= High + 1
      BY <1>1, <2>1
    <2>3. PICK q \in Int : n = Cent * q
      BY <2>1, <2>2, CutFits
    <2>4. n \in Int /\ n % Cent = 0
      BY <1>1, <2>3, MultipleRest
    <2>5. ASSUME Low % Cent = 0, High % Cent = 0, Low \notin Short, High >= 0
          PROVE  Low <= n /\ n <= High
      <3>1. PICK l \in Int : Low = Cent * l
        BY <1>1, <2>5, RestZero
      <3>2. PICK h \in Int : High = Cent * h
        BY <1>1, <2>5, RestZero
      <3>3. h >= 0
        <4>1. Cent * 0 < Cent * h + Cent
          BY <1>1, <2>5, <3>2
        <4> QED BY <1>1, <4>1, FactorOrder
      <3>4. Cent * l <= Cut(x)
        <4>1. Cent * l \notin Short /\ Cent * l <= x
          BY <2>2, <2>5, <3>1
        <4> QED BY <2>2, <4>1, CutFits
      <3>5. Cut(x) <= Cent * h
        <4>1. x <= Cent * h + 1
          BY <2>2, <3>2
        <4> QED BY <2>2, <3>3, <4>1, CutFits
      <3> QED BY <2>1, <3>1, <3>2, <3>4, <3>5
    <2>6. ~(Low = High)
      BY <1>1, <1>3
    <2>7. Low % Cent = 0 /\ High % Cent = 0 /\ (Low = High \/ (Low < High /\ Low \notin Short /\ High >= 0))
            => Low <= n /\ n <= High
      BY <2>5, <2>6
    <2> QED BY <2>4, <2>7
  <1> QED BY <1>2, <1>3

LEMMA TypeFits == ASSUME IInv PROVE TypeOK
  <1>1. spec \in Specs /\ ValueIsChoice /\ SameSum
    BY DEF IInv
  <1>2. ASSUME phase = "done"
        PROVE  /\ value.type \in {spec.type, spec.format}
               /\ value.type = "int" => value.of % Scale = 0
               /\ value.type = "float" => value.of % Cent = 0 \/ value.of = Low
               /\ value.type = "string" => value.of \in Nat
    <2>1. CASE spec.type = "int" /\ value.type = "int" /\ value.of \in IntChoices
      BY <1>1, <2>1, IntsFit
    <2>2. CASE spec.type = "float" /\ value.type = "float" /\ value.of \in FloatChoices
      BY <1>1, <2>2, FloatsFit
    <2>3. CASE spec.type \in {"bool", "datetime"} /\ value.type = spec.type
      BY <2>3
    <2>4. CASE spec.type = "string" /\ value.type = "string" /\ value.of \in Nat
      BY <2>4
    <2>5. CASE Checked /\ value.type = spec.format
      BY <2>5 DEF Checked, Payload
    <2> QED BY <1>1, <1>2, <2>1, <2>2, <2>3, <2>4, <2>5 DEF ValueIsChoice
  <1> QED BY <1>1, <1>2 DEF IInv, ValueIsChoice, SameSum, TypeOK, Cent

\* A value has the type, the precision and the form that fakegen.go:313-402
\* gives it.
THEOREM TypeCorrect == Spec => []TypeOK
  <1>1. IInv => TypeOK
    BY TypeFits
  <1> QED BY <1>1, Invariance, PTL

\* Card numbers and ISBNs have a valid check digit, whatever digits are drawn
\* (fakegen.go:477-500 and 555-573).
THEOREM CheckDigitsAlways == Spec => []CheckDigitsAreValid
  <1>1. IInv => CheckDigitsAreValid
    <2> SUFFICES ASSUME IInv, phase = "done", value.type \in DOMAIN Payload
                 PROVE  (weighed + value.of) % 10 = 0
      BY DEF CheckDigitsAreValid
    <2>1. value.of = CheckDigit
      BY DEF IInv, ValueIsChoice, Payload
    <2>2. sum \in 0..9 /\ weighed = sum
      BY DEF IInv, SameSum
    <2> QED BY <2>1, <2>2 DEF CheckDigit
  <1> QED BY <1>1, Invariance, PTL

\* The bounds that a consistent spec has are those that the validator looks at.
LEMMA SeedsFit == ASSUME IInv PROVE SeedsAreAccepted
  <1> SUFFICES ASSUME Consistent
               PROVE  phase # "panicked" /\ (phase = "done" => ValidateColumn)
    BY DEF SeedsAreAccepted
  <1>1. /\ spec \in Specs /\ ValueIsChoice
        /\ Low \in Int /\ High \in Int /\ Cent \in Nat \ {0} /\ Scale = 100 * Cent
        /\ Shorter \in Int /\ Longer \in Int
        /\ DefaultMax \in Nat /\ DefaultLengths[1] \in Nat /\ DefaultLengths[2] \in Nat
        /\ Unset \notin Int
    BY Bounds, FakeDataAssumption DEF IInv
  <1>2. /\ (spec.min = Unset /\ Low = 0) \/ spec.min = Low
        /\ (spec.max = Unset /\ High = DefaultMax * Scale) \/ spec.max = High
    BY DEF Low, High, Or
  <1>3. ASSUME spec.type = "string"
        PROVE  /\ \A n \in Shorter..Longer : n >= 0 /\ ~ViolatesExplicitLength(n)
    <2>1. /\ spec.minLength \in Int \cup {Unset} /\ spec.maxLength \in Int \cup {Unset}
      BY <1>1, FakeDataAssumption
    <2>2. /\ Shorter = Or(spec.minLength, DefaultLengths[1])
          /\ Longer = Or(spec.maxLength, DefaultLengths[2])
          /\ Shorter >= 0
      BY <1>1, <1>3, <2>1 DEF Consistent, Shorter, Longer, Or
    <2> QED BY <1>1, <2>1, <2>2 DEF ViolatesExplicitLength, Or
  <1>4. phase # "panicked"
    BY <1>1, <1>3 DEF ValueIsChoice
  <1>5. \A n \in Nat : ~ViolatesExplicitLength(n) => Within(n, spec.minLength, spec.maxLength)
    <2>1. /\ spec.minLength \in Int \cup {Unset} /\ spec.maxLength \in Int \cup {Unset}
      BY <1>1, FakeDataAssumption
    <2> QED BY <2>1 DEF ViolatesExplicitLength, Within
  <1>6. ASSUME phase = "done" PROVE ValidateColumn
    <2>0. spec.type = "string" => value.matches
      <3> SUFFICES ASSUME spec.type = "string" PROVE value.matches
        OBVIOUS
      <3>1. spec.matches = {TRUE}
        BY DEF Consistent
      <3>2. value.matches \in spec.matches
        BY <1>1, <1>6 DEF ValueIsChoice
      <3>3. value.matches = TRUE
        BY <3>1, <3>2
      <3> QED BY <3>3, Zenon
    <2>1. CASE spec.type = "int" /\ value.type = "int" /\ value.of \in IntChoices
      <3>1. Low % Scale = 0 /\ High % Scale = 0 /\ Low <= High
        <4>1. Scale \in Nat \ {0}
          BY <1>1
        <4>2. 0 % Scale = 0 /\ (DefaultMax * Scale) % Scale = 0
          <5>1. (Scale * DefaultMax) % Scale = 0
            BY <1>1, <4>1, MultipleRest
          <5>2. DefaultMax * Scale = Scale * DefaultMax
            BY <1>1, <4>1
          <5>3. 0 % Scale = 0
            BY <4>1
          <5> QED BY <5>1, <5>2, <5>3
        <4>3. Whole(spec.min, Scale) /\ Whole(spec.max, Scale) /\ Low <= High
          BY <2>1 DEF Consistent
        <4> QED BY <1>1, <1>2, <4>1, <4>2, <4>3 DEF Whole
      <3>2. Low <= value.of /\ value.of <= High /\ value.of \in Int
        BY <1>1, <2>1, <3>1, IntsFit
      <3> QED BY <1>1, <1>2, <2>1, <3>2 DEF ValidateColumn, Within, Payload
    <2>2. CASE spec.type = "float" /\ value.type = "float" /\ value.of \in FloatChoices
      <3>1. /\ Low % Cent = 0 /\ High % Cent = 0
            /\ Low = High \/ (Low < High /\ Low \notin Short /\ High >= 0)
        <4>1. 0 % Cent = 0
          BY <1>1
        <4>2. (DefaultMax * Scale) % Cent = 0
          <5>1. 100 * DefaultMax \in Int
            BY <1>1
          <5>2. (Cent * (100 * DefaultMax)) % Cent = 0
            BY <1>1, <5>1, MultipleRest
          <5>3. DefaultMax * Scale = Cent * (100 * DefaultMax)
            BY <1>1
          <5> QED BY <5>2, <5>3
        <4>3. /\ Whole(spec.min, Cent) /\ Whole(spec.max, Cent)
              /\ Low = High \/ (Low < High /\ Low \notin Short /\ High >= 0)
          BY <2>2 DEF Consistent, FloatBounds, Cent
        <4> QED BY <1>1, <1>2, <4>1, <4>2, <4>3 DEF Whole
      <3>2. Low <= value.of /\ value.of <= High
        BY <1>1, <2>2, <3>1, FloatsFit
      <3> QED BY <1>1, <1>2, <2>2, <3>2 DEF ValidateColumn, Within, Payload
    <2>3. CASE spec.type \in {"bool", "datetime"} /\ value.type = spec.type
      BY <2>3 DEF ValidateColumn, Payload
    <2>4. CASE /\ spec.type = "string" /\ value.type = "string" /\ value.of \in Nat
               /\ value.of \in Shorter..Longer \/ ~ViolatesExplicitLength(value.of)
      <3>1. ~ViolatesExplicitLength(value.of)
        BY <1>3, <2>4
      <3> QED BY <1>5, <2>0, <2>4, <3>1 DEF ValidateColumn, Payload
    <2>5. CASE /\ Checked /\ value.type = spec.format
               /\ \E n \in FormatLengths[spec.format] : ~ViolatesExplicitLength(n)
      <3>1. spec.format \in {"credit_card", "isbn"} /\ spec.format \in DOMAIN Payload
        BY <2>5 DEF Checked, Payload
      <3>2. PICK n \in Nat : FormatLengths[spec.format] = {n}
        BY <3>1, FakeDataAssumption
      <3>3. Within(n, spec.minLength, spec.maxLength)
        BY <1>5, <2>5, <3>2
      <3> QED BY <2>0, <2>5, <3>1, <3>2, <3>3 DEF ValidateColumn, Checked
    <2> QED BY <1>1, <1>6, <2>1, <2>2, <2>3, <2>4, <2>5 DEF ValueIsChoice
  <1> QED BY <1>4, <1>6

\* Whatever fits its column for fakegen fits it for validation: a seed value of
\* a column passes validateColumn, whose bounds fit together, are not crossed
\* by the cut of a float, and whose pattern, if any, matches all that is drawn.
THEOREM SeedsAlways == Spec => []SeedsAreAccepted
  <1>1. IInv => SeedsAreAccepted
    BY SeedsFit
  <1> QED BY <1>1, Invariance, PTL
=============================================================================
