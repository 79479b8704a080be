------------------------------ MODULE FakeData ------------------------------
(***************************************************************************)
(* One call of fakegen.Value for a column that is seeded, or for a spec of *)
(* a response, and the check of validation.validateColumn that a create or *)
(* an update makes of such a value.                                        *)
(*                                                                         *)
(* Numbers are multiples of 1/Scale, where 1/Scale divides half of 1/100.  *)
(* Such a unit is wider than the rounding of float64, which shows only at  *)
(* a hundredth (Short). A text is its length in bytes, and whether it      *)
(* matches the pattern of its column: nothing that draws one looks at the  *)
(* pattern. The digits of a card number or an ISBN are drawn one by one;   *)
(* of those drawn only sums modulo 10 are kept.                            *)
(***************************************************************************)
EXTENDS Integers, FiniteSets

CONSTANTS
  Scale,           \* how many units make 1
  DefaultMax,      \* the upper bound of numbers that have none: 10000
  DefaultLengths,  \* the shortest and longest text without bounds: 5, 30
  MaxInt32,        \* the widest range of ints that is drawn from
  Widest,          \* the widest bound of numbers: float64 tells hundredths apart
  Short,           \* hundredths that times 100 are less than whole: 0.29 * 100 < 29
  Specs,           \* records: type, min, max, minLength, maxLength, format, matches;
                   \* matches: whether a text drawn may match the pattern
  FormatLengths,   \* FormatLengths[f]: how long texts of format f may be; one
                   \* length for card numbers and one for ISBNs
  Unset            \* a bound, or a format, that a spec does not have

ASSUME FakeDataAssumption ==
  /\ Scale \in Nat \ {0} /\ Scale % 200 = 0
  /\ DefaultMax \in Nat /\ MaxInt32 \in Nat
  /\ Widest \in Nat /\ DefaultMax * Scale <= Widest
  /\ \A x \in Short : x \in Nat \ {0} /\ x % (Scale \div 100) = 0
  /\ DefaultLengths \in Nat \X Nat
  /\ Unset \notin Int
  /\ {"credit_card", "isbn"} \subseteq DOMAIN FormatLengths
  /\ \A f \in DOMAIN FormatLengths : FormatLengths[f] \subseteq Nat
  /\ \A f \in {"credit_card", "isbn"} : \E n \in FormatLengths[f] : FormatLengths[f] = {n}
  /\ \A s \in Specs :
       /\ {s.min, s.max} \subseteq -Widest..Widest \cup {Unset}
       /\ {s.minLength, s.maxLength} \subseteq Int \cup {Unset}
       /\ s.matches \in SUBSET BOOLEAN \ {{}}

VARIABLES
  spec,     \* what is to be generated
  phase,    \* "drawing", "done", "failed" (an error) or "panicked"
  value,    \* what was generated
  drawn,    \* how many digits of a payload were drawn
  sum,      \* their sum as the generator weighs them, modulo 10
  weighed   \* history: their sum as the standard weighs them, modulo 10

vars == <<spec, phase, value, drawn, sum, weighed>>

NoNumber == [type |-> "none"]

Or(bound, default) == IF bound = Unset THEN default ELSE bound

\* int() of a float, in units of step: towards zero.
Truncated(x, step) == IF x >= 0 THEN step * (x \div step) ELSE -(step * ((-x) \div step))

Finish(type, n) ==
  /\ phase' = "done"
  /\ \E m \in spec.matches : value' = [type |-> type, of |-> n, matches |-> m]
  /\ UNCHANGED <<spec, drawn, sum, weighed>>

Init ==
  /\ spec \in Specs
  /\ phase = "drawing" /\ value = NoNumber
  /\ drawn = 0 /\ sum = 0 /\ weighed = 0

-----------------------------------------------------------------------------
(* Numbers *)

Low == Or(spec.min, 0)
High == Or(spec.max, DefaultMax * Scale)

\* Mutated form: the lower bound is taken as it is.
IntsFromBound(low, high) == {low + Scale * k : k \in 0..((high - low) \div Scale)}

\* Mutated form: Intn of the range plus two.
IntsBeyond(low, high) == {Truncated(low, Scale) + Scale * k : k \in 0..((high - low) \div Scale + 1)}

\* (Fractional bounds whose difference is rounded below a whole number leave
\* the last one out.)
Ints(low, high) ==
  LET n == IF high - low >= MaxInt32 * Scale THEN MaxInt32 ELSE (high - low) \div Scale + 1
  IN {Truncated(low, Scale) + Scale * k : k \in 0..(n - 1)}

\* float64(int(x * 100)) / 100: towards zero, a short one
\* to the hundredth before.
Cut(x) ==
  LET cent == Scale \div 100
  IN IF x \in Short THEN x - cent ELSE IF -x \in Short THEN x + cent ELSE Truncated(x, cent)

\* A number of [low, high), whose sum may be rounded to high or just above it.
Floats(low, high) == {Cut(x) : x \in low..(high + 1)}

DrawInt ==
  /\ phase = "drawing" /\ spec.type = "int"
  /\ \E n \in IF High <= Low THEN {Truncated(Low, Scale)} ELSE Ints(Low, High) : Finish("int", n)

DrawFloat ==
  /\ phase = "drawing" /\ spec.type = "float"
  /\ \E n \in IF High <= Low THEN {Low} ELSE Floats(Low, High) : Finish("float", n)

\* A boolean or a time: what it is does not matter here.
DrawOther ==
  /\ phase = "drawing" /\ spec.type \in {"bool", "datetime"}
  /\ Finish(spec.type, 0)

Unsupported ==
  /\ phase = "drawing" /\ spec.type \notin {"string", "int", "float", "bool", "datetime"}
  /\ phase' = "failed"
  /\ UNCHANGED <<spec, value, drawn, sum, weighed>>

-----------------------------------------------------------------------------
(* Texts *)

ViolatesExplicitLength(n) ==
  \/ spec.minLength # Unset /\ n < spec.minLength
  \/ spec.maxLength # Unset /\ n > spec.maxLength

Shorter == LET a == Or(spec.minLength, DefaultLengths[1])
               b == Or(spec.maxLength, DefaultLengths[2]) IN IF a <= b THEN a ELSE b
Longer == LET a == Or(spec.minLength, DefaultLengths[1])
              b == Or(spec.maxLength, DefaultLengths[2]) IN IF a <= b THEN b ELSE a

\* make panics when the length is negative.
RandomString ==
  \E n \in Shorter..Longer :
    IF n >= 0 THEN Finish("string", n)
    ELSE phase' = "panicked" /\ UNCHANGED <<spec, value, drawn, sum, weighed>>

\* A text of the format, or letters and digits if that has a length that the
\* spec excludes.
Formatted(n) == IF ViolatesExplicitLength(n) THEN RandomString ELSE Finish("string", n)

\* The formats whose texts end in a check digit.
Payload == [credit_card |-> 15, isbn |-> 12]
Checked == spec.type = "string" /\ spec.format \in DOMAIN Payload

DrawText ==
  /\ phase = "drawing" /\ spec.type = "string" /\ ~Checked
  /\ IF spec.format \in DOMAIN FormatLengths
     THEN \E n \in FormatLengths[spec.format] : Formatted(n)
     ELSE RandomString

\* Mutated form: the other digits are doubled.
CardWeightShifted(i, d) == IF (15 - i) % 2 # 0 THEN d ELSE IF 2 * d > 9 THEN 2 * d - 9 ELSE 2 * d

\* GenCreditCard and GenISBN: what the digit d at place i, from 0, adds.
CardWeight(i, d) == IF (14 - i) % 2 # 0 THEN d ELSE IF 2 * d > 9 THEN 2 * d - 9 ELSE 2 * d
IsbnWeight(i, d) == IF i % 2 = 0 THEN d ELSE 3 * d

\* The standards: from the right, the check digit the first, every second digit
\* of a card is doubled and the digits of the product are added; from the left
\* the digits of an ISBN-13 count once and three times in turn.
StandardCard(i, d) == IF (16 - i) % 2 = 1 THEN d ELSE ((2 * d) \div 10) + ((2 * d) % 10)
StandardIsbn(i, d) == IF (i + 1) % 2 = 1 THEN d ELSE 3 * d

DrawDigit ==
  /\ phase = "drawing" /\ Checked /\ drawn < Payload[spec.format]
  /\ \E d \in 0..9 :
       IF spec.format = "credit_card"
       THEN sum' = (sum + CardWeight(drawn, d)) % 10 /\ weighed' = (weighed + StandardCard(drawn, d)) % 10
       ELSE sum' = (sum + IsbnWeight(drawn, d)) % 10 /\ weighed' = (weighed + StandardIsbn(drawn, d)) % 10
  /\ drawn' = drawn + 1
  /\ UNCHANGED <<spec, phase, value>>

CheckDigit == (10 - sum) % 10

\* The check digit of a text that is kept is its value here.
AddCheckDigit ==
  /\ phase = "drawing" /\ Checked /\ drawn = Payload[spec.format]
  /\ \E n \in FormatLengths[spec.format] :
       IF ViolatesExplicitLength(n) THEN RandomString ELSE Finish(spec.format, CheckDigit)

Next == DrawInt \/ DrawFloat \/ DrawOther \/ Unsupported \/ DrawText \/ DrawDigit \/ AddCheckDigit

Spec == Init /\ [][Next]_vars

-----------------------------------------------------------------------------
(* validateColumn *)

Within(n, low, high) == (low = Unset \/ n >= low) /\ (high = Unset \/ n <= high)

ValidateColumn ==
  CASE value.type \in {"int", "float"} -> Within(value.of, spec.min, spec.max)
    [] value.type = "string" -> Within(value.of, spec.minLength, spec.maxLength) /\ value.matches
    [] value.type \in DOMAIN Payload ->
         /\ \A n \in FormatLengths[spec.format] : Within(n, spec.minLength, spec.maxLength)
         /\ value.matches
    [] OTHER -> TRUE

-----------------------------------------------------------------------------
(* Correctness *)

\* A value has the type of its spec, ints are whole, floats have two decimals
\* unless a bound is what is drawn, and lengths are those of texts.
TypeOK ==
  /\ spec \in Specs /\ phase \in {"drawing", "done", "failed", "panicked"}
  /\ drawn \in 0..15 /\ sum \in 0..9 /\ weighed \in 0..9
  /\ phase # "done" => value = NoNumber
  /\ phase = "done" =>
       /\ value.type \in {spec.type, spec.format}
       /\ value.type = "int" => value.of % Scale = 0
       /\ value.type = "float" => value.of % (Scale \div 100) = 0 \/ value.of = Low
       /\ value.type = "string" => value.of \in Nat

Whole(x, step) == x = Unset \/ x % step = 0

\* Cutting does not lead out of the bounds: they are hundredths, the lower one
\* is not itself cut below, and the upper one not negative, or they are equal.
FloatBounds ==
  /\ Whole(spec.min, Scale \div 100) /\ Whole(spec.max, Scale \div 100)
  /\ Low = High \/ (Low < High /\ Low \notin Short /\ High >= 0)

\* The bounds of the spec fit together, and with those that stand for missing
\* ones (fakegen.go:319-320 and 381-382), and any text that may be drawn matches
\* the pattern. A narrower pattern is left out: generateString does not look at
\* it (fakegen.go:371-402), so that seeds of the column sku of
\* docs/examples/validation.json:13-19 are refused when they are sent back.
Consistent ==
  CASE spec.type = "int" -> Whole(spec.min, Scale) /\ Whole(spec.max, Scale) /\ Low <= High
    [] spec.type = "float" -> FloatBounds
    [] spec.type = "string" ->
         LET low == Or(spec.minLength, DefaultLengths[1])
         IN low \in 0..Or(spec.maxLength, DefaultLengths[2]) /\ spec.matches = {TRUE}
    [] OTHER -> TRUE

\* What Seed puts into a column (seed.go:171) passes the check that a client
\* has to pass who sends the row back (validate.go:87-181).
SeedsAreAccepted == Consistent => phase # "panicked" /\ (phase = "done" => ValidateColumn)

\* README.md:222 and 233: card numbers are Luhn-valid, and ISBNs have a valid
\* check digit, whatever the digits.
CheckDigitsAreValid ==
  phase = "done" /\ value.type \in DOMAIN Payload => (weighed + value.of) % 10 = 0
=============================================================================
