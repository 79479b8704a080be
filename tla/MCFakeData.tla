----------------------------- MODULE MCFakeData -----------------------------
(***************************************************************************)
(* Every type with every combination of a few bounds, whole and fractional *)
(* ones, negative ones, and ones that only a missing bound contradicts; a  *)
(* pattern that every text matches (or none), and one that not all do.     *)
(***************************************************************************)
EXTENDS FakeData

CONSTANT unset

MCSpec(type, min, max, minLength, maxLength, format, matches) ==
  [type |-> type, min |-> min, max |-> max, minLength |-> minLength, maxLength |-> maxLength,
   format |-> format, matches |-> matches]

\* -1.5, -1, -0.29, -0.005, 0, 0.29, 0.5, 1, 3 and 9, where the default is 5.
MCBounds == {-300, -200, -58, -1, 0, 58, 100, 200, 600, 1800, unset}

\* 0.29 and 0.57: the products by 100 are below 29 and 57.
MCShort == {58, 114}
MCLengths == {-2, 0, 2, 4, 6, 8, 20, unset}

MCFormats == {unset, "word", "credit_card", "isbn", "unknown"}

MCSpecs ==
  {MCSpec(type, min, max, unset, unset, unset, {TRUE}) : type \in {"int", "float"}, min, max \in MCBounds}
    \cup {MCSpec("string", unset, unset, min, max, format, {TRUE}) :
            min, max \in MCLengths, format \in MCFormats}
    \cup {MCSpec("string", unset, unset, min, unset, format, BOOLEAN) :
            min \in {4, 20, unset}, format \in MCFormats}
    \cup {MCSpec(type, unset, unset, unset, unset, unset, {TRUE}) : type \in {"bool", "datetime", "object"}}

MCDefaultLengths == <<3, 6>>
MCFormatLengths == [word |-> {2, 5, 7}, credit_card |-> {19}, isbn |-> {17}]
=============================================================================
