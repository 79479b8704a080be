SPECIFICATION Spec
CONSTANTS
  unset = unset
  Scale = 200
  DefaultMax = 5
  DefaultLengths <- MCDefaultLengths
  MaxInt32 = 8
  Widest = 2000
  Short <- MCShort
  Specs <- MCSpecs
  FormatLengths <- MCFormatLengths
  Unset = unset
INVARIANTS
  TypeOK
  SeedsAreAccepted
  CheckDigitsAreValid
CHECK_DEADLOCK FALSE
