SPECIFICATION FieldSpec
CONSTANTS
  Values <- ValuesDef
  Digits10 = 6
INVARIANT
  DatesAreRead
CHECK_DEADLOCK FALSE
