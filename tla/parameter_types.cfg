SPECIFICATION MessageSpec
CONSTANTS
  Messages <- MessagesDef
  BadBytes = {0, 1}
INVARIANT
  ParametersAreDescribed
CHECK_DEADLOCK FALSE
