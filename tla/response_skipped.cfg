SPECIFICATION Spec
CONSTANTS
  MaxLength = 5
  Jobs <- OneCommand
  RowDescriptions <- MCRowDescriptions
  Values <- MCValues
  MaxCommands = 2
  MaxRows = 2
INVARIANT NoAssertionFails
CHECK_DEADLOCK FALSE
