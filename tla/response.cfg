SPECIFICATION Spec
CONSTANTS
  MaxLength = 5
  Jobs <- MCJobs
  RowDescriptions <- MCRowDescriptions
  Values <- MCValues
  MaxCommands = 2
  MaxRows = 2
INVARIANTS
  AcceptsWholeUnits
  EndsWithResponse
  RfqsMatch
  HandlerContract
  FitsRequest
  ErrorsAreTold
  ResultsAreHeld
CHECK_DEADLOCK FALSE
