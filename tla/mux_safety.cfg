SPECIFICATION Spec
CONSTANTS
  e1 = e1
  e2 = e2
  e3 = e3
  Execs = {e1, e2, e3}
  RequestOf <- MixedRequests
  Interjections = {"notification_response"}
  MaxInTransit = 2
  MaxLosses = 1
  MayStop = TRUE
INVARIANTS
  ReferencesAreAlive
  SuccessIsComplete
  SentOnce
  QueueMirrorsConnection
PROPERTY
  NotSentAfterReturn
CHECK_DEADLOCK FALSE
