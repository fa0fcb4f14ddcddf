SPECIFICATION FairSpec
CONSTANTS
  e1 = e1
  e2 = e2
  e3 = e3
  Execs = {e1, e2}
  RequestOf <- ShortRequests
  Interjections = {"notice_response"}
  MaxInTransit = 1
  MaxLosses = 1
  MayStop = FALSE
PROPERTY ReaderEndsTasks
CHECK_DEADLOCK FALSE
