SPECIFICATION PartsSpec

CONSTANTS
  \* messages of the server
  Messages <- MessagesDef
  BadBytes = {0, 1, 32, 48, 97, 255}
  \* fields
  Values <- ValuesDef
  Digits10 = 6
  \* requests
  Int16Max = 2
  Int32Max = 60
  MaxCalls = 2
  Names <- NamesDef
  Texts <- TextsDef
  FormatLists <- FormatListsDef
  Alone <- AloneDef
  ParamLists <- ParamListsDef
  \* base64 and SQLSTATE
  Secrets <- SecretsDef
  Codes <- CodesDef
  OtherChars = {0, 43, 47, 48, 58, 61, 65, 91, 97, 127}
  Before <- BeforeDef
  \* the read buffer
  SizeBits = 4
  Junk = Junk
  Byte = {b1, b2}
  InitialSize = 1
  MaxRequired = 4
  MaxReceived = 7
  \* the queue of notifications
  MaxPending = 3
  Consumers = {c1, c2}
  MaxNotifications = 5
INVARIANTS
  MessagesAreRead
  DamageIsRefused
  WalkStaysInside
  
  RequestsAreRead
  OneRfqPerCall
  ConversionsKeep
  CommittedIsUnread
  BoundedMemory
  NobodyOversleeps
  TruthfulEvents
  NotificationsInOrder
PROPERTY
  BackpressureEnds
CHECK_DEADLOCK FALSE
