SPECIFICATION FairSpec
CONSTANTS
  SizeBits = 5
  Junk = Junk
  HeaderSize = 2
  InitialSize = 5
  MaxFrames = 3
  KeepsGoing = FALSE
  Plans <- MixedPlans
INVARIANTS
  StreamInStep
  CopyDataIntact
  ReadsOnlyIfNeeded
PROPERTIES
  AnswersMatch
  EveryCallReturns
CHECK_DEADLOCK FALSE
