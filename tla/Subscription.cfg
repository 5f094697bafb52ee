CONSTANTS
  c1 = c1
  c2 = c2
  Cancelers <- Two
  MaxEvents = 3
  Cap = 1
  Adapters <- Both
  CloseUnblocks = TRUE
  RootNonNull = FALSE
SPECIFICATION FairSpec
INVARIANTS
  NoPanic
  AtMostOneLate
  CompleteUnlessCanceled
PROPERTIES
  ImplementsStream
  CancelStops
  EndIsSeen
  CancelReturns
  SenderReleased
CHECK_DEADLOCK FALSE
