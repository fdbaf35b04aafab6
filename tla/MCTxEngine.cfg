SPECIFICATION FairSpec
CONSTANTS
  Callers = {main, js8tx}
  MaxFrames = 2
  MaxRequests = 2
  SlotWaits <- MCSlotWaits
  FrameLen = 2
  Lead = 2
INVARIANTS TypeOK AcceptedHasOutput
PROPERTIES FrameOrder ImplementsSession SessionsEnd
CHECK_DEADLOCK FALSE
