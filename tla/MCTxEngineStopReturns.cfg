SPECIFICATION FairSpec
CONSTANTS
  Callers = {main, js8tx}
  MaxFrames = 1
  MaxRequests = 1
  SlotWaits <- MCSlotWaits
  FrameLen = 1
  Lead = 2
PROPERTIES StopReturns
CHECK_DEADLOCK FALSE
