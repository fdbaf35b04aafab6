SPECIFICATION FairSpec
CONSTANTS
  MaxFrames = 2
  HasRig = TRUE
  RigMayFail = FALSE
  LinkMayDrop = FALSE
  OutputMayFail = TRUE
  Retries = 1
  MaxSends = 2
  MaxHeartbeats = 1
  MaxStops = 2
  MaxReplies = 2
INVARIANTS StopReleasesPtt
PROPERTIES PttReleased
CHECK_DEADLOCK FALSE
