SPECIFICATION FairSpec
CONSTANTS
  MaxFrames = 1
  HasRig = TRUE
  RigMayFail = TRUE
  LinkMayDrop = TRUE
  OutputMayFail = TRUE
  Retries = 1
  MaxSends = 1
  MaxHeartbeats = 1
  MaxStops = 0
  MaxReplies = 2
INVARIANTS TypeOK OneCommand GateHonest FailedReleases
PROPERTIES FinishedIsReleased EndIsReported
CHECK_DEADLOCK FALSE
