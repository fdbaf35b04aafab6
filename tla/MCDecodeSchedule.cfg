SPECIFICATION FairSpec
CONSTANTS
  Ring = 6
  Count = 2
  Period <- MCPeriods
  Needed <- MCNeeded
  Chunks <- MCChunks
  Drifts = {d0, d1}
  Setters = {main, worker}
  MaxDrifts = 2
  MaxSwitches = 2
INVARIANTS TypeOK WindowFits DriftSettled
PROPERTIES EachCycleOnce WholeWindows DecodedAgain
