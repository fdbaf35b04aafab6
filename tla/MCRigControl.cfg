SPECIFICATION Spec
CONSTANTS
    Freqs = {1, 2}
    FirstFreq = 1
    TxFreq = 9
    Split = TRUE
    PollsToStabilize = 2
    MaxObjects = 2
    MaxCommands = 1
    MaxKeys = 1
    MaxTroubles = 1
    MaxPending = 2
INVARIANTS TypeOK NobodyKeyed ShowsTheRig SplitKept
PROPERTIES AudioIntoKeyed
CHECK_DEADLOCK FALSE
