SPECIFICATION Spec
CONSTANTS
    Freqs = {1, 2}
    FirstFreq = 1
    TxFreq = 9
    Split = TRUE
    PollsToStabilize = 2
    MaxObjects = 1
    MaxCommands = 0
    MaxKeys = 2
    MaxTroubles = 0
    MaxPending = 3
INVARIANT NoSilentCarrier
CHECK_DEADLOCK FALSE
