SPECIFICATION Spec
CONSTANTS
    Modes = {"turbo", "normal"}
    Slot <- MCSlot
    Periods = {6, 12}
    Delays = {0, 1}
    Drifts <- MCDrifts
    Late = 1
    MaxTime = 20
INVARIANTS TypeOK OneWakes
PROPERTIES OnSlotOnceAimed EveryPeriod
CHECK_DEADLOCK FALSE
