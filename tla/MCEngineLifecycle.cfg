SPECIFICATION Spec
CONSTANTS
    MaxEngines = 2
    MaxChanges = 1
INVARIANTS TypeOK NothingDangles OneCapture WorkersAwake StopNeverStuck
CHECK_DEADLOCK FALSE
