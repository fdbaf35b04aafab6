SPECIFICATION Spec
CONSTANTS
  Messages = {m1, m2}
  Replies = {}
  Priority <- MCPriority
  MaxFrames = 1
  MaxEvents = 0
  MaxPending = 2
PROPERTIES SendsOnlyWhenIdle
CHECK_DEADLOCK FALSE
