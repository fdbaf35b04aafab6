SPECIFICATION FairSpec
CONSTANTS
  Messages = {m1, r1}
  Replies = {r1}
  Priority <- MCPriority
  MaxFrames = 2
  MaxEvents = 2
  MaxPending = 2
INVARIANTS TypeOK NothingForgotten
PROPERTIES QueueDrains
CHECK_DEADLOCK FALSE
