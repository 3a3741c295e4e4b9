CONSTANTS
  Users = {u}
  Loops = {l1, l2}
  Ops = {u, l1, l2}
  Beat = Beat
  MaxSockets = 2
  ReconnectAttempts = 2
  Threshold = 2
  Cooldown = 1
  MaxAttempts = 1
SPECIFICATION ClientFairSpec
INVARIANTS WaitsAreHeard ReportsAreOwed
PROPERTIES HalfOpenIsDecided CallsSettle
CONSTRAINT RoomForLoops
CHECK_DEADLOCK FALSE
