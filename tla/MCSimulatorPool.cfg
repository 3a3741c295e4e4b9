CONSTANTS
  MaxSimulators = 3
  Sequential = q
  None = None
  Devices = {d1, d2, d3}
  Boots = {b1}
  Shuts = {s1}
  Concurrency = 2
SPECIFICATION FairSpec
INVARIANTS NoForgottenDevice
PROPERTIES CallsSettle
CONSTRAINT OneMeeting
CHECK_DEADLOCK FALSE
