CONSTANTS
  Procs = {p1, p2}
  Devices = {d1}
  Bookers = {b1, b2}
  MaxBookings = 2
  MaxRestarts = 1
  MaxCrashes = 1
SPECIFICATION DevicesSpec
INVARIANTS EntriesKept
PROPERTIES CallsEnd BookersReturn PortFollowsProxy
CONSTRAINT CallsOnly
CHECK_DEADLOCK FALSE
