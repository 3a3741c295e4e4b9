CONSTANTS
  Callers = {c1, c2}
  Sims = {d1, d2}
  MaxCalls = 3
  MaxStops = 0
  MaxFaults = 0
SPECIFICATION NetworkSpec
INVARIANT OfflineIsBlocked
CHECK_DEADLOCK FALSE
