CONSTANTS
  Devices = {d1, d2, d3}
  Steps = {s1, s2}
  Calls = {c1, c2, c3}
  NoEntry = NoEntry
  NoCall = NoCall
  Callers = {k1}
  Sims = {d1, d2}
  MaxCalls = 5
  MaxStops = 2
  MaxFaults = 1
  Msgs = {m1, m2}
  Clients = {u1, u2}
  Pages = {g1, g2}
  MaxMsgs = 3
  MaxBackends = 1
  Inputs = {i1, i2}
  MaxTurns = 1
  Tabbers = {t1, t2, t3}
  MaxTabs = 2
  MaxPools = 2
  Loggers = {u1, u2}
  MaxCollectors = 1
  MaxBuffer = 2
  MaxEvents = 2
  MaxEntries = 2
  Filmers = {i1, i2, i3, i4}
  MaxStarts = 2
SPECIFICATION HostSpec
INVARIANTS WaitersAnswerable OfflineIsBlocked BlockHasAReason PageFollowsRules TabsAreHeld LogsHear HarIsTrue FilmsAreOwned InputIsRouted
PROPERTIES EveryWaiterIsAnswered
CONSTRAINT Undisturbed
CHECK_DEADLOCK FALSE
