CONSTANTS
  Ids = {i1}
  NumWorkers = 2
  Calls = {c1, c2, c3}
  MaxAttempts = 2
  Nobody = Nobody
  Reports <- SomeReports
SPECIFICATION FairSpec
INVARIANTS EndedIsJudged DiskFollowsMemory
PROPERTIES NoFalseSuccess LockIsFair AllEnd
CONSTRAINTS CrowdIsAlike FewAreBehind
CHECK_DEADLOCK FALSE
