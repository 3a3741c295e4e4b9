CONSTANTS
  MaxUi = 2
  NoTree = NoTree
  MaxAlerts = 2
  MaxStacked = 2
  MaxDepth = 2
  MaxAttempts = 2
  MaxTries = 2
  MaxPolls = 3
  MaxDrifts = 2
  MaxFields = 2
  Pool = {p1, p2}
  MaxSteps = 2
  MaxPops = 1
  MaxWaits = 2
  MaxNodes = 2
  MaxTurns = 2
  MaxChanges = 2
SPECIFICATION ToolsSpec
INVARIANTS RefusedIsUntouched ClaimsAreTrue SaidIsUndone StateIsNotLost
PROPERTIES ToolCallsEnd
CHECK_DEADLOCK FALSE
