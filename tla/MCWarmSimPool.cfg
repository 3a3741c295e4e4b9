CONSTANTS
  Presets = {p1}
  Masters = {m1}
  Calls = {c1, c2}
  MaxClones = 2
  DefaultTarget = 1
  MaxTarget = 2
  None = None
SPECIFICATION WarmFairSpec
INVARIANTS ReadyIsAlive
PROPERTIES ReplenishEnds
CHECK_DEADLOCK FALSE
