CONSTANTS
  Presets = {p1}
  Masters = {m1}
  Calls = {c1, c2, c3}
  MaxClones = 2
  None = None
SPECIFICATION FairSpec
INVARIANTS WaitersHaveAWaker NoOrphan
PROPERTIES AcquireSettles
CONSTRAINT Trimmed
CHECK_DEADLOCK FALSE
