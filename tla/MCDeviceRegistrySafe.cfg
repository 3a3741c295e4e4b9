CONSTANTS
  Procs = {p1, p2, p3}
  Devices = {d1}
SPECIFICATION Spec
INVARIANTS RegisteredIsSafe
CONSTRAINT LockWorks
SYMMETRY Symmetry
CHECK_DEADLOCK FALSE
