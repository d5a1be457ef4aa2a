SPECIFICATION Spec
CONSTANTS
  Updaters = {u1, u2, u3}
  Releases = {r1}
  Overlap = FALSE
  Downloads = TRUE
  MaxFaults = 3
INVARIANTS TypeOK BrokenInPlace 
PROPERTY KeepsPrevious
CHECK_DEADLOCK FALSE
