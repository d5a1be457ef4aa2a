SPECIFICATION Spec
CONSTANTS
  NoText = NoText
  Texts = {t1, t2}
  Priority = {t2}
  IdleKill = TRUE
  Closes = FALSE
  Timed = TRUE
  MaxAsks = 0
  MaxCancels = 1
  MaxStrays = 1
  MaxWire = 1
INVARIANTS TypeOK OnePlace 
CHECK_DEADLOCK FALSE
