SPECIFICATION FairSpec
CONSTANTS
  NoText = NoText
  Texts = {t1, t2}
  Priority = {}
  IdleKill = FALSE
  Closes = FALSE
  Timed = TRUE
  MaxAsks = 0
  MaxCancels = 0
  MaxStrays = 0
  MaxWire = 1
PROPERTY QueuedTurnRuns
CHECK_DEADLOCK FALSE
