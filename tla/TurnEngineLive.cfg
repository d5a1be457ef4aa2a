SPECIFICATION FairSpec
CONSTANTS
  NoText = NoText
  Texts = {t1, t2}
  Priority = {t2}
  IdleKill = FALSE
  Closes = TRUE
  Timed = TRUE
  MaxAsks = 1
  MaxCancels = 0
  MaxStrays = 0
  MaxWire = 1
PROPERTIES KeepsPromise QueuedTurnMoves StalledTurnEnds
CHECK_DEADLOCK FALSE
