SPECIFICATION FairSpec
CONSTANTS
  Tools = {tc1}
  MaxPrompts = 2
  MaxCancels = 1
  MaxAsks = 3
INVARIANTS TypeOK EndIsSaid AnswersOwnRequest SuspendedByWait
 
CHECK_DEADLOCK FALSE
