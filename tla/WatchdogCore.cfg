SPECIFICATION FairSpec
CONSTANTS
  Core = core
  Services = {core}
  MaxFails = 2
  MaxCrashes = 2
  MailCap = 1
INVARIANTS TypeOK GivesUpOnlyAtLimit 
PROPERTIES WantedComesUp ShutdownEnds
CHECK_DEADLOCK FALSE
