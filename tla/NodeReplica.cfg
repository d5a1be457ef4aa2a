SPECIFICATION FairSpec
CONSTANTS
  MaxBatch = 1
  Capacity = 1
  MaxEntries = 4
  MaxReqs = 1
  MaxFaults = 1
  MaxWire = 2
  MaxStale = 1
INVARIANTS TypeOK ShownOnce 
PROPERTIES GrowsAtEnd BatchArrives AskArrives
CHECK_DEADLOCK FALSE
