SPECIFICATION FairSpec
CONSTANTS
  ModifyWeight = 1
  RemoveWeight = 2
  CreateWeight = 4
  Threshold = 3
  Quiet <- MCQuiet
  Download <- MCDownload
  MaxChanges = 3
  MaxDownloads = 1
  MaxEvents = 3
  MaxQueue = 2
INVARIANTS TypeOK DebounceBound QueueFreeInRound
PROPERTIES Collapses ChangesServed 
CHECK_DEADLOCK FALSE
