SPECIFICATION FairSpec
CONSTANTS
  Directions = {"Skip", "Download", "Upload"}
  Places = {"free", "blocked", "taken"}
  Scripts <- MCScripts
  StreamCap = 1
  WriterCap = 1
  Events <- MCAllEvents
INVARIANTS TypeOK CompleteImpliesWhole GarbledOnlyByRace NoDeltaDropped DeliveredAtEnd
PROPERTIES SourceUntouched Delivered SessionEnds ReplacesFile
CHECK_DEADLOCK FALSE
