SPECIFICATION FairSpec
CONSTANTS
  Directions = {"Skip"}
  Places = {"free"}
  Scripts <- MCScripts
  StreamCap = 1
  WriterCap = 1
  Events = {}
PROPERTIES SyncFileReturns
CHECK_DEADLOCK FALSE
