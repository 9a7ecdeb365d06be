SPECIFICATION FairSpec
CONSTANTS
  Directions = {"Download", "Upload"}
  Places = {"free"}
  Scripts <- MCScripts
  StreamCap = 1
  WriterCap = 1
  Events = {}
INVARIANTS FlushedBeforeReturn
CHECK_DEADLOCK FALSE
