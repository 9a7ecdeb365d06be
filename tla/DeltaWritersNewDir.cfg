SPECIFICATION Spec
CONSTANTS
  Job = {"j1", "j2"}
  Chunks <- MCChunks
  Roots <- MCRoots
  WirePaths <- MCWirePaths
  OldFiles <- MCOldFiles
  Events <- MCEvents
  Name <- MCName
  Dotted <- MCDotted
  TmpOf <- MCTmpOf
INVARIANT WriterReconstructs
CHECK_DEADLOCK FALSE
