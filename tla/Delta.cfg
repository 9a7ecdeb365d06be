SPECIFICATION Spec
CONSTANTS
  Byte = {0, 1}
  Width = 3
  Table <- MCTable
  Files <- MCFiles
  MaxLen = 5
  BlockSizes = {1, 2, 3}
  MaxLiteral = 2
INVARIANTS TypeOK Rebuilt RollingIsFresh NothingMissed Tiled
PROPERTIES Ends
CHECK_DEADLOCK FALSE
