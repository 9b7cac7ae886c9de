SPECIFICATION Spec
CONSTANTS
  Files <- MCFiles
  DstCaps = {3, 4, 6}
  ResultCaps = {1, 2, 3}
  MaxCalls = 3
  HeaderBytes = 2
  EntryBytes = 1
  TileSize = 2
  WordMax = 7
INVARIANTS TilesHaveTheirOwn StreamIsWhole
CHECK_DEADLOCK FALSE
