SPECIFICATION LaunchesSpec
CONSTANTS
  WaveSize = 3
  SrcSize = 4
  DstCap = 6
  Handed <- MCHanded
  Widths = {3, 6}
  OtherWidth = 4
  BlockWarps = 2
  kZstdBlockThreads = 3
  MaxBlocks = 2
  Grids = {1, 2, 3, 4}
  Dims = {1, 2, 3, 4, 6, 9}
  Counts = {1, 2, 5, 7, 8}
  IndexLimit = 12
  kMaxBatchChunks = 7
  BlockFrames = 2
  BlockFuel = 3
  DstSize = 5
  CopyLens = {0, 1, 4}
  MoveGaps = {1, 2}
  kCudaWaveSize = 3
  Jobs <- MCJobs
  Batches <- MCBatches
  Residents = {0, 1}
  MaxFaults = 1
  SelfcheckWarmup = 1
  SelfcheckRuns = 2
  kLevelCount = 2
  kForcedFamilyCount = 2
  kTailwasteGridMultiples <- Multiples
  StepShare = 2
  ZstdCells = 2
INVARIANTS OutputIsSequential RaceFree EachChunkOnce BlockNeverSplits CopyComplete
  ReportIsHonest
PROPERTY LaunchEnds
