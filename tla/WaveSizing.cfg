SPECIFICATION SizingSpec
CONSTANTS
  SIZE_MAX = 3
  kWaveStagingBudget = 3
  kWaveChunksMax = 2
  MaxChunks = 3
  Batches <- MCBatches
INVARIANTS
  NoOverflowReject
  WaveWithinBudget
