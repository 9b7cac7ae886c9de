SPECIFICATION Spec
CONSTANTS
  SIZE_MAX = 7
  kWaveStagingBudget = 4
  kWaveChunksMax = 2
  MaxChunkCount = 3
  MaxCalls = 2
  Plans <- AllPlans
INVARIANTS
  TypeOK
  StagingNotOverwritten
  NothingOutlivesCall
  OkChunkProduced
  DeviceFaultPoisons
  InFlightInBounds
  RefusalSparesContext
PROPERTIES
  ImplementsContract
