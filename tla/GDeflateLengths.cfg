SPECIFICATION Spec
CONSTANTS
  NumStreams = 4
  Packet = 4
  WordCount = 12
  HeaderBits = 1
  CountsBits = 3
  Counts <- MCCounts
  PrecodeLenBits = 2
  PrecodeLens = {0, 1, 2, 3}
  PrecodeOrder <- MCOrder
  MaxPrecodeLen = 3
  RepeatPrev = 2
  ExtraBits <- MCExtraBits
  Runs <- MCRuns
  MaxCodeLen = 1
INVARIANTS LengthsAreExpansion HeaderResidenciesAgree TablesDecode
