SPECIFICATION Spec
CONSTANTS
  kZstdBlockSizeCeiling = 4
  kZstdSeqMinMatchLength = 1
  kZstdTileSequences = 2
  ChunkCount = 2
  FrameSizes = {1, 8}
  MagicBytes = 1
  TwoByteBias = 4
  kZstdMaxWindowSize = 6
  HeaderBytes = 1
  ChecksumBytes = 1
  DstCap = 5
  Headers <- MCHeaders
  Blocks <- MCBlocks
INVARIANTS TablesOfThisFrame
PROPERTIES DeviceDecodesAsHost
