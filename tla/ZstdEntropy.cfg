SPECIFICATION Spec
CONSTANTS
  BitsPerByte = 2
  LogFields = {0, 1}
  MinAccuracyLog = 5
  MaxAccuracyLog = 5
  MaxSymbolValue = 3
  BufferBits = {1, 8, 16, 40}
  MaxTableLog = 3
  WrittenCounts = {1, 2, 3, 4}
  OneStreamBytes = {0, 1, 2, 3}
  FourStreamBytes = {0, 9, 10, 12}
  JumpTableSizes = {0, 1, 2}
  Regenerated = {0, 1, 2, 3, 5, 6, 7}
  SizeBits = 4
  TableChoices <- MCTableChoices
  SequenceCounts = {1, 2, 3}
  SequenceBytes = {0, 2, 6}
  TileSizes = {1, 2}
  WeightTables <- MCWeightTables
  WeightBytes = {0, 1, 2, 4, 5}
  WeightCapacities = {3, 5}
INVARIANTS
  FseTableInverts
  TreeIsPrefixCode
  LiteralsAreStreams
  SequencesAreTheStream
  WeightsAreTheStream
CHECK_DEADLOCK FALSE
