SPECIFICATION Spec
CONSTANTS
  FrameSizes = {2, 7, 12}
  DstCap = 7
  BlockMax = 2
  MagicBytes = 1
  FlagBytes = 1
  SizeBytes = 1
  WordBytes = 1
  MetaBytes = 4
  SizeMax = 12
INVARIANTS OutputIsFrame NothingOutlivesDecode
PROPERTY DecodeReturns
