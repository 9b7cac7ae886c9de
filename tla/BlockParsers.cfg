SPECIFICATION ParserSpec
CONSTANTS
  SrcSize = 14
  DstCap = 10
  RunMask = 2
  ByteMax = 2
  MinMatch = 1
  LastLiterals = 1
  TrailingSlackDst = 3
  TrailingSlackSrc = 3
  LiteralReadMargin = 2
  MatchReadMargin = 1
  Offsets = {0, 1, 3}
  VarintGroups = 2
  VarintBase = 4
  FinalMax = 3
  InlineMax = 1
  WideBytes = 2
  Copy1MinLength = 2
  InlineLengths = {0, 1}
  WideLengths = {0, 2, 3}
  CopyLengths = {1, 3}
  NarrowLengths = {2, 3}
INVARIANTS ReadsInBounds LengthBounded
PROPERTIES ParserKeepsSeam ParseEnds
