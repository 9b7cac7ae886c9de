SPECIFICATION Spec
CONSTANTS
  NumStreams = 3
  Packet = 8
  LenBits = 4
  ByteBits = 2
  WordCount = 6
  Cap = 4
  Headers <- MCHeaders
  LitLens <- MCLitLens
  Dists <- MCDists
  StoredLens = {0, 1, 3, 4}
INVARIANTS WordsDealtOnce OutputIsExpansion ResidenciesAgree WarpTouchesOwnBytes
