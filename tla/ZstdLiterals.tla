---------------------------- MODULE ZstdLiterals ----------------------------
(***************************************************************************)
(* The Huffman-coded literals of a block: the tree from its weights        *)
(* (src/zstd_huf.h), then one stream or four (src/zstd_literals.h). The    *)
(* description writes all weights but the last, which the others imply; a  *)
(* symbol of weight w has a code of log + 1 - w bits and owns the 2^(w-1)  *)
(* cells whose index begins with it. Weights are a sequence, symbol s at   *)
(* s + 1. Each stream decodes the symbols its segment is owed and must end *)
(* exactly there. The section's other types, and the tree a later section  *)
(* inherits, are ZstdBlock's.                                              *)
(***************************************************************************)
EXTENDS ZstdFse
LOCAL INSTANCE SequencesExt
LOCAL INSTANCE FiniteSetsExt

CONSTANT MaxTableLog    \* the ceiling on the tree's depth

ASSUME MaxTableLogAssumption == MaxTableLog \in Nat \ {0}

Span(w) == 2^w \div 2
WeightTotal(weights) == MapThenSumSet(LAMBDA i : Span(weights[i]), DOMAIN weights)
OfWeight(weights, w) == {i \in DOMAIN weights : weights[i] = w}

TableLog(written) == HighestSetBit(WeightTotal(written)) + 1
Rest(written) == 2^TableLog(written) - WeightTotal(written)
LastWeight(written) == HighestSetBit(Rest(written)) + 1
Weights(written) == Append(written, LastWeight(written))

\* Mutant: the implied weight need not fill what the written ones leave.
WeightsWhyUnclean(written) ==
  IF \E i \in DOMAIN written : written[i] > MaxTableLog THEN "WeightTooLarge"
  ELSE IF WeightTotal(written) = 0 THEN "WeightSumZero"
  ELSE IF TableLog(written) > MaxTableLog THEN "TableLogTooLarge"
  ELSE IF Cardinality(OfWeight(Weights(written), 1)) < 2 THEN "DeepestRankEmpty"
  ELSE "None"
\* What a description's weights are refused on, in the code's order.
WeightsWhy(written) ==
  IF \E i \in DOMAIN written : written[i] > MaxTableLog THEN "WeightTooLarge"
  ELSE IF WeightTotal(written) = 0 THEN "WeightSumZero"
  ELSE IF TableLog(written) > MaxTableLog THEN "TableLogTooLarge"
  ELSE IF Span(LastWeight(written)) # Rest(written) THEN "LastWeightNotClean"
  ELSE IF Cardinality(OfWeight(Weights(written), 1)) < 2 THEN "DeepestRankEmpty"
  ELSE "None"

\* What the build refuses on: it takes no weights on trust.
HufBuildWhy(weights, log) ==
  IF \E i \in DOMAIN weights : weights[i] > log THEN "WeightTooLarge"
  ELSE IF WeightTotal(weights) # 2^log THEN "BuildWeightsNotClean"
  ELSE "None"

\* Cells go to the lighter symbols first, and among equals to the lower symbol.
Lighter(weights, i) ==
  {k \in DOMAIN weights : \/ weights[k] < weights[i]
                          \/ weights[k] = weights[i] /\ k < i}
CellsStart(weights, i) == MapThenSumSet(LAMBDA k : Span(weights[k]), Lighter(weights, i))
Owns(weights, i, cell) ==
  /\ weights[i] # 0
  /\ CellsStart(weights, i) <= cell /\ cell < CellsStart(weights, i) + Span(weights[i])
HufBuildDTable(weights, log) ==
  LET owner(cell) == CHOOSE i \in DOMAIN weights : Owns(weights, i, cell)
      filled(i) == [symbol |-> i - 1, nb_bits |-> log + 1 - weights[i]]
  IN [cell \in 0 .. 2^log - 1 |-> filled(owner(cell))]

-----------------------------------------------------------------------------
(* What the cells mean: a symbol's codeword is the bits every index of its *)
(* cells begins with.                                                      *)

CellsSpelling(cells, s) == {c \in DOMAIN cells : cells[c].symbol = s}
Codeword(cells, log, s) ==
  LET first == Min(CellsSpelling(cells, s)) IN
  SubSeq(AsBits(first, log), 1, cells[first].nb_bits)
Coded(cells) == {cells[c].symbol : c \in DOMAIN cells}
\* A prefix code that leaves no index without a codeword: of two symbols neither
\* codeword begins the other, and every index begins with its cell's.
PrefixCode(cells, log) ==
  /\ \A s \in Coded(cells), r \in Coded(cells) :
       s # r => ~IsPrefix(Codeword(cells, log, s), Codeword(cells, log, r))
  /\ \A c \in DOMAIN cells :
       IsPrefix(Codeword(cells, log, cells[c].symbol), AsBits(c, log))

-----------------------------------------------------------------------------
(* The section. *)

CONSTANTS
  WrittenCounts,     \* how many weights a description writes
  OneStreamBytes,    \* payload of a one-stream section, after the tree
  FourStreamBytes,   \* and of a four-stream one
  JumpTableSizes,    \* what an entry of the jump table may say
  Regenerated,       \* Regenerated_Size
  SizeBits           \* width of the code's sizes: 64

JumpTableBytes == 6
StreamCount == 4
MinFourStreamPayload == JumpTableBytes + StreamCount

ASSUME LiteralsAssumption ==
  /\ \A S \in {WrittenCounts, OneStreamBytes, FourStreamBytes, JumpTableSizes, Regenerated} :
       S \subseteq Nat
  /\ SizeBits \in Nat \ {0}

VARIABLE l    \* the section: its tree, its shape, the stream being decoded

Total(sizes) == FoldLeft(LAMBDA sum, size : sum + size, 0, sizes)

NoLiterals ==
  [at |-> "off", why |-> "None", weights |-> <<>>, log |-> 0, cells |-> <<>>,
   payload |-> 0, size |-> 0, compressed |-> <<>>, regenerated |-> <<>>,
   s |-> 1, stream |-> 0, dst |-> 0, reader |-> Reader(<<>>), out |-> <<>>]
InitLiterals ==
  \E count \in WrittenCounts : \E written \in [1..count -> 0 .. MaxTableLog + 1] :
    l = [NoLiterals EXCEPT !.at = "weights", !.weights = written]

RefuseLiterals(why) == l' = [l EXCEPT !.at = "refused", !.why = why]

ReadWeights ==
  /\ l.at = "weights"
  /\ IF WeightsWhy(l.weights) # "None" THEN RefuseLiterals(WeightsWhy(l.weights))
     ELSE l' = [l EXCEPT !.at = "build", !.log = TableLog(l.weights),
                         !.weights = Weights(l.weights)]
BuildTable ==
  /\ l.at = "build"
  /\ IF HufBuildWhy(l.weights, l.log) # "None"
     THEN RefuseLiterals(HufBuildWhy(l.weights, l.log))
     ELSE l' = [l EXCEPT !.at = "streams", !.weights = <<>>,
                         !.cells = HufBuildDTable(l.weights, l.log)]

\* One stream takes the payload and the literals whole.
OneStream(size, bytes) ==
  /\ l.at = "streams"
  /\ IF bytes = 0 THEN RefuseLiterals("StreamsAbsent")
     ELSE l' = [l EXCEPT !.at = "start", !.payload = bytes, !.size = size,
                         !.compressed = <<bytes>>, !.regenerated = <<size>>]

\* Mutant: a floor that admits the one size three quarters exceed.
MinFourStreamRegeneratedLow == 5
MinFourStreamRegenerated == 6
\* Four divide both, differently: the jump table gives three compressed sizes and
\* the last takes what is left; of the literals the first three take a quarter,
\* rounded up.
Segment(size) == (size + 3) \div 4
Segments(size) ==
  LET quarter == Segment(size)
  IN <<quarter, quarter, quarter, (size - 3 * quarter) % 2^SizeBits>>
FourStreamsWhy(size, bytes, jump) ==
  CASE bytes = 0 -> "StreamsAbsent"
    [] bytes # 0 /\ bytes < MinFourStreamPayload -> "FourStreamPayloadTooShort"
    [] bytes >= MinFourStreamPayload /\ size < MinFourStreamRegenerated
         -> "FourStreamTooFewLiterals"
    [] OTHER -> IF Total(jump) >= bytes - JumpTableBytes THEN "JumpTableOverruns" ELSE "None"
FourStreams(size, bytes, jump) ==
  /\ l.at = "streams"
  /\ IF FourStreamsWhy(size, bytes, jump) # "None"
     THEN RefuseLiterals(FourStreamsWhy(size, bytes, jump))
     ELSE l' = [l EXCEPT !.at = "start", !.payload = bytes, !.size = size,
                  !.stream = JumpTableBytes, !.compressed = Append(jump, bytes - JumpTableBytes - Total(jump)),
                  !.regenerated = Segments(size)]

\* A stream starts at its own bytes, whatever they are.
StartStream(src) ==
  /\ l.at = "start" /\ Len(src) = l.compressed[l.s]
  /\ LET reader == Reader(src) IN
     l' = IF StartWhy(reader) # "None"
          THEN [l EXCEPT !.at = "refused", !.why = "StreamTruncated", !.reader = reader]
          ELSE [l EXCEPT !.at = "decode", !.reader = Start(reader), !.out = <<>>]

\* A symbol: the peek is as deep as the tree, the read as long as the code.
DecodeSymbol ==
  LET cell == l.cells[PeekBits(l.reader, l.log)] IN
  /\ l.at = "decode" /\ Len(l.out) < l.regenerated[l.s]
  /\ IF ReadWhy(l.reader, cell.nb_bits) # "None" THEN RefuseLiterals("StreamTruncated")
     ELSE l' = [l EXCEPT !.reader = AfterRead(@, cell.nb_bits),
                         !.out = Append(@, cell.symbol)]
EndStream ==
  /\ l.at = "decode" /\ Len(l.out) = l.regenerated[l.s]
  /\ IF ~AtEnd(l.reader) THEN RefuseLiterals("StreamNotConsumed")
     ELSE l' = [l EXCEPT !.at = "ended"]
\* The next stream begins behind this one's bytes, and writes behind its literals.
NextStream ==
  /\ l.at = "ended" /\ l.s < Len(l.compressed)
  /\ l' = [l EXCEPT !.at = "start", !.s = @ + 1, !.reader = NoLiterals.reader, !.out = <<>>,
                    !.stream = @ + l.compressed[l.s], !.dst = @ + l.regenerated[l.s]]

Jumps == [1 .. StreamCount - 1 -> JumpTableSizes]
Streams(bytes) == [1..bytes -> Byte]
NextLiterals ==
  \/ ReadWeights
  \/ BuildTable
  \/ \E size \in Regenerated, bytes \in OneStreamBytes : OneStream(size, bytes)
  \/ \E size \in Regenerated, bytes \in FourStreamBytes, jump \in Jumps :
       FourStreams(size, bytes, jump)
  \/ l.at = "start" /\ \E src \in Streams(l.compressed[l.s]) : StartStream(src)
  \/ DecodeSymbol
  \/ EndStream
  \/ NextStream

-----------------------------------------------------------------------------
(* Properties. *)

\* The weights a description gets accepted with close the tree: the build refuses
\* none of them, the codes form a prefix code without a hole, and the leaves at the
\* deepest rank pair up (the parity zstd_huf.h leaves unchecked as unreachable).
TreeIsPrefixCode ==
  /\ l.at = "build" => /\ HufBuildWhy(l.weights, l.log) = "None"
                       /\ Cardinality(OfWeight(l.weights, 1)) % 2 = 0
  /\ l.at = "streams" => PrefixCode(l.cells, l.log)

\* The codewords of some symbols, one after another.
Encoded(symbols) ==
  FlattenSeq([i \in DOMAIN symbols |-> Codeword(l.cells, l.log, symbols[i])])
\* The streams divide the payload and the literals without a byte over or short: where
\* one begins, in either, what is left is what it and those after it are owed; and the
\* last of them is never empty. A stream is accepted exactly when its live bits
\* are the codewords of as many literals as its segment is owed, which are then the
\* ones it gave: refused, no codeword follows those read, or bits follow the last.
LiteralsAreStreams ==
  LET owed == l.regenerated[l.s]
      live == LiveBits(l.reader.src)
      left(sizes) == Total(SubSeq(sizes, l.s, Len(sizes))) IN
  /\ l.compressed # <<>> =>
       /\ l.stream + left(l.compressed) = l.payload
       /\ l.dst + left(l.regenerated) = l.size
       /\ l.compressed[Len(l.compressed)] > 0
  /\ l.at = "ended" => Len(l.out) = owed /\ Encoded(l.out) = live
  /\ l.why = "StreamTruncated" /\ l.reader.started =>
       /\ IsPrefix(Encoded(l.out), live)
       /\ \A s \in Coded(l.cells) : ~IsPrefix(Encoded(Append(l.out, s)), live)
  /\ l.why = "StreamNotConsumed" =>
       Len(l.out) = owed /\ IsStrictPrefix(Encoded(l.out), live)
=============================================================================
