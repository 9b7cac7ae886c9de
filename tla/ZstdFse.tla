------------------------------- MODULE ZstdFse -------------------------------
(***************************************************************************)
(* What the entropy-coded streams of Zstandard are read with: the backward *)
(* bit reader (src/zstd_bitstream.h) and the FSE decoding table            *)
(* (ZstdFseBuildDTable, src/zstd_fse.h).                                   *)
(***************************************************************************)
EXTENDS Integers, Sequences, FiniteSets
LOCAL INSTANCE SequencesExt
LOCAL INSTANCE FiniteSetsExt

CONSTANT BitsPerByte    \* bits of a byte: 8

ASSUME BitsAssumption == BitsPerByte \in Nat \ {0}

\* The bit reader. The highest set bit of the last byte marks the start, and the
\* bits below it, then those of the bytes before, are read most significant first.
\* A read past the last bit refuses, and so does every read after it.
Byte == 0 .. 2^BitsPerByte - 1
HighestSetBit(v) == CHOOSE b \in 0..v : 2^b <= v /\ v < 2^(b + 1)

\* A reader over a sequence of bytes.
Reader(src) ==
  [src |-> src, started |-> FALSE, marker |-> 0, total |-> 0, read |-> 0, overrun |-> FALSE]

StartWhy(r) ==
  CASE r.started -> "None"
    [] ~r.started /\ r.src = <<>> -> "EmptyStream"
    [] ~r.started /\ r.src # <<>> ->
         IF r.src[Len(r.src)] = 0 THEN "NoStartMarker" ELSE "None"
Start(r) ==
  IF r.started \/ StartWhy(r) # "None" THEN r
  ELSE LET marker == HighestSetBit(r.src[Len(r.src)]) IN
       [r EXCEPT !.started = TRUE, !.marker = marker, !.read = 0,
                 !.total = (Len(r.src) - 1) * BitsPerByte + marker]

BitsRemaining(r) == r.total - r.read
AtEnd(r) == r.read = r.total

\* The live bit at an index, in the order bits are consumed.
BitAt(r, index) ==
  LET below == index - r.marker IN
  IF index < r.marker
    THEN (r.src[Len(r.src)] \div 2^(r.marker - 1 - index)) % 2
    ELSE (r.src[Len(r.src) - 1 - below \div BitsPerByte]
            \div 2^(BitsPerByte - 1 - (below % BitsPerByte))) % 2

\* The number `count' bits from index on make; past the end they are zero.
BitsFrom(r, index, count) ==
  LET Acc[n \in 0..count] ==
        IF n = 0 THEN 0
        ELSE 2 * Acc[n - 1] + (IF index + n - 1 < r.total THEN BitAt(r, index + n - 1) ELSE 0)
  IN  Acc[count]
PeekBits(r, count) == BitsFrom(r, r.read, count)

\* A read: what it refuses on, its value, and the reader it leaves.
ReadWhy(r, count) ==
  CASE r.overrun -> "AlreadyOverrun"
    [] ~r.overrun /\ ~r.started -> "NotStarted"
    [] ~r.overrun /\ r.started /\ count > BitsRemaining(r) -> "PastStart"
    [] OTHER -> "None"
ReadValue(r, count) == IF ReadWhy(r, count) = "None" THEN PeekBits(r, count) ELSE 0
AfterRead(r, count) ==
  CASE ReadWhy(r, count) = "None" -> [r EXCEPT !.read = @ + count]
    [] ReadWhy(r, count) = "PastStart" -> [r EXCEPT !.overrun = TRUE]
    [] OTHER -> r

\* The same bits by definition: the bytes from the last to the first, each from
\* its top bit, without the marker and what is above it.
LiveBits(src) ==
  LET bit(i) == (src[Len(src) - (i - 1) \div BitsPerByte]
                   \div 2^(BitsPerByte - 1 - ((i - 1) % BitsPerByte))) % 2
      all == [i \in 1 .. Len(src) * BitsPerByte |-> bit(i)]
      marker == CHOOSE i \in DOMAIN all : all[i] = 1 /\ \A k \in 1 .. i - 1 : all[k] = 0
  IN  SubSeq(all, marker + 1, Len(all))
\* A number as that many bits, most significant first.
AsBits(value, count) == [i \in 1..count |-> (value \div 2^(count - i)) % 2]

-----------------------------------------------------------------------------
\* The table. A distribution over 2^log slots is spread over the cells at a fixed
\* odd stride, around the cells reserved at the top for the symbols of probability
\* "less than one", and each cell learns how many bits move its state on and where.
\* A distribution is a function from the symbols 0..n-1 to counts, -1 standing for
\* "less than one".
SpreadStepBias == 3

Magnitude(count) == IF count < 0 THEN 1 ELSE count
Claimed(counts) == MapThenSumSet(LAMBDA s : Magnitude(counts[s]), DOMAIN counts)
\* What the build accepts: the magnitudes fill the table exactly.
Normalized(counts, log) ==
  (\A s \in DOMAIN counts : counts[s] >= -1) /\ Claimed(counts) = 2^log

\* The last cell the spread may touch: those above are reserved, from the top
\* down, for the symbols of probability "less than one".
LessThanOne(counts) == {s \in DOMAIN counts : counts[s] < 0}
HighThreshold(counts, log) == 2^log - 1 - Cardinality(LessThanOne(counts))
Reserved(counts, log) ==
  [s \in LessThanOne(counts) |->
     2^log - 1 - Cardinality({r \in LessThanOne(counts) : r < s})]

\* The cells of the spread in the order it visits them: a stride that is odd, and
\* so visits every cell, over the reserved ones.
SpreadStep(log) == 2^log \div 2 + 2^log \div 8 + SpreadStepBias
Positions(counts, log) ==
  LET high == HighThreshold(counts, log)
      visited == [k \in 1 .. 2^log |-> ((k - 1) * SpreadStep(log)) % 2^log]
  IN  SelectSeq(visited, LAMBDA cell : cell <= high)
\* The symbols' slots, in the order they are laid down.
Slots(counts) ==
  FlattenSeq([i \in 1 .. Cardinality(DOMAIN counts) |->
                [k \in 1 .. (IF counts[i - 1] > 0 THEN counts[i - 1] ELSE 0) |-> i - 1]])

SymbolAt(counts, log) ==
  LET reserved == Reserved(counts, log)
      positions == Positions(counts, log)
      slots == Slots(counts)
  IN [cell \in 0 .. 2^log - 1 |->
        IF \E k \in DOMAIN slots : positions[k] = cell
        THEN slots[CHOOSE k \in DOMAIN slots : positions[k] = cell]
        ELSE CHOOSE s \in LessThanOne(counts) : reserved[s] = cell]

MissingBits(log, number) == log - HighestSetBit(number)
\* Mutant: the number is taken after it was handed out.
NewStateOfNext(log, number) == (number + 1) * 2^MissingBits(log, number) - 2^log
NewState(log, number) == number * 2^MissingBits(log, number) - 2^log
\* Cells of a symbol are numbered from its count on; the number's width says how
\* many bits are missing to a full state.
HandOut(counts, log, symbols) ==
  LET next(cell) == Magnitude(counts[symbols[cell]])
                      + Cardinality({c \in 0 .. cell - 1 : symbols[c] = symbols[cell]})
      handed(cell, number) ==
        [symbol |-> symbols[cell], nb_bits |-> MissingBits(log, number),
         new_state |-> NewState(log, number)]
  IN [cell \in 0 .. 2^log - 1 |-> handed(cell, next(cell))]
FseBuildDTable(counts, log) == HandOut(counts, log, SymbolAt(counts, log))

\* The one-cell table of an RLE description.
RleTable(s) == [cell \in {0} |-> [symbol |-> s, nb_bits |-> 0, new_state |-> 0]]

-----------------------------------------------------------------------------
(* What a table is for: whatever state a symbol must lead to, exactly one of
   its cells leads there, so that an encoder working backwards always has a
   cell to come from and the decoder returns over it. *)

Present(counts) == {s \in DOMAIN counts : counts[s] # 0}
CellsOf(cells, s) == {c \in DOMAIN cells : cells[c].symbol = s}
LeadsTo(cell, state) == cell.new_state <= state /\ state < cell.new_state + 2^cell.nb_bits
\* The cell a symbol is decoded from when the state after it is the one given.
Before(cells, s, state) == CHOOSE c \in DOMAIN cells : cells[c].symbol = s /\ LeadsTo(cells[c], state)
Invertible(counts, cells) ==
  \A s \in Present(counts) :
    LET own == CellsOf(cells, s) IN
    /\ Cardinality(own) = Magnitude(counts[s])
    /\ \A state \in DOMAIN cells :
         Cardinality({c \in own : LeadsTo(cells[c], state)}) = 1

-----------------------------------------------------------------------------
(* A Set_Compressed table description read field by field                  *)
(* (ZstdFseReadNCount): the accuracy log, then a probability per symbol in *)
(* a width that shrinks with the slots left, and two-bit runs of absent    *)
(* symbols. A field is peeked before it is known to be there: the bits     *)
(* past the end of the buffer read as zero.                                *)

CONSTANTS
  LogFields,        \* values of the accuracy-log field
  MinAccuracyLog,   \* what the field is biased by: 5
  MaxAccuracyLog,   \* the field's ceiling
  MaxSymbolValue,   \* the highest symbol of the alphabet
  BufferBits        \* lengths of the buffer, in bits

LogFieldBits == 4
RepeatFieldBits == 2
RepeatContinues == 3

ASSUME DistributionAssumption ==
  /\ LogFields \subseteq 0 .. 2^LogFieldBits - 1
  /\ MinAccuracyLog \in Nat /\ MaxAccuracyLog \in Nat /\ MaxSymbolValue \in Nat
  /\ BufferBits \subseteq Nat \ {0}

VARIABLE n    \* the reading: its place, the fields of the code's loop, the table

MaxSymbolCount == MaxSymbolValue + 1

\* The three distributions a section may name instead of describing one.
PredefinedCounts ==
  LET counted(list) == [s \in 0 .. Len(list) - 1 |-> list[s + 1]] IN
  { [log |-> 6, counts |-> counted(
      <<4, 3, 2, 2, 2, 2, 2, 2, 2, 2, 2, 2, 2, 1, 1, 1, 2, 2,
        2, 2, 2, 2, 2, 2, 2, 3, 2, 1, 1, 1, 1, 1, -1, -1, -1, -1>>)],
    [log |-> 5, counts |-> counted(
      <<1, 1, 1, 1, 1, 1, 2, 2, 2, 1, 1, 1, 1, 1,
        1, 1, 1, 1, 1, 1, 1, 1, 1, 1, -1, -1, -1, -1, -1>>)],
    [log |-> 6, counts |-> counted(
      <<1, 4, 3, 2, 2, 2, 2, 2, 2>> \o [i \in 1..37 |-> 1] \o [i \in 1..7 |-> -1])] }

NoDistribution ==
  [at |-> "off", why |-> "None", left |-> 0, log |-> 0, remaining |-> 1, threshold |-> 0,
   field_bits |-> 0, symbol_count |-> 0, counts |-> [s \in 0..MaxSymbolValue |-> 0],
   symbols |-> <<>>, cells |-> <<>>]
InitDescribed ==
  \E bits \in BufferBits : n = [NoDistribution EXCEPT !.at = "log", !.left = bits]
InitPredefined ==
  \E p \in PredefinedCounts :
    n = [NoDistribution EXCEPT !.at = "counted", !.log = p.log, !.counts = p.counts]
InitDistribution == InitDescribed \/ InitPredefined

RefuseDistribution(why) == n' = [n EXCEPT !.at = "refused", !.why = why]
Available(count) == count <= n.left
\* What peeking that many bits can show: zeros past the end.
Peeked(count) == 0 .. 2^(IF Available(count) THEN count ELSE n.left) - 1

ReadLog(field) ==
  LET log == field + MinAccuracyLog IN
  /\ n.at = "log" /\ field \in Peeked(LogFieldBits)
  /\ IF ~Available(LogFieldBits) THEN RefuseDistribution("DescriptionTruncated")
     ELSE IF log > MaxAccuracyLog THEN RefuseDistribution("AccuracyLogTooLarge")
     ELSE n' = [n EXCEPT !.at = "probability", !.left = @ - LogFieldBits, !.log = log,
                         !.remaining = 2^log + 1, !.threshold = 2^log, !.field_bits = log + 1]

\* A run of absent symbols: its code says how many, and whether another follows.
ReadRun(repeat) ==
  /\ n.at = "run" /\ repeat \in Peeked(RepeatFieldBits)
  /\ IF ~Available(RepeatFieldBits) THEN RefuseDistribution("DescriptionTruncated")
     ELSE IF n.symbol_count + repeat >= MaxSymbolCount THEN RefuseDistribution("SymbolPastMax")
     ELSE n' = [n EXCEPT !.left = @ - RepeatFieldBits, !.symbol_count = @ + repeat,
                         !.at = IF repeat = RepeatContinues THEN "run" ELSE "probability"]

SmallLimit == 2 * n.threshold - 1 - n.remaining
\* A field's width and the value stored in it, one more than the probability.
FieldOf(peeked) ==
  LET narrow == peeked % n.threshold
      wide == peeked % (2 * n.threshold)
  IN IF narrow < SmallLimit THEN [value |-> narrow, width |-> n.field_bits - 1]
     ELSE [value |-> IF wide >= n.threshold THEN wide - SmallLimit ELSE wide,
           width |-> n.field_bits]

\* The loop goes on while slots and symbols are left; it must end on none left.
AfterField(e) ==
  LET narrower == HighestSetBit(e.remaining) + 1
      shrunk == IF 1 < e.remaining /\ e.remaining < e.threshold
                THEN [e EXCEPT !.field_bits = narrower, !.threshold = 2^(narrower - 1)] ELSE e
  IN CASE e.remaining = 1 -> [e EXCEPT !.at = "counted"]
       [] e.remaining # 1 /\ (e.remaining < 1 \/ e.symbol_count >= MaxSymbolCount)
            -> [e EXCEPT !.at = "refused", !.why = "SymbolPastMax"]
       [] OTHER -> [shrunk EXCEPT !.at =
                      IF e.counts[e.symbol_count - 1] = 0 THEN "run" ELSE "probability"]
ReadProbability(peeked) ==
  LET field == FieldOf(peeked)
      probability == field.value - 1
  IN
  /\ n.at = "probability" /\ peeked \in Peeked(n.field_bits)
  /\ IF ~Available(field.width) THEN RefuseDistribution("DescriptionTruncated")
     ELSE n' = AfterField([n EXCEPT !.left = @ - field.width,
                                    !.remaining = @ - Magnitude(probability),
                                    !.counts[n.symbol_count] = probability,
                                    !.symbol_count = @ + 1])

\* The table of an exact distribution: its symbols first, then each cell's move.
Spread ==
  /\ n.at = "counted"
  /\ IF ~Normalized(n.counts, n.log) THEN RefuseDistribution("BuildCountsNotNormalized")
     ELSE n' = [n EXCEPT !.at = "spread", !.symbols = SymbolAt(n.counts, n.log)]
HandOutStates ==
  /\ n.at = "spread"
  /\ n' = [n EXCEPT !.at = "built", !.cells = HandOut(n.counts, n.log, n.symbols)]

NextDistribution ==
  \/ \E field \in LogFields : ReadLog(field)
  \/ \E repeat \in 0 .. 2^RepeatFieldBits - 1 : ReadRun(repeat)
  \/ \E peeked \in 0 .. 2^(MaxAccuracyLog + 1) - 1 : ReadProbability(peeked)
  \/ Spread
  \/ HandOutStates

-----------------------------------------------------------------------------
(* Properties. *)

\* The table of a description or of a predefined distribution can be walked back:
\* exactly one cell of each present symbol leads to each state, so that an encoder
\* always finds the one cell to be in. To that end no field can take more slots than
\* are left, whatever its bits and whatever lies past the buffer (the reason there
\* is no rung for an overshoot), no symbol is stored past the alphabet, an accepted
\* description fills the table exactly so that the build refuses none of them, and
\* the spread leaves no cell out and lays none over.
FseTableInverts ==
  /\ n.remaining >= 1
  /\ n.at \in {"probability", "run"} =>
       n.symbol_count < MaxSymbolCount /\ Claimed(n.counts) + n.remaining = 2^n.log + 1
  /\ n.why # "BuildCountsNotNormalized"
  /\ n.at = "built" => Invertible(n.counts, n.cells)
=============================================================================
