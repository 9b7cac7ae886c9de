--------------------------- MODULE ZstdSequences ---------------------------
(***************************************************************************)
(* The FSE-coded streams of a block: its sequences, decoded from three     *)
(* states over one backward stream, a tile at a time (src/zstd_seq.h); and *)
(* the Huffman weights, decoded from two states in turn until the bits     *)
(* run out (ZstdFseDecode2State, src/zstd_fse.h).                          *)
(***************************************************************************)
EXTENDS ZstdFse
LOCAL INSTANCE SequencesExt

CONSTANTS
  TableChoices,      \* the tables of a block: records litlen, offset, matchlen
  SequenceCounts,    \* Number_of_Sequences
  SequenceBytes,     \* lengths of the bitstream
  TileSizes,         \* how many sequences a call asks for
  WeightTables,      \* the tables of a weight description
  WeightBytes,       \* lengths of its stream
  WeightCapacities   \* how many weights the caller has room for

ASSUME SequencesAssumption ==
  /\ \A S \in {SequenceCounts, TileSizes} : S \subseteq Nat \ {0}
  /\ \A S \in {SequenceBytes, WeightBytes, WeightCapacities} : S \subseteq Nat

VARIABLES
  q,    \* a block's sequences: the cursor, the call, what came out
  w     \* a weight run: its reader, its two states, what came out

-----------------------------------------------------------------------------
(* Codes and lengths: a code stands for a run of lengths, told apart by its *)
(* extra bits.                                                              *)

SymbolMax == [litlen |-> 35, offset |-> 31, matchlen |-> 52]
MinMatchLength == 3
Extra(code, direct, middle, bias) ==
  IF code < direct THEN 0
  ELSE IF code >= direct + Len(middle) THEN code - bias
  ELSE middle[code - direct + 1]
LitLenExtraBits(code) == Extra(code, 16, <<1, 1, 1, 1, 2, 2, 3, 3, 4>>, 19)
MatchLenExtraBits(code) == Extra(code, 32, <<1, 1, 1, 1, 2, 2, 3, 3, 4, 4, 5>>, 36)
ExtraBits(field, code) ==
  CASE field = "litlen" -> LitLenExtraBits(code)
    [] field = "matchlen" -> MatchLenExtraBits(code)
    [] field = "offset" -> code
Baseline(field, code) ==
  LET Sum[c \in 0..code] == IF c = 0 THEN 0 ELSE Sum[c - 1] + 2^ExtraBits(field, c - 1) IN
  CASE field = "litlen" -> Sum[code]
    [] field = "matchlen" -> MinMatchLength + Sum[code]
    [] field = "offset" -> 2^code

-----------------------------------------------------------------------------
(* Sequences. *)

NoSequences == [at |-> "off", why |-> "None", tables |-> <<>>, total |-> 0, emitted |-> 0,
                reader |-> Reader(<<>>), states |-> <<>>, want |-> 0, out |-> <<>>]
InitSequences ==
  \E tables \in TableChoices, total \in SequenceCounts, bytes \in SequenceBytes :
    \E src \in [1..bytes -> Byte] :
      q = [NoSequences EXCEPT !.at = "begin", !.tables = tables, !.total = total,
                              !.reader = Reader(src)]

RefuseSequences(why) == q' = [q EXCEPT !.at = "refused", !.why = why]

\* Reads of several fields, one after another: the reader they leave and the values
\* they give, up to the first that is refused.
ReadFields(reader, fields, width) ==
  FoldLeft(LAMBDA acc, field :
             IF acc.why # "None" THEN acc
             ELSE [why |-> ReadWhy(acc.reader, width[field]),
                   reader |-> AfterRead(acc.reader, width[field]),
                   values |-> [acc.values EXCEPT ![field] =
                                 ReadValue(acc.reader, width[field])]],
           [why |-> "None", reader |-> reader,
            values |-> [litlen |-> 0, offset |-> 0, matchlen |-> 0]], fields)

InitOrder == <<"litlen", "offset", "matchlen">>
ExtraOrder == <<"offset", "matchlen", "litlen">>
\* Mutant: states move in the order they were initialised.
UpdateOrderOfInit == <<"litlen", "offset", "matchlen">>
UpdateOrder == <<"litlen", "matchlen", "offset">>

Begin ==
  LET widths == [f \in DOMAIN q.tables |-> q.tables[f].log]
      first == ReadFields(Start(q.reader), InitOrder, widths) IN
  /\ q.at = "begin"
  /\ IF StartWhy(q.reader) # "None" THEN RefuseSequences("BitstreamMissing")
     ELSE IF first.why # "None" THEN RefuseSequences("StateInitTruncated")
     ELSE q' = [q EXCEPT !.at = "call", !.reader = first.reader, !.states = first.values]

\* A call asks for some sequences and gets as many as are left.
StartTile(want) ==
  /\ q.at = "call"
  /\ q' = [q EXCEPT !.at = "decode", !.want = Min({want, q.total - q.emitted})]

\* What the three states stand for, without moving them.
CellAt(field) == q.tables[field].cells[q.states[field]]
Codes == [f \in DOMAIN q.tables |-> CellAt(f).symbol]
Decoded(extra) ==
  [f \in DOMAIN q.tables |-> Baseline(f, Codes[f]) + extra[f]]
\* One sequence: its extra bits, then the states' bits unless it is the last.
DecodeSequence ==
  LET widths == [f \in DOMAIN q.tables |-> ExtraBits(f, Codes[f])]
      extra == ReadFields(q.reader, ExtraOrder, widths)
      moves == [f \in DOMAIN q.tables |-> CellAt(f).nb_bits]
      update == IF q.emitted + 1 = q.total
                THEN [why |-> "None", reader |-> extra.reader, states |-> q.states]
                ELSE LET u == ReadFields(extra.reader, UpdateOrder, moves) IN
                     [why |-> u.why, reader |-> u.reader,
                      states |-> [f \in DOMAIN q.tables |->
                                    CellAt(f).new_state + u.values[f]]]
  IN
  /\ q.at = "decode" /\ q.want > 0
  /\ IF \E f \in DOMAIN q.tables : Codes[f] > SymbolMax[f]
     THEN RefuseSequences("DecodedSymbolPastMax")
     ELSE IF extra.why # "None" \/ update.why # "None"
     THEN RefuseSequences("SequenceTruncated")
     ELSE q' = [q EXCEPT !.reader = update.reader, !.states = update.states,
                         !.out = Append(@, Decoded(extra.values)),
                         !.emitted = @ + 1, !.want = @ - 1]

\* The tile that emits the last sequence holds the stream to ending there.
EndTile ==
  /\ q.at = "decode" /\ q.want = 0
  /\ IF q.emitted < q.total THEN q' = [q EXCEPT !.at = "call"]
     ELSE IF ~AtEnd(q.reader) THEN RefuseSequences("BitstreamNotConsumed")
     ELSE q' = [q EXCEPT !.at = "finished"]

NextSequences == \/ Begin
                 \/ \E want \in TileSizes : StartTile(want)
                 \/ DecodeSequence
                 \/ EndTile

-----------------------------------------------------------------------------
(* Weights. *)

NoWeights == [at |-> "off", why |-> "None", table |-> <<>>, capacity |-> 0,
              reader |-> Reader(<<>>), states |-> <<>>, out |-> <<>>]
InitWeights ==
  \E table \in WeightTables, capacity \in WeightCapacities, bytes \in WeightBytes :
    \E src \in [1..bytes -> Byte] :
      w = [NoWeights EXCEPT !.at = "init", !.table = table, !.capacity = capacity,
                            !.reader = Reader(src)]

RefuseWeights(why) == w' = [w EXCEPT !.at = "refused", !.why = why]

\* The reader is started and gives both states.
InitStates ==
  LET log == w.table.log
      started == Start(w.reader)
      after == AfterRead(started, log) IN
  /\ w.at = "init"
  /\ IF StartWhy(w.reader) # "None" THEN RefuseWeights(StartWhy(w.reader))
     ELSE IF ReadWhy(started, log) # "None" \/ ReadWhy(after, log) # "None"
     THEN RefuseWeights("StateInitTruncated")
     ELSE w' = [w EXCEPT !.at = "run", !.reader = AfterRead(after, log),
                         !.states = <<ReadValue(started, log), ReadValue(after, log)>>]

\* Mutant: a move is charged when it would leave a bit, not when the bits are there.
PaysEarly(cell) == cell.nb_bits < BitsRemaining(w.reader)
Pays(cell) == cell.nb_bits <= BitsRemaining(w.reader)
\* The states take turns. One whose move the bits no longer pay for is not moved: its
\* symbol is followed by the other state's, which is the last.
NextSymbol ==
  LET active == (Len(w.out) % 2) + 1
      cell == w.table.cells[w.states[active]]
      other == w.table.cells[w.states[3 - active]] IN
  /\ w.at = "run"
  /\ IF Len(w.out) = w.capacity THEN RefuseWeights("OutputFull")
     ELSE IF Pays(cell)
     THEN w' = [w EXCEPT !.reader = AfterRead(@, cell.nb_bits),
                         !.states[active] = cell.new_state + ReadValue(w.reader, cell.nb_bits),
                         !.out = Append(@, cell.symbol)]
     ELSE IF Len(w.out) + 1 = w.capacity THEN RefuseWeights("OutputFull")
     ELSE w' = [w EXCEPT !.at = "finished", !.out = @ \o <<cell.symbol, other.symbol>>]

NextWeights == InitStates \/ NextSymbol

-----------------------------------------------------------------------------
(* The streams by definition: an encoder starts from the last states and   *)
(* works backwards, each symbol's state being the one of its cells that    *)
(* leads to the state that follows.                                        *)

\* The states a field's codes pass through, the last one given.
StatesOf(cells, codes, last) ==
  LET Back[i \in 1 .. Len(codes)] ==
        IF i = Len(codes) THEN last ELSE Before(cells, codes[i], Back[i + 1])
  IN  Back
\* The bits that take a state to the next.
MoveBits(cells, from, to) == AsBits(to - cells[from].new_state, cells[from].nb_bits)

\* The code of a length, and its extra bits.
CodeOf(field, value) ==
  CHOOSE c \in 0 .. SymbolMax[field] :
    Baseline(field, c) <= value /\ value < Baseline(field, c) + 2^ExtraBits(field, c)
ExtraOf(field, value) ==
  AsBits(value - Baseline(field, CodeOf(field, value)), ExtraBits(field, CodeOf(field, value)))

EncodedSequences(tables, out, last) ==
  LET count == Len(out)
      passed == [f \in DOMAIN tables |->
                   StatesOf(tables[f].cells, [i \in 1..count |-> CodeOf(f, out[i][f])], last[f])]
      initial(f) == AsBits(passed[f][1], tables[f].log)
      moved(f, i) == MoveBits(tables[f].cells, passed[f][i], passed[f][i + 1])
      sequence(i) ==
        ExtraOf("offset", out[i].offset) \o ExtraOf("matchlen", out[i].matchlen)
          \o ExtraOf("litlen", out[i].litlen)
          \o (IF i = count THEN <<>>
              ELSE moved("litlen", i) \o moved("matchlen", i) \o moved("offset", i))
  IN initial("litlen") \o initial("offset") \o initial("matchlen")
       \o FlattenSeq([i \in 1..count |-> sequence(i)])

\* Alternate symbols belong to alternate states.
EncodedWeights(table, out, last) ==
  LET count == Len(out)
      every(from) == [i \in 1 .. (count - from) \div 2 + 1 |-> out[2 * i + from - 2]]
      lastOf(from) == last[from]
      odd == StatesOf(table.cells, every(1), lastOf(1))
      even == StatesOf(table.cells, every(2), lastOf(2))
      passed == [i \in 1..count |-> IF i % 2 = 1 THEN odd[(i + 1) \div 2] ELSE even[i \div 2]]
  IN AsBits(passed[1], table.log) \o AsBits(passed[2], table.log)
       \o FlattenSeq([i \in 1 .. count - 2 |-> MoveBits(table.cells, passed[i], passed[i + 2])])

-----------------------------------------------------------------------------
(* Properties. *)

\* An accepted stream is, bit for bit, the encoding of the sequences it gave: every
\* field read in its own order, no state moved after the last sequence, nothing
\* left over, wherever the calls cut the decode.
SequencesAreTheStream ==
  q.at = "finished" =>
    /\ Len(q.out) = q.total
    /\ EncodedSequences(q.tables, q.out, q.states) = LiveBits(q.reader.src)

\* An accepted weight stream begins with the encoding of the weights it gave, and
\* what follows could not have paid for one more: no bit is made up for the last
\* move.
WeightsAreTheStream ==
  w.at = "finished" =>
    LET live == LiveBits(w.reader.src)
        encoded == EncodedWeights(w.table, w.out, w.states)
        spent == (Len(w.out) % 2) + 1 IN
    /\ Len(w.out) <= w.capacity
    /\ IsPrefix(encoded, live)
    /\ Len(live) - Len(encoded) < w.table.cells[w.states[spent]].nb_bits
=============================================================================
