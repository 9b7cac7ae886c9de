----------------------------- MODULE ZstdBlock -----------------------------
(***************************************************************************)
(* One Zstd block as both decoders read it: literals section, tables,      *)
(* repeat offsets (zstd_repcode.h), prefix sum and execution               *)
(* (zstd_exec.h); and the host's decode of a whole block (zstd_blocks.h).  *)
(* A block comes parsed: its entropy-coded parts are the literals and      *)
(* sequences they stand for, or the part that is malformed ("fault").      *)
(* Memory is one map of addresses to bytes, so that `literals` is an       *)
(* address on the host, where it is a buffer, and on the device, where it  *)
(* is the tail of the destination.                                         *)
(***************************************************************************)
EXTENDS Integers, Sequences, FiniteSets, SequencesExt

CONSTANTS kZstdBlockSizeCeiling, kZstdSeqMinMatchLength  \* 128 KB and 3

ASSUME CeilingAssumption ==
  kZstdBlockSizeCeiling \in Nat /\ kZstdSeqMinMatchLength \in Nat \ {0}

Fields == {"litlen", "offset", "matchlen"}
Tables == Fields \cup {"literals"}
Junk == <<0, 0>>

Lower(a, b) == IF a < b THEN a ELSE b
BlockMaximum(window) == Lower(window, kZstdBlockSizeCeiling)

-----------------------------------------------------------------------------
(* The frame state: a table is present or not, and its cells hold what the *)
(* chunk `of` described, whatever the flag says.                           *)

NoTable == [present |-> FALSE, of |-> 0]
RepcodeInit == <<1, 4, 8>>
\* Mutant: the literals-length table survives into the next frame.
FrameStateInitForgetting(tables) ==
  [t \in Tables |-> IF t = "litlen" THEN tables[t] ELSE [tables[t] EXCEPT !.present = FALSE]]
FrameStateInit(tables) == [t \in Tables |-> [tables[t] EXCEPT !.present = FALSE]]

-----------------------------------------------------------------------------
(* Literals section and sequence tables. *)

\* Byte j of block b's literals; an RLE section repeats its first.
LiteralByte(blk, b, j) == <<b, IF blk.lit.type = "rle" THEN 1 ELSE j + 1>>

LiteralsStatus(blk, window, tables, capacity) ==
  IF blk.lit.size > BlockMaximum(window) THEN "CORRUPT_INPUT"
  ELSE IF blk.lit.size > capacity THEN "OUTPUT_TOO_SMALL"
  ELSE IF \/ blk.fault = "literals"
          \/ blk.lit.type = "treeless" /\ ~tables["literals"].present
       THEN "CORRUPT_INPUT" ELSE "OK"
DecodeLiterals(mem, blk, b, literals) ==
  [a \in DOMAIN mem |-> IF a \in literals..literals + blk.lit.size - 1
                        THEN LiteralByte(blk, b, a - literals) ELSE mem[a]]
AfterLiterals(blk, tables, chunk) ==
  IF blk.lit.type = "compressed"
  THEN [tables EXCEPT !["literals"] = [present |-> TRUE, of |-> chunk]] ELSE tables

\* Section header and the three descriptions, in order; no sequences, no tables.
\* No more sequences than their shortest matches would fill a block with.
CountFits(blk, window) == Len(blk.seqs) <= BlockMaximum(window) \div kZstdSeqMinMatchLength
FieldOrder == <<"litlen", "offset", "matchlen">>
Absent(blk, tables, i) == FieldOrder[i] \in blk.repeat /\ ~tables[FieldOrder[i]].present
TablesStatus(blk, window, tables) ==
  IF \/ ~CountFits(blk, window)
     \/ blk.fault = "tables"
     \/ blk.seqs # <<>> /\ \E i \in 1..3 : Absent(blk, tables, i)
  THEN "CORRUPT_INPUT" ELSE "OK"
\* The first `count` of the tables.
LoadTables(blk, tables, chunk, count) ==
  [t \in Tables |-> IF /\ blk.seqs # <<>> /\ t \notin blk.repeat
                       /\ \E i \in 1..count : t = FieldOrder[i]
                    THEN [present |-> TRUE, of |-> chunk] ELSE tables[t]]
\* How many a refused section may have loaded.
LoadedWhenRefused(blk, window, tables) ==
  {0} \cup {n \in 1..2 :
    /\ blk.seqs # <<>> /\ CountFits(blk, window)
    /\ \A i \in 1..n : ~Absent(blk, tables, i)
    /\ Absent(blk, tables, n + 1) \/ blk.fault = "tables"}

-----------------------------------------------------------------------------
(* Repeat offsets. *)

\* Which slot the value takes: 0..2, or 3 for none.
Taken(s) == IF s.offset_value > 3 THEN 3
            ELSE IF s.literals_length # 0 THEN s.offset_value - 1
            ELSE s.offset_value
Resolved(history, s) ==
  IF s.offset_value > 3 THEN s.offset_value - 3
  ELSE IF Taken(s) < 3 THEN history[Taken(s) + 1] ELSE history[1] - 1
Rotate(history, taken, offset) ==
  IF taken = 0 THEN history
  ELSE <<offset, history[1], IF taken = 1 THEN history[3] ELSE history[2]>>
Resolve(acc, s) ==
  LET offset == Resolved(acc.history, s) IN
  IF acc.status # "OK" \/ offset = 0 THEN [acc EXCEPT !.status = "CORRUPT_INPUT"]
  ELSE [acc EXCEPT !.history = Rotate(@, Taken(s), offset), !.offsets = Append(@, offset)]
ResolveAll(history, seqs) ==
  FoldLeft(Resolve, [status |-> "OK", history |-> history, offsets |-> <<>>], seqs)

\* The other side of the rule, as the worst-case generator of the benchmark has it
\* (bench_zstd.cpp): the code of an offset, 0 for none, and its own history after.
ResolveOffsetCode(history, offset, litlen) ==
  LET named == IF litlen = 0 THEN <<history[2], history[3], history[1] - 1>> ELSE history
  IN  IF offset = named[1] THEN 1 ELSE IF offset = named[2] THEN 2
      ELSE IF offset = named[3] THEN 3 ELSE 0
HistoryAfter(history, offset, litlen, code) ==
  LET slot == IF litlen = 0 THEN code ELSE code - 1
  IN  IF code = 0 THEN <<offset, history[1], history[2]>>
      ELSE IF slot = 3 THEN <<history[1] - 1, history[1], history[2]>>
      ELSE IF slot = 0 THEN history
      ELSE <<history[slot + 1], history[1], IF slot = 2 THEN history[2] ELSE history[3]>>

-----------------------------------------------------------------------------
(* The prefix sum, a tile at a time: destinations and literal cursors are  *)
(* the carry before each sequence and, last, after the tile.               *)

NoCarry == [at |-> 0, literals_used |-> 0]
PrefixSumTile(carry, seqs, literals_size, maximum) ==
  LET Step(acc, s) ==
        LET c == Last(acc.carries)
            span == s.literals_length + s.match_length IN
        IF \/ acc.status # "OK" \/ span > maximum - c.at
           \/ s.literals_length > literals_size - c.literals_used
        THEN [acc EXCEPT !.status = "CORRUPT_INPUT"]
        ELSE [acc EXCEPT !.carries = Append(@, [at |-> c.at + span,
                             literals_used |-> c.literals_used + s.literals_length])]
  IN FoldLeft(Step, [status |-> "OK", carries |-> <<carry>>], seqs)

PrefixSumFinish(carry, literals_size, maximum) ==
  LET tail == literals_size - carry.literals_used IN
  [status |-> IF tail > maximum - carry.at THEN "CORRUPT_INPUT" ELSE "OK",
   block_size |-> carry.at + tail]

-----------------------------------------------------------------------------
(* Execution. Bytes move one at a time, upwards: a match may read what it  *)
(* has just written.                                                       *)

CopyBytes(mem, to, from, count) ==
  FoldLeft(LAMBDA m, i : [m EXCEPT ![to + i - 1] = m[from + i - 1]],
           mem, [i \in 1..count |-> i])

\* One sequence, from carry c to carry d.
ExecuteSequence(mem, s, c, d, offset, literals, block_size, window, base) ==
  LET to == base + c.at + s.literals_length
      span == s.literals_length + s.match_length
      copied == CopyBytes(mem, base + c.at, literals + c.literals_used, s.literals_length)
  IN IF c.at > block_size \/ span > block_size - c.at \/ c.at + span # d.at
     THEN [status |-> "CORRUPT_INPUT", mem |-> mem]
     ELSE IF offset = 0 \/ offset > window \/ offset > to
     THEN [status |-> "CORRUPT_INPUT", mem |-> copied]
     ELSE [status |-> "OK", mem |-> CopyBytes(copied, to, to - offset, s.match_length)]

ExecuteAll(mem, seqs, carries, offsets, literals, block_size, window, base) ==
  LET Step(acc, n) ==
        IF acc.status # "OK" THEN acc
        ELSE ExecuteSequence(acc.mem, seqs[n], carries[n], carries[n + 1], offsets[n],
                             literals, block_size, window, base)
  IN FoldLeft(Step, [status |-> "OK", mem |-> mem], [n \in 1..Len(seqs) |-> n])

-----------------------------------------------------------------------------
(* The host's decode of one block: every sequence at once, the literals in *)
(* a buffer of their own, above the destination. Its storage holds a block *)
(* of the maximum size, so that it never refuses for want of it.           *)

HostCompressed(f, header, blk, b, chunk, buffer) ==
  LET maximum == BlockMaximum(header.window)
      staged == DecodeLiterals(f.mem, blk, b, buffer)
      lit == AfterLiterals(blk, f.tables, chunk)
      res == ResolveAll(f.repcodes, blk.seqs)
      sum == PrefixSumTile(NoCarry, blk.seqs, blk.lit.size, maximum)
      end == Last(sum.carries)
      fin == PrefixSumFinish(end, blk.lit.size, maximum)
      run == ExecuteAll(staged, blk.seqs, sum.carries, res.offsets, buffer,
                        fin.block_size, header.window, f.produced)
      Stop(status) == [f EXCEPT !.status = status]
  IN CASE LiteralsStatus(blk, header.window, f.tables, maximum) # "OK" ->
            Stop(LiteralsStatus(blk, header.window, f.tables, maximum))
       [] OTHER ->
     CASE TablesStatus(blk, header.window, lit) # "OK" \/ blk.fault = "sequences" ->
            Stop("CORRUPT_INPUT")
       [] OTHER ->
     CASE res.status # "OK" \/ sum.status # "OK" -> Stop("CORRUPT_INPUT")
       [] OTHER ->
     CASE fin.status # "OK" \/ fin.block_size > header.declared - f.produced ->
            Stop("CORRUPT_INPUT")
       [] OTHER ->
     IF run.status # "OK" THEN Stop("CORRUPT_INPUT")
     ELSE [status |-> "OK", tables |-> LoadTables(blk, lit, chunk, 3), repcodes |-> res.history,
           produced |-> f.produced + fin.block_size,
           mem |-> CopyBytes(run.mem, f.produced + end.at, buffer + end.literals_used,
                             blk.lit.size - end.literals_used)]

\* A Raw or RLE body goes straight to its place.
Filled(mem, blk, b, at) ==
  [a \in DOMAIN mem |-> IF a \in at..at + blk.size - 1
     THEN <<b, IF blk.type = "rle" THEN 1 ELSE a - at + 1>> ELSE mem[a]]

HostBlock(f, header, blk, b, chunk, buffer) ==
  IF blk.type = "compressed" THEN HostCompressed(f, header, blk, b, chunk, buffer)
  ELSE IF blk.size > header.declared - f.produced
  THEN [f EXCEPT !.status = "CORRUPT_INPUT"]
  ELSE [f EXCEPT !.mem = Filled(@, blk, b, f.produced), !.produced = @ + blk.size]
=============================================================================
