----------------------------- MODULE ZstdFrame -----------------------------
(***************************************************************************)
(* Thread 0's walk over the frames one thread block decodes                *)
(* (src/zstd_decode.cuh). It owns no workspace: the literals of a          *)
(* compressed block wait in the tail of what the destination has left,     *)
(* sequences come in tiles and are executed as they come, and the tables   *)
(* live in cells shared by every frame of the block. ZstdThreads has the   *)
(* other threads. The host's decode of the same block is ZstdBlock's.      *)
(***************************************************************************)
EXTENDS ZstdBlock

CONSTANTS
  kZstdTileSequences,  \* sequences of a tile
  ChunkCount,          \* frames this thread block decodes, one after another
  FrameSizes,          \* bytes of a chunk
  HeaderBytes,         \* of a block header
  ChecksumBytes,
  MagicBytes,          \* of a frame header, before the descriptor byte: 4
  TwoByteBias,         \* what a content size of two bytes is counted from: 256
  kZstdMaxWindowSize,
  Headers,             \* what a frame header may hold
  Blocks,              \* what a block may hold
  DstCap               \* the caller's capacity

ASSUME FrameAssumption ==
  /\ {kZstdTileSequences, ChunkCount, HeaderBytes, ChecksumBytes} \subseteq Nat \ {0}
  /\ {MagicBytes, TwoByteBias, kZstdMaxWindowSize} \subseteq Nat
  /\ FrameSizes \subseteq Nat /\ DstCap \in Nat

VARIABLES
  pc,
  chunk, size, header,     \* the frame: its number, its bytes, what it declares
  frame,                   \* status, tables, repcodes, produced, memory
  pos, steps, last_block,  \* the walk
  blk, before,             \* history: the block, and the frame when it began
  remaining, literals, carry, done,  \* a compressed block in progress
  results                  \* status of each chunk decoded

walk == <<pos, steps, last_block>>
chunkVars == <<chunk, size, header, results>>
progress == <<remaining, literals, carry, done>>
vars == <<pc, chunkVars, frame, walk, blk, before, progress>>

Buffer == DstCap   \* the host's literals buffer
Memory == 0..DstCap + kZstdBlockSizeCeiling - 1
NoBlock == [type |-> "raw", size |-> 0]

BodySize(block) == CASE block.type = "raw" -> block.size
                     [] block.type = "rle" -> 1
                     [] OTHER -> block.body
Fuel == size \div HeaderBytes + 1

NewFrame(tables) == [status |-> "OK", tables |-> tables, repcodes |-> RepcodeInit,
                     produced |-> 0, mem |-> [a \in Memory |-> Junk]]
NoHeader == [declared |-> 0, window |-> 0, checksum |-> FALSE]

Init ==
  /\ pc = "frame" /\ chunk = 1 /\ size \in FrameSizes /\ header = NoHeader
  /\ frame = NewFrame([t \in Tables |-> NoTable])
  /\ pos = 0 /\ steps = 0 /\ last_block = FALSE
  /\ blk = NoBlock /\ before = frame
  /\ remaining = 0 /\ literals = 0 /\ carry = NoCarry /\ done = 0
  /\ results = <<>>

\* The block's locals and history end with it.
Forget == /\ blk' = NoBlock /\ before' = frame'
          /\ remaining' = 0 /\ literals' = 0 /\ carry' = NoCarry /\ done' = 0

RefuseLeaving(status, tables) ==
  pc' = "result" /\ frame' = [frame EXCEPT !.status = status, !.tables = tables]
Refuse(status) == RefuseLeaving(status, frame.tables)

-----------------------------------------------------------------------------
(* The frame header. Its descriptor says which fields follow and how wide  *)
(* they are; a single segment has no window of its own and no bound on it. *)

FcsFieldSize(h) == IF h.fcs_flag = 0 THEN IF h.single_segment THEN 1 ELSE 0 ELSE 2^h.fcs_flag
HeaderSize(h) == MagicBytes + 1 + (IF h.single_segment THEN 0 ELSE 1) + FcsFieldSize(h)
ContentSize(h) == IF FcsFieldSize(h) = 2 THEN h.content + TwoByteBias ELSE h.content
Parsed(h) == [declared |-> ContentSize(h), checksum |-> h.checksum,
              window |-> IF h.single_segment THEN ContentSize(h) ELSE h.window]
\* What is legal but outside the subset is told from what is corrupt, and each
\* field is bounded before it is read.
HeaderStatus(h) ==
  IF size < MagicBytes THEN "CORRUPT_INPUT"
  ELSE IF h.magic = "skippable" THEN "UNSUPPORTED"
  ELSE IF h.magic # "zstd" \/ size < MagicBytes + 1 \/ h.reserved THEN "CORRUPT_INPUT"
  ELSE IF h.dictionary \/ FcsFieldSize(h) = 0 THEN "UNSUPPORTED"
  ELSE IF size < HeaderSize(h) THEN "CORRUPT_INPUT"
  ELSE IF ~h.single_segment /\ h.window > kZstdMaxWindowSize THEN "UNSUPPORTED" ELSE "OK"

\* A content size past the capacity is refused before a byte is written.
FrameHeader ==
  /\ pc = "frame"
  /\ \E h \in Headers :
       IF HeaderStatus(h) # "OK" THEN Refuse(HeaderStatus(h)) /\ UNCHANGED <<header, pos>>
       ELSE /\ header' = Parsed(h)
            /\ IF ContentSize(h) > DstCap THEN Refuse("OUTPUT_TOO_SMALL") /\ UNCHANGED pos
               ELSE /\ pc' = "block" /\ frame' = NewFrame(FrameStateInit(frame.tables))
                    /\ pos' = HeaderSize(h)
  /\ Forget
  /\ UNCHANGED <<chunk, size, results, steps, last_block>>

\* What the block header admits: present, not reserved, within the block
\* maximum, its body present.
Admitted(block) ==
  /\ BodySize(block) <= BlockMaximum(header.window)
  /\ block.type = "rle" => block.size <= BlockMaximum(header.window)
  /\ pos + HeaderBytes + BodySize(block) <= size

\* A bad header, a truncated block and the end of the fuel have one answer.
BlockHeader ==
  /\ pc = "block"
  /\ \/ /\ steps < Fuel
        /\ \E block \in Blocks, last \in BOOLEAN :
             /\ Admitted(block)
             /\ blk' = block /\ last_block' = last
             /\ remaining' = header.declared - frame.produced
             /\ IF block.type = "compressed" THEN pc' = "literals" /\ UNCHANGED frame
                ELSE IF block.size > header.declared - frame.produced
                THEN Refuse("CORRUPT_INPUT")
                ELSE /\ pc' = "step"
                     /\ frame' = [frame EXCEPT !.produced = @ + block.size,
                                    !.mem = Filled(@, block, steps + 1, frame.produced)]
        /\ before' = frame /\ steps' = steps + 1
     \/ /\ Refuse("CORRUPT_INPUT")
        /\ UNCHANGED <<blk, before, last_block, steps, remaining>>
  /\ UNCHANGED <<chunkVars, pos, literals, carry, done>>

\* Past the block: the walk steps over its body.
NextBlock ==
  /\ pc = "step"
  /\ pos' = pos + HeaderBytes + BodySize(blk)
  /\ pc' = IF last_block THEN "tail" ELSE "block"
  /\ UNCHANGED <<chunkVars, frame, steps, last_block>>
  /\ Forget

-----------------------------------------------------------------------------
(* A compressed block. *)

\* The literals go to the end of what is left of the destination. A section with
\* a malformed stream has already replaced the table.
Literals ==
  /\ pc = "literals"
  /\ LET L == blk.lit.size
         at == frame.produced + remaining - L
         status == LiteralsStatus(blk, header.window, frame.tables, L)
     IN IF L > remaining THEN Refuse("CORRUPT_INPUT") /\ UNCHANGED literals
        ELSE /\ literals' = at
             /\ IF status # "OK"
                THEN \/ Refuse(status)
                     \/ blk.fault = "literals"
                        /\ RefuseLeaving(status, AfterLiterals(blk, frame.tables, chunk))
                ELSE /\ pc' = "tables"
                     /\ frame' = [frame EXCEPT !.tables = AfterLiterals(blk, @, chunk),
                                    !.mem = DecodeLiterals(@, blk, steps, at)]
  /\ UNCHANGED <<chunkVars, walk, blk, before, remaining, carry, done>>

SequenceTables ==
  /\ pc = "tables"
  /\ LET status == TablesStatus(blk, header.window, frame.tables) IN
     IF status # "OK"
     THEN \E n \in LoadedWhenRefused(blk, header.window, frame.tables) :
            RefuseLeaving(status, LoadTables(blk, frame.tables, chunk, n))
     ELSE /\ pc' = IF blk.seqs = <<>> THEN "finish" ELSE "tile"
          /\ frame' = [frame EXCEPT !.tables = LoadTables(blk, @, chunk, 3)]
  /\ carry' = NoCarry /\ done' = 0
  /\ UNCHANGED <<chunkVars, walk, blk, before, remaining, literals>>

\* The block so far, its unread literals included, fits what is declared.
TileFits(c) ==
  /\ c.at <= remaining
  /\ blk.lit.size - c.literals_used <= remaining - c.at

Tile ==
  /\ pc = "tile"
  /\ LET got == Lower(Len(blk.seqs) - done, kZstdTileSequences)
         seqs == SubSeq(blk.seqs, done + 1, done + got)
         ends == done + got = Len(blk.seqs)
         res == ResolveAll(frame.repcodes, seqs)
         sum == PrefixSumTile(carry, seqs, blk.lit.size, BlockMaximum(header.window))
         run == ExecuteAll(frame.mem, seqs, sum.carries, res.offsets, literals,
                           remaining, header.window, frame.produced)
     IN IF \/ ends /\ blk.fault = "sequences"
           \/ res.status # "OK" \/ sum.status # "OK"
           \/ ~TileFits(Last(sum.carries))
        THEN Refuse("CORRUPT_INPUT") /\ UNCHANGED <<carry, done>>
        ELSE /\ carry' = Last(sum.carries) /\ done' = done + got
             /\ frame' = [frame EXCEPT !.status = run.status, !.mem = run.mem,
                                       !.repcodes = res.history]
             /\ pc' = IF run.status # "OK" THEN "result"
                      ELSE IF ends THEN "finish" ELSE "tile"
  /\ UNCHANGED <<chunkVars, walk, blk, before, remaining, literals>>

\* Mutant: they stay where they wait.
LeaveInPlace(mem) == mem
\* The literals no sequence took move down to their place.
MoveDown(mem) == CopyBytes(mem, frame.produced + carry.at, literals + carry.literals_used,
                           blk.lit.size - carry.literals_used)
Finish ==
  /\ pc = "finish"
  /\ LET fin == PrefixSumFinish(carry, blk.lit.size, BlockMaximum(header.window)) IN
     IF fin.status # "OK" \/ fin.block_size > remaining THEN Refuse("CORRUPT_INPUT")
     ELSE /\ pc' = "step"
          /\ frame' = [frame EXCEPT !.produced = @ + fin.block_size, !.mem = MoveDown(@)]
  /\ UNCHANGED <<chunkVars, walk, blk, before, progress>>

-----------------------------------------------------------------------------
(* The end of the frame, its result, and the next one in the same shared   *)
(* memory.                                                                 *)

TailStatus(checks) ==
  LET end == pos + IF header.checksum THEN ChecksumBytes ELSE 0 IN
  IF frame.produced # header.declared \/ end # size \/ (header.checksum /\ ~checks)
  THEN "CORRUPT_INPUT" ELSE "OK"
FrameEnd ==
  /\ pc = "tail"
  /\ \E checks \in BOOLEAN : Refuse(TailStatus(checks))
  /\ UNCHANGED <<chunkVars, walk, blk, before, progress>>

Result ==
  /\ pc = "result"
  /\ results' = Append(results, frame.status)
  /\ IF chunk < ChunkCount
     THEN /\ pc' = "frame" /\ chunk' = chunk + 1 /\ size' \in FrameSizes
     ELSE /\ pc' = "done" /\ UNCHANGED <<chunk, size>>
  /\ header' = NoHeader /\ frame' = NewFrame(frame.tables) /\ Forget
  /\ pos' = 0 /\ steps' = 0 /\ last_block' = FALSE

Done == pc = "done" /\ UNCHANGED vars

Next ==
  \/ FrameHeader \/ BlockHeader \/ NextBlock
  \/ Literals \/ SequenceTables \/ Tile \/ Finish
  \/ FrameEnd \/ Result \/ Done
Spec == Init /\ [][Next]_vars

-----------------------------------------------------------------------------
\* The device decodes a block in tiles, in place; the host whole, from a
\* buffer. They accept the same blocks, with the same status otherwise, and
\* leave the same bytes, tables and offset history (zstd_decode.cuh:223).
SameFrame(f, g) ==
  /\ f.status = g.status
  /\ f.status = "OK" =>
       /\ f.produced = g.produced /\ f.tables = g.tables /\ f.repcodes = g.repcodes
       /\ \A a \in 0..f.produced - 1 : f.mem[a] = g.mem[a]
BlockEnds ==
  \/ pc # "step" /\ pc' = "step"
  \/ pc' = "result" /\ \/ pc \in {"literals", "tables", "tile", "finish"}
                       \/ pc = "block" /\ steps' # steps
DeviceDecodesAsHost ==
  [][BlockEnds => SameFrame(frame', HostBlock(before', header, blk', steps', chunk, Buffer))]_vars

\* A table is used only if this frame described it, though its cells may hold
\* an earlier frame's (zstd_blocks.h:168).
TablesOfThisFrame ==
  pc \in {"tables", "tile", "finish"} =>
    /\ blk.lit.type \in {"compressed", "treeless"} => frame.tables["literals"].of = chunk
    /\ pc # "tables" /\ blk.seqs # <<>> => \A f \in Fields : frame.tables[f].of = chunk
=============================================================================
