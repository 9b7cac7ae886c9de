----------------------------- MODULE GridStride -----------------------------
(***************************************************************************)
(* Which thread decodes which chunk: the geometry of the three decode      *)
(* kernels. chunk_decode_batch (src/chunk_decode.cuh) and                  *)
(* gdeflate_decode_batch give a wave the chunks congruent to its index     *)
(* modulo the number of waves in the grid, and lane l of it writes its     *)
(* share; zstd_decode_batch gives a whole block the frames congruent to    *)
(* the block's index. The threads do not interact here, so a step takes    *)
(* each running thread through one chunk. The index of a wave is computed  *)
(* in IndexLimit, 2^32 in the source, and wraps; the number of waves is a  *)
(* size_t and does not.                                                    *)
(***************************************************************************)
EXTENDS Integers, FiniteSets

CONSTANTS
  Widths,            \* the wave widths a kernel is emitted for
  BlockWarps,        \* waves of a shipped block (kBlockWarps)
  kZstdBlockThreads, \* threads of a Zstd block
  MaxBlocks,         \* cap of the shipped grids (kMaxBlocks)
  Grids,             \* grid sizes a caller of a kernel may choose
  Dims,              \* block sizes a caller of a kernel may choose
  Counts,            \* chunk counts
  IndexLimit         \* the 32-bit index wraps here

GeometryConstants ==
  /\ Widths \subseteq Nat \ {0} /\ {BlockWarps, kZstdBlockThreads, MaxBlocks} \subseteq Nat \ {0}
  /\ Grids \subseteq Nat \ {0} /\ Dims \subseteq Nat \ {0} /\ Counts \subseteq Nat \ {0}
  /\ IndexLimit \in Nat \ {0} /\ \A w \in Widths : IndexLimit % w = 0

VARIABLES
  shape,    \* the launch: kernel, wave width, blocks, threads of a block, chunks
  at,       \* per thread the chunk it is at, or past the last
  visits    \* history: how often lane l came to chunk c

vars == <<shape, at, visits>>

Kernels == {"chunk", "gdeflate", "zstd"}

\* decode_grid_blocks and zstd_grid_blocks, and the shipped block shapes.
Capped(blocks) == IF blocks > MaxBlocks THEN MaxBlocks ELSE blocks
GridBlocks(count) == Capped((count + BlockWarps - 1) \div BlockWarps)
ZstdGridBlocks(count) == Capped(IF count = 0 THEN 1 ELSE count)
BlockThreads(width) == width * BlockWarps
Shipped(kernel, width, count) ==
  [kernel |-> kernel, width |-> width, count |-> count,
   blocks |-> IF kernel = "zstd" THEN ZstdGridBlocks(count) ELSE GridBlocks(count),
   dim |-> IF kernel = "zstd" THEN kZstdBlockThreads ELSE BlockThreads(width)]
Shapes == [kernel : Kernels, width : Widths, blocks : Grids, dim : Dims, count : Counts]
NoLaunch == [kernel |-> "chunk", width |-> 1, blocks |-> 0, dim |-> 0, count |-> 0]

Threads(s) == (0..s.blocks - 1) \X (0..s.dim - 1)
TotalWaves(s) == (s.blocks * s.dim) \div s.width
First(s, t) == IF s.kernel = "zstd" THEN t[1]
               ELSE ((t[1] * s.dim + t[2]) % IndexLimit) \div s.width
\* The threads that share a chunk, and a thread's place among them.
Lanes(s) == 0 .. (IF s.kernel = "zstd" THEN s.dim ELSE s.width) - 1
LaneOf(s, t) == IF s.kernel = "zstd" THEN t[2] ELSE t[2] % s.width
\* The slot of the block's shared memory a thread's tables are in.
SlotOf(s, t) == IF s.kernel = "gdeflate" THEN t[2] \div s.width ELSE 0

\* Mutant: a GDeflate block may be wider than its shared tables.
RefusesTooLittle(s) ==
  IF s.kernel = "zstd" THEN s.dim # kZstdBlockThreads \/ s.blocks = 0
  ELSE TotalWaves(s) = 0 \/ s.dim % s.width # 0
Refuses(s) ==
  IF s.kernel = "zstd" THEN s.dim # kZstdBlockThreads \/ s.blocks = 0
  ELSE \/ TotalWaves(s) = 0 \/ s.dim % s.width # 0
       \/ s.kernel = "gdeflate" /\ s.dim > BlockThreads(s.width)
Stride(s) == IF s.kernel = "zstd" THEN s.blocks ELSE TotalWaves(s)

Launch(s) ==
  /\ shape' = s
  /\ at' = [t \in Threads(s) |-> IF Refuses(s) THEN s.count ELSE First(s, t)]
  /\ visits' = [v \in (0..s.count - 1) \X Lanes(s) |-> 0]

Init == shape = NoLaunch /\ at = <<>> /\ visits = <<>>

Running == {t \in Threads(shape) : at[t] < shape.count}

Pass ==
  /\ Running # {}
  /\ visits' = [v \in DOMAIN visits |->
       visits[v] + Cardinality({t \in Running : <<at[t], LaneOf(shape, t)>> = v})]
  /\ at' = [t \in Threads(shape) |-> IF t \in Running THEN at[t] + Stride(shape) ELSE at[t]]
  /\ UNCHANGED shape

-----------------------------------------------------------------------------
(* Properties. *)

Ended == Running = {}
IsShipped == \E w \in Widths : shape = Shipped(shape.kernel, w, shape.count)

\* The lanes of a chunk decode it all together or not at all (chunk_decode.cuh:150,
\* the loop variable is uniform over a wave, and over a Zstd block), and when the grid
\* is over, every grid below the index limit that the kernel admits has taken every
\* chunk exactly once. Teams of a block never share a table set, nor use one it has not.
EachChunkOnce ==
  /\ \A c \in 0..shape.count - 1 : \A l, k \in Lanes(shape) : visits[<<c, l>>] = visits[<<c, k>>]
  /\ /\ Ended /\ (shape.kernel = "zstd" \/ shape.blocks * shape.dim <= IndexLimit)
     /\ ~Refuses(shape) \/ IsShipped
     => \A v \in DOMAIN visits : visits[v] = 1
  /\ shape.kernel = "gdeflate" =>
       \A t, u \in Running :
         /\ SlotOf(shape, t) < BlockWarps
         /\ t[1] = u[1] /\ at[t] # at[u] => SlotOf(shape, t) # SlotOf(shape, u)

=============================================================================
