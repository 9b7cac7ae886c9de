-------------------------- MODULE LiteralHistogram ---------------------------
(***************************************************************************)
(* The literal-length distribution of the benchmarks (bench/literal_hist.h)*)
(* over one stream, walked with either of the shipped parsers. The kernel  *)
(* is a second driver of the same parser; what it would copy is kept       *)
(* beside what the histogram counts.                                       *)
(***************************************************************************)
EXTENDS BlockParsers, FiniteSets, FiniteSetsExt

CONSTANT LiteralEdges   \* where each bucket but the first begins: 2, 4, 8, 16, 32, 64, 256

VARIABLES
  hist,        \* LiteralHistogram
  executed     \* history: the literal bytes the kernel copies for the same elements

histVars == <<parserVars, hist, executed>>

Buckets == 0..Cardinality(LiteralEdges)
HistInit ==
  /\ ParserInit
  /\ hist = [streams |-> 0, elements |-> 0, literal_elements |-> 0, literal_bytes |-> 0,
             count |-> [b \in Buckets |-> 0], bytes |-> [b \in Buckets |-> 0]]
  /\ executed = 0

LiteralBucket(len) == Cardinality({edge \in LiteralEdges : len >= edge})

Count(len) ==
  LET counted == [hist EXCEPT !.elements = @ + 1]
      bucket == LiteralBucket(len)
  IN  IF len = 0 THEN counted
      ELSE [counted EXCEPT !.literal_elements = @ + 1, !.literal_bytes = @ + len,
                           !.count[bucket] = @ + 1, !.bytes[bucket] = @ + len]

\* A step of the parser in which its call hands an element back.
HandsBack ==
  /\ result' \notin Rejections
  /\ IF format = "lz4" THEN pc # "call" /\ pc' = "call"
     ELSE returned' # returned \/ (result' = "done" /\ result # "done")
HandedBack == IF format = "lz4" THEN entry'.element ELSE element'

\* The walk calls until the parser says done or refuses, and looks at done before it
\* counts. The kernel copies before it looks (ChunkKernel's CopyLiteral).
Walk ==
  /\ result = "more"
  /\ Lz4Step \/ SnappyStep
  /\ IF ~HandsBack THEN UNCHANGED <<hist, executed>>
     ELSE /\ executed' = executed + HandedBack.lit_len
          /\ hist' = IF result' = "done" THEN [hist EXCEPT !.streams = @ + 1]
                     ELSE Count(HandedBack.lit_len)
WalkOver == result # "more" /\ UNCHANGED histVars

HistNext == Walk \/ WalkOver
HistSpec == HistInit /\ [][HistNext]_histVars

-----------------------------------------------------------------------------
(* Properties. *)

\* The literal bytes of a walked stream are the ones the decoder copies: "the
\* elements it counts are the elements the decoder executes" (bench/literal_hist.h:12).
HistogramCountsAll ==
  hist.streams = 1 =>
    /\ hist.literal_bytes = executed
    /\ hist.literal_bytes = MapThenSumSet(LAMBDA b : hist.bytes[b], Buckets)
=============================================================================
