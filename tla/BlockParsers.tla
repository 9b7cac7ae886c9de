---------------------------- MODULE BlockParsers ----------------------------
(***************************************************************************)
(* The two parsers behind the chunk kernel's seam. The entry the caller    *)
(* takes instantiates the kernel with one of them (src/batch.cu); they     *)
(* share the seam's state and nothing else.                                *)
(***************************************************************************)
EXTENDS Lz4Block

CONSTANTS VarintGroups, VarintBase, FinalMax, InlineMax, WideBytes, Copy1MinLength,
          InlineLengths, WideLengths, CopyLengths, NarrowLengths

VARIABLES
  format,    \* the parser of this launch
  declared, begun, finished, group, returned   \* Snappy's own state

lz4Vars == <<pc, token, length, fuel, entry>>
snappyVars == <<declared, begun, finished, group, returned>>
parserVars == <<vars, snappyVars, format>>

Snappy == INSTANCE SnappyBlock

ASSUME SnappyAssumption == Snappy!SnappyConstants

ParserInit ==
  /\ Init /\ Snappy!Init
  /\ format \in {"lz4", "snappy"}

Lz4Step == format = "lz4" /\ Step /\ UNCHANGED <<format, snappyVars>>
SnappyStep == format = "snappy" /\ Snappy!Step /\ UNCHANGED <<format, lz4Vars>>
ParserStopped ==
  /\ \/ format = "lz4" /\ Stopped
     \/ format = "snappy" /\ Snappy!Stopped
  /\ UNCHANGED parserVars

ParserNext == Lz4Step \/ SnappyStep \/ ParserStopped
ParserSpec == ParserInit /\ [][ParserNext]_parserVars /\ WF_parserVars(Lz4Step \/ SnappyStep)

-----------------------------------------------------------------------------
(* Properties. *)

Kept == INSTANCE ParserSeam WITH
          src_pos <- IF format = "lz4" THEN entry.src ELSE returned,
          dst_pos <- IF format = "lz4" THEN entry.dst ELSE dst_pos,
          element <- IF format = "lz4" THEN entry.element ELSE element,
          outcome <- IF result \in Rejections THEN "rejected" ELSE result

\* What either parser hands back is what the chunk kernel assumes of a parser; and
\* of Snappy's, that the output never passes the declared length and success means
\* exactly it, from exactly the source.
ParserKeepsSeam == Kept!Spec /\ [](format = "snappy" => Snappy!ProducesDeclared)

\* Either parser stops a driver that ignores the success: the next call is
\* rejected, by the consumed source in LZ4 and by the flag in Snappy.
ParseEnds == <>(result \in Rejections)
=============================================================================
