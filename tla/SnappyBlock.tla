---------------------------- MODULE SnappyBlock -----------------------------
(***************************************************************************)
(* SnappyParser (src/snappy_block.h), called until it rejects. The bytes   *)
(* of a header are chosen when it is read; a call is one step, except that *)
(* the preamble, which Begin reads on the first call, is a step of its own *)
(* per byte.                                                               *)
(***************************************************************************)
EXTENDS Integers

CONSTANTS
  SrcSize,          \* bytes of the block
  DstCap,           \* the caller's capacity
  VarintGroups,     \* bytes of the longest preamble: 5
  VarintBase,       \* values of a byte's payload: 2^7
  FinalMax,         \* the last group is refused from here on: 16
  InlineMax,        \* longest literal length - 1 in the tag: 59
  WideBytes,        \* longest literal length field: 4
  Copy1MinLength,   \* shortest length of the narrow form: 4
  InlineLengths,    \* values of a literal's length - 1 in the tag
  WideLengths,      \* and of one in a field of 1..WideBytes bytes
  CopyLengths,      \* lengths of the wide copy forms
  NarrowLengths,    \* lengths of the narrow form
  Offsets           \* values of an offset field

SnappyConstants ==
  /\ SrcSize \in Nat /\ DstCap \in Nat
  /\ VarintGroups \in Nat \ {0} /\ VarintBase \in Nat \ {0} /\ FinalMax \in 1..VarintBase
  /\ InlineMax \in Nat /\ WideBytes \in Nat /\ Copy1MinLength \in Nat \ {0}
  /\ InlineLengths \subseteq 0..InlineMax /\ WideLengths \subseteq Nat
  /\ CopyLengths \subseteq Nat \ {0} /\ Offsets \subseteq Nat
  /\ NarrowLengths \subseteq {n \in Nat : n >= Copy1MinLength}

VARIABLES
  src_pos, dst_pos,
  declared,   \* the declared length once begun, before it what was read of it
  begun, finished,
  group,      \* groups of the preamble read so far
  element,    \* the out parameter
  result,     \* "more", "done" or the rejection
  returned,   \* history: the source cursor when the last element came back
  highest     \* history: the highest source index read

vars == <<src_pos, dst_pos, declared, begun, finished, group, element, result,
          returned, highest>>

NoElement == [lit_src |-> 0, lit_dst |-> 0, lit_len |-> 0,
              off |-> 1, match_dst |-> 0, match_len |-> 0]
Rejections == {"CORRUPT_INPUT", "OUTPUT_TOO_SMALL"}

Init ==
  /\ src_pos = 0 /\ dst_pos = 0 /\ declared = 0
  /\ begun = FALSE /\ finished = FALSE /\ group = 0
  /\ element = NoElement
  /\ result = "more" /\ returned = 0 /\ highest = -1

RefuseAt(pos, status) ==
  /\ result' = status /\ src_pos' = pos
  /\ UNCHANGED <<dst_pos, declared, begun, finished, group, element, returned>>
Refuse(status) == RefuseAt(src_pos, status)

Power(n) == LET p[k \in 0..n] == IF k = 0 THEN 1 ELSE VarintBase * p[k - 1] IN p[n]

\* One group of the declared length; the last one is refused rather than cut.
Begin ==
  /\ ~begun /\ result = "more"
  /\ \/ group >= SrcSize /\ Refuse("CORRUPT_INPUT") /\ UNCHANGED highest
     \/ /\ group < SrcSize
        /\ \E payload \in 0..VarintBase - 1, continued \in BOOLEAN :
             LET value == declared + payload * Power(group)
                 final == group + 1 = VarintGroups
             IN
             /\ highest' = group
             /\ UNCHANGED <<dst_pos, finished, element, returned>>
             /\ IF final /\ (payload >= FinalMax \/ continued)
                  THEN result' = "CORRUPT_INPUT"
                       /\ UNCHANGED <<src_pos, declared, begun, group>>
                ELSE IF continued
                  THEN declared' = value /\ group' = group + 1
                       /\ UNCHANGED <<src_pos, begun, result>>
                ELSE IF value > DstCap
                  THEN declared' = value /\ result' = "OUTPUT_TOO_SMALL"
                       /\ UNCHANGED <<src_pos, begun, group>>
                  ELSE declared' = value /\ src_pos' = group + 1 /\ begun' = TRUE
                       /\ UNCHANGED <<group, result>>

Calls == begun /\ result \in {"more", "done"}

\* A call past the terminal element.
PastTerminal == Calls /\ finished /\ Refuse("CORRUPT_INPUT") /\ UNCHANGED highest

\* Mutant: the success is not remembered.
TerminalUnmarked ==
  /\ Calls /\ ~finished /\ src_pos >= SrcSize
  /\ \/ dst_pos # declared /\ Refuse("CORRUPT_INPUT") /\ UNCHANGED highest
     \/ /\ dst_pos = declared
        /\ element' = NoElement /\ result' = "done" /\ returned' = src_pos
        /\ UNCHANGED <<src_pos, dst_pos, declared, begun, finished, group, highest>>
\* The source is consumed: success, if the declared length was produced.
Terminal ==
  /\ Calls /\ ~finished /\ src_pos >= SrcSize
  /\ \/ dst_pos # declared /\ Refuse("CORRUPT_INPUT") /\ UNCHANGED highest
     \/ /\ dst_pos = declared
        /\ element' = NoElement /\ finished' = TRUE /\ result' = "done"
        /\ returned' = src_pos
        /\ UNCHANGED <<src_pos, dst_pos, declared, begun, group, highest>>

OutputLeft == declared - dst_pos

HeaderFits(header) == header <= SrcSize - src_pos

Literal ==
  /\ Calls /\ ~finished /\ src_pos < SrcSize
  /\ \E extra \in 0..WideBytes :
       LET header == 1 + extra
           start == src_pos + header
       IN
       \/ ~HeaderFits(header) /\ Refuse("CORRUPT_INPUT") /\ highest' = src_pos
       \/ /\ HeaderFits(header)
          /\ highest' = src_pos + extra
          /\ \E n \in (IF extra = 0 THEN InlineLengths ELSE WideLengths) :
               LET length == n + 1 IN
               IF length > SrcSize - start \/ length > OutputLeft
               THEN RefuseAt(start, "CORRUPT_INPUT")
               ELSE /\ element' = [NoElement EXCEPT !.lit_src = start, !.lit_dst = dst_pos,
                                                    !.lit_len = length]
                    /\ src_pos' = start + length /\ returned' = src_pos'
                    /\ dst_pos' = dst_pos + length
                    /\ result' = "more"
                    /\ UNCHANGED <<declared, begun, finished, group>>

\* Mutant: a copy may reach back before the output.
OffsetRefusedOnlyZero(offset) == offset = 0
OffsetRefused(offset) == offset = 0 \/ offset > dst_pos

Copy ==
  /\ Calls /\ ~finished /\ src_pos < SrcSize
  /\ \E bytes \in {1, 2, 4} :
       LET header == 1 + bytes IN
       \/ ~HeaderFits(header) /\ Refuse("CORRUPT_INPUT") /\ highest' = src_pos
       \/ /\ HeaderFits(header)
          /\ highest' = src_pos + bytes
          /\ \E offset \in Offsets,
                length \in IF bytes = 1 THEN NarrowLengths ELSE CopyLengths :
               IF OffsetRefused(offset) \/ length > OutputLeft
               THEN RefuseAt(src_pos + header, "CORRUPT_INPUT")
               ELSE /\ element' = [NoElement EXCEPT !.off = offset, !.match_dst = dst_pos,
                                                    !.match_len = length]
                    /\ src_pos' = src_pos + header /\ returned' = src_pos'
                    /\ dst_pos' = dst_pos + length
                    /\ result' = "more"
                    /\ UNCHANGED <<declared, begun, finished, group>>

Stopped == result \in Rejections /\ UNCHANGED vars

Step == Begin \/ PastTerminal \/ Terminal \/ Literal \/ Copy
Next == Step \/ Stopped
Spec == Init /\ [][Next]_vars /\ WF_vars(Step)

-----------------------------------------------------------------------------
(* Properties. *)

TypeOK ==
  /\ src_pos \in 0..SrcSize /\ dst_pos \in 0..DstCap
  /\ declared \in Nat /\ begun \in BOOLEAN /\ finished \in BOOLEAN
  /\ group \in 0..VarintGroups
  /\ result \in {"more", "done"} \cup Rejections

\* Every header byte read lies inside the source, the preamble's included.
ReadsInBounds == highest < SrcSize

\* The declared length bounds everything: the output never passes it and success
\* means exactly it, from exactly the source.
ProducesDeclared ==
  /\ begun => dst_pos <= declared /\ declared <= DstCap
  /\ finished => dst_pos = declared /\ src_pos = SrcSize

Seam == INSTANCE ParserSeam WITH
          src_pos <- returned,
          outcome <- IF result \in Rejections THEN "rejected" ELSE result

\* What the parser hands back is what the kernel assumes of every parser.
ImplementsSeam == Seam!Spec

\* Every block is accepted or rejected, and a driver that ignores the success is
\* rejected too: the flag ends what the source cannot.
ParseEnds == <>(result \in Rejections)
=============================================================================
