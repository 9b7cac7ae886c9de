------------------------------ MODULE Lz4Block ------------------------------
(***************************************************************************)
(* Lz4Parser::Next (src/lz4_block.h), called until it rejects. A call is   *)
(* cut at its reads: the token, each byte of a length extension, and the   *)
(* rest. The bytes themselves are chosen as they are read; no byte is read *)
(* twice and literal bytes are not read at all.                            *)
(***************************************************************************)
EXTENDS Integers

CONSTANTS
  SrcSize,              \* bytes of the block
  DstCap,               \* the caller's capacity
  RunMask,              \* a nibble with this value continues: 15
  ByteMax,              \* an extension byte with this value continues: 255
  MinMatch,             \* 4
  LastLiterals,         \* 5
  TrailingSlackDst,     \* 12
  TrailingSlackSrc,     \* 8
  LiteralReadMargin,    \* 15
  MatchReadMargin,      \* 4
  Offsets               \* values of the two offset bytes

ASSUME Lz4Assumption ==
  /\ SrcSize \in Nat /\ DstCap \in Nat
  /\ RunMask \in Nat \ {0} /\ ByteMax \in Nat \ {0} /\ MinMatch \in Nat \ {0}
  /\ LastLiterals \in Nat /\ TrailingSlackDst \in Nat /\ TrailingSlackDst > LastLiterals
  /\ TrailingSlackSrc \in Nat /\ TrailingSlackSrc >= 3
  /\ LiteralReadMargin \in Nat /\ MatchReadMargin \in Nat
  /\ Offsets \subseteq Nat

VARIABLES
  src_pos, dst_pos,
  pc,         \* "call" between calls, or where in the call the parser is
  token,      \* the nibbles of the token
  length,     \* the length being read
  fuel,       \* what is left of AccumulateLength's budget
  element,    \* the out parameter; lit_len is set before the match is read
  result,     \* "more", "done" or the rejection
  entry,      \* history: the cursors and the element when the last call returned
  highest     \* history: the highest source index read

vars == <<src_pos, dst_pos, pc, token, length, fuel, element, result, entry, highest>>

NoElement == [lit_src |-> 0, lit_dst |-> 0, lit_len |-> 0,
              off |-> 1, match_dst |-> 0, match_len |-> 0]
Nibbles == [lit : 0..RunMask, match : 0..RunMask]
Pcs == {"call", "litext", "literals", "matchext", "match"}
Rejections == {"CORRUPT_INPUT", "OUTPUT_TOO_SMALL"}

Init ==
  /\ src_pos = 0 /\ dst_pos = 0
  /\ pc = "call"
  /\ token \in {[lit |-> 0, match |-> 0]}
  /\ length = 0 /\ fuel = 0
  /\ element = NoElement
  /\ result = "more"
  /\ entry = [src |-> 0, dst |-> 0, element |-> NoElement]
  /\ highest = -1

Reject(status) ==
  /\ result' = status /\ pc' = "call"
  /\ UNCHANGED <<src_pos, dst_pos, token, length, fuel, element, entry, highest>>

ReturnElement(e, from, to) ==
  /\ element' = e
  /\ entry' = [src |-> from, dst |-> to, element |-> e]
  /\ pc' = "call"

\* The budget of the extension loop.
Budget(pos) == SrcSize - pos + 1

\* The token must exist, also in a call past the success; a full nibble starts an
\* extension.
Token ==
  /\ pc = "call" /\ result \in {"more", "done"}
  /\ \/ src_pos >= SrcSize /\ Reject("CORRUPT_INPUT")
     \/ /\ src_pos < SrcSize
        /\ src_pos' = src_pos + 1 /\ highest' = src_pos
        /\ token' \in Nibbles
        /\ length' = token'.lit
        /\ fuel' = Budget(src_pos')
        /\ IF token'.lit # RunMask
             THEN pc' = "literals" /\ result' = "more"
             ELSE IF src_pos' + LiteralReadMargin >= SrcSize
             THEN pc' = "call" /\ result' = "CORRUPT_INPUT"
             ELSE pc' = "litext" /\ result' = "more"
        /\ UNCHANGED <<dst_pos, element, entry>>

\* One byte of a length extension (AccumulateLength).
Margin == IF pc = "litext" THEN LiteralReadMargin ELSE MatchReadMargin
\* Mutant: the capacity is not looked at while the length accumulates.
ExtendRefusesSourceOnly ==
  IF fuel = 0 \/ src_pos >= SrcSize THEN "CORRUPT_INPUT" ELSE "none"
ExtendRefuses ==
  IF fuel = 0 \/ src_pos >= SrcSize THEN "CORRUPT_INPUT"
  ELSE IF length > DstCap - dst_pos THEN "OUTPUT_TOO_SMALL" ELSE "none"

Extend ==
  /\ pc \in {"litext", "matchext"}
  /\ \/ ExtendRefuses # "none" /\ Reject(ExtendRefuses)
     \/ /\ ExtendRefuses = "none"
        /\ \E byte \in 0..ByteMax :
             /\ src_pos' = src_pos + 1 /\ highest' = src_pos
             /\ length' = length + byte
             /\ fuel' = fuel - 1
             /\ IF src_pos' + Margin > SrcSize
                  THEN pc' = "call" /\ result' = "CORRUPT_INPUT"
                  ELSE /\ UNCHANGED result
                       /\ pc' = IF byte = ByteMax THEN pc
                                ELSE IF pc = "litext" THEN "literals" ELSE "match"
        /\ UNCHANGED <<dst_pos, token, element, entry>>

\* The literals must exist and fit; a run this close to either end is the last.
DstSlack == DstCap - dst_pos - length
SrcSlack == SrcSize - src_pos - length
\* Mutant: only the output end does.
NearOutputEnd == DstSlack < TrailingSlackDst
NearEnd == DstSlack < TrailingSlackDst \/ SrcSlack < TrailingSlackSrc
LiteralsRefuse ==
  IF length > SrcSize - src_pos THEN "CORRUPT_INPUT"
  ELSE IF length > DstCap - dst_pos THEN "OUTPUT_TOO_SMALL"
  ELSE IF NearEnd /\ (src_pos + length # SrcSize \/ (DstCap = 0 /\ token.lit + token.match # 0))
  THEN "CORRUPT_INPUT" ELSE "none"

Run == [NoElement EXCEPT !.lit_src = src_pos, !.lit_dst = dst_pos, !.lit_len = length]

LastRun ==
  /\ pc = "literals" /\ LiteralsRefuse = "none" /\ NearEnd
  /\ src_pos' = src_pos + length /\ dst_pos' = dst_pos + length
  /\ ReturnElement([Run EXCEPT !.match_dst = dst_pos'], src_pos', dst_pos')
  /\ result' = "done"
  /\ UNCHANGED <<token, length, fuel, highest>>

LiteralsRejected ==
  /\ pc = "literals" /\ LiteralsRefuse # "none"
  /\ Reject(LiteralsRefuse)

\* The run, the two bytes of the offset, and the match nibble.
LiteralsAndOffset ==
  /\ pc = "literals" /\ LiteralsRefuse = "none" /\ ~NearEnd
  /\ \E offset \in Offsets :
       /\ highest' = src_pos + length + 1
       /\ src_pos' = src_pos + length + 2
       /\ dst_pos' = dst_pos + length
       /\ element' = [Run EXCEPT !.off = offset, !.match_dst = dst_pos']
       /\ length' = token.match + MinMatch
       /\ fuel' = Budget(src_pos')
       /\ IF offset = 0 \/ offset > dst_pos'
            THEN pc' = "call" /\ result' = "CORRUPT_INPUT"
            ELSE /\ pc' = IF token.match = RunMask THEN "matchext" ELSE "match"
                 /\ UNCHANGED result
  /\ UNCHANGED <<token, entry>>

MatchRefuses ==
  IF length > DstCap - dst_pos THEN "OUTPUT_TOO_SMALL"
  ELSE IF length > DstCap - dst_pos - LastLiterals THEN "CORRUPT_INPUT" ELSE "none"

Match ==
  /\ pc = "match"
  /\ \/ MatchRefuses # "none" /\ Reject(MatchRefuses)
     \/ /\ MatchRefuses = "none"
        /\ dst_pos' = dst_pos + length
        /\ ReturnElement([element EXCEPT !.match_len = length], src_pos, dst_pos')
        /\ UNCHANGED <<src_pos, token, length, fuel, result, highest>>

Stopped == pc = "call" /\ result \in Rejections /\ UNCHANGED vars

Step == Token \/ Extend \/ LastRun \/ LiteralsRejected \/ LiteralsAndOffset \/ Match
Next == Step \/ Stopped
Spec == Init /\ [][Next]_vars

-----------------------------------------------------------------------------
(* Properties. *)

TypeOK ==
  /\ src_pos \in 0..SrcSize /\ dst_pos \in 0..DstCap
  /\ pc \in Pcs /\ token \in Nibbles
  /\ length \in Nat /\ fuel \in Nat
  /\ result \in {"more", "done"} \cup Rejections

\* Every byte the parser reads lies inside the source, the two bytes of an
\* offset included, which no check of their own guards: the end-of-block rule
\* leaves room for them.
ReadsInBounds == highest < SrcSize

\* A length being accumulated stays within one byte of what the output can still
\* hold, whatever run of continuation bytes the input carries, so the 64-bit
\* accumulator cannot wrap; and the loop's budget never ends it, a byte read is
\* paid for out of the source first (the comments on AccumulateLength).
LengthBounded ==
  /\ pc # "call" => length <= DstCap - dst_pos + ByteMax \/ length <= RunMask + MinMatch
  /\ pc \in {"litext", "matchext"} => fuel > SrcSize - src_pos

Seam == INSTANCE ParserSeam WITH
          src_pos <- entry.src, dst_pos <- entry.dst, element <- entry.element,
          outcome <- IF result \in Rejections THEN "rejected" ELSE result

\* What the parser hands back is what the kernel assumes of every parser.
ImplementsSeam == Seam!Spec
=============================================================================
