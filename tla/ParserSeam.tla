----------------------------- MODULE ParserSeam -----------------------------
(***************************************************************************)
(* What the chunk kernel is entitled to assume of a parser (the contract   *)
(* at the head of src/chunk_decode.cuh and the element of                  *)
(* src/decode_sequence.h): each call hands back an element lying wholly    *)
(* inside both buffers and continuing the output where the last one ended, *)
(* with a match offset of at least one, and consumes a source byte; or the *)
(* single success, which has consumed the source; or a rejection. A call   *)
(* past the success is rejected.                                           *)
(***************************************************************************)
EXTENDS Integers

CONSTANTS SrcSize, DstCap

VARIABLES
  src_pos, dst_pos,   \* the parser's cursors when it last returned
  element,            \* what it handed back
  outcome             \* "more" elements to come, "done" or "rejected"

vars == <<src_pos, dst_pos, element, outcome>>

\* A literal run and a match; off is match_dst - match_src.
NoElement == [lit_src |-> 0, lit_dst |-> 0, lit_len |-> 0,
              off |-> 1, match_dst |-> 0, match_len |-> 0]
Elements == [lit_src : Nat, lit_dst : Nat, lit_len : Nat,
             off : Nat, match_dst : Nat, match_len : Nat]

\* An element the copy loops may execute without a check of their own.
Bounded(e, from) ==
  /\ e.lit_len > 0 => e.lit_src + e.lit_len <= SrcSize /\ e.lit_dst = from
  /\ e.match_len > 0 => e.match_dst = from + e.lit_len /\ e.off \in 1..e.match_dst
  /\ from + e.lit_len + e.match_len <= DstCap

Init ==
  /\ src_pos = 0 /\ dst_pos = 0
  /\ element = NoElement
  /\ outcome = "more"

HandBack ==
  /\ element' \in Elements /\ Bounded(element', dst_pos)
  /\ dst_pos' = dst_pos + element'.lit_len + element'.match_len

Element ==
  /\ outcome = "more" /\ outcome' = "more"
  /\ src_pos' \in src_pos + 1 .. SrcSize
  /\ HandBack

Terminal ==
  /\ outcome = "more" /\ outcome' = "done"
  /\ src_pos' = SrcSize
  /\ HandBack /\ element'.match_len = 0

Reject ==
  /\ outcome \in {"more", "done"} /\ outcome' = "rejected"
  /\ UNCHANGED <<src_pos, dst_pos, element>>

Next == Element \/ Terminal \/ Reject
Spec == Init /\ [][Next]_vars
=============================================================================
