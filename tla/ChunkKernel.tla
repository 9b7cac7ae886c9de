---------------------------- MODULE ChunkKernel -----------------------------
(***************************************************************************)
(* One wave decoding one chunk (chunk_decode_batch, src/chunk_decode.cuh). *)
(* Every lane parses for itself and copies every WaveSize-th byte; only    *)
(* the two barriers of an element order the lanes. The parser is any that  *)
(* keeps the contract of ParserSeam; as every lane parses the same bytes,  *)
(* the answer to call k is chosen when the first lane makes it and is the  *)
(* same for the rest.                                                      *)
(***************************************************************************)
EXTENDS Integers, Sequences, FiniteSets

CONSTANTS
  WaveSize,     \* lanes of the wave
  SrcSize,      \* bytes of the chunk
  DstCap,       \* capacity of its destination
  Handed        \* elements the parser may hand back

VARIABLES
  src_pos, dst_pos, element, outcome,  \* the parser of the foremost lane
  script,   \* history: what each call answered: [element, outcome, dst_pos]
  lane,     \* per lane: calls made, place in the loop body, byte it is at, fuel
  dst,      \* the destination, by position
  record    \* the chunk's result record, or the empty sequence

vars == <<src_pos, dst_pos, element, outcome, script, lane, dst, record>>
parserVars == <<src_pos, dst_pos, element, outcome, script>>

Parser == INSTANCE ParserSeam

ASSUME KernelAssumption ==
  /\ WaveSize \in Nat \ {0} /\ SrcSize \in Nat /\ DstCap \in Nat
  /\ Handed \subseteq Parser!Elements

Lanes == 0 .. WaveSize - 1
Pcs == {"parse", "literals", "sync1", "match", "sync2", "exit", "left"}

Fuel == SrcSize + 1

Init ==
  /\ Parser!Init
  /\ script = <<>>
  /\ lane = [l \in Lanes |-> [calls |-> 0, pc |-> "parse", i |-> l, fuel |-> Fuel,
                              status |-> "OK", done |-> FALSE]]
  /\ dst = <<>>
  /\ record = <<>>

\* What a call no lane has made before answers: anything the seam allows.
Answer ==
  \/ element' \in Handed /\ (Parser!Element \/ Parser!Terminal)
  \/ Parser!Reject

Recorded ==
  script' = Append(script, [element |-> element', outcome |-> outcome', dst_pos |-> dst_pos'])

Called(l) ==
  IF lane[l].calls < Len(script) THEN UNCHANGED parserVars
  ELSE outcome = "more" /\ Answer /\ Recorded

\* What the lane makes of the answer to its call k.
Received(l, k) ==
  /\ lane' = [lane EXCEPT ![l] =
                [@ EXCEPT !.calls = k, !.i = l,
                          !.done = script'[k].outcome = "done",
                          !.status = IF script'[k].outcome = "rejected" THEN "REJECTED" ELSE "OK",
                          !.pc = IF script'[k].outcome = "rejected" THEN "exit" ELSE "literals"]]
  /\ UNCHANGED <<dst, record>>

Parse(l) == lane[l].pc = "parse" /\ Called(l) /\ Received(l, lane[l].calls + 1)

Current(l) == script[lane[l].calls].element

WriteByte(p, byte) ==
  dst' = [q \in DOMAIN dst \cup {p} |-> IF q = p THEN byte ELSE dst[q]]
Unwritten == -1
ReadByte(p) == IF p \in DOMAIN dst THEN dst[p] ELSE Unwritten

\* One byte of the literal run, or the barrier when the lane has none left.
CopyLiteral(l) ==
  /\ lane[l].pc = "literals"
  /\ IF lane[l].i < Current(l).lit_len
       THEN /\ WriteByte(Current(l).lit_dst + lane[l].i, Current(l).lit_src + lane[l].i)
            /\ lane' = [lane EXCEPT ![l].i = @ + WaveSize]
       ELSE lane' = [lane EXCEPT ![l].pc = "sync1"] /\ UNCHANGED dst
  /\ UNCHANGED <<parserVars, record>>

Order == <<"parse", "literals", "sync1", "match", "sync2", "exit", "left">>
Place(m) == CHOOSE n \in DOMAIN Order : Order[n] = lane[m].pc
\* Mutant: a barrier that does not wait.
MetAlone(l) == TRUE
\* Mutant: a barrier left only while every lane is still at it.
MetTogether(l) == \A m \in Lanes : lane[m].pc = lane[l].pc
\* All lanes have come at least to this barrier of this element.
Met(l) == \A m \in Lanes :
  \/ lane[m].calls > lane[l].calls
  \/ lane[m].calls = lane[l].calls /\ Place(m) >= Place(l)
  \/ lane[m].calls = lane[l].calls /\ lane[m].pc = "parse"

\* The end of the loop body: out on success or without fuel, else the next call.
AfterElement(r) ==
  IF r.done THEN [r EXCEPT !.pc = "exit"]
  ELSE [r EXCEPT !.pc = IF r.fuel = 0 THEN "exit" ELSE "parse", !.fuel = @ - 1]

Sync1(l) ==
  /\ lane[l].pc = "sync1" /\ Met(l)
  /\ lane' = [lane EXCEPT ![l] = IF Current(l).match_len = 0 THEN AfterElement(@)
                                 ELSE [@ EXCEPT !.pc = "match", !.i = l]]
  /\ UNCHANGED <<parserVars, dst, record>>

\* Mutant: the gather ignores the overlap.
SourceOfStraight(e, i) == e.match_dst - e.off + i
SourceOf(e, i) == e.match_dst - e.off + (i % e.off)

CopyMatch(l) ==
  /\ lane[l].pc = "match"
  /\ IF lane[l].i < Current(l).match_len
       THEN /\ WriteByte(Current(l).match_dst + lane[l].i,
                         ReadByte(SourceOf(Current(l), lane[l].i)))
            /\ lane' = [lane EXCEPT ![l].i = @ + WaveSize]
       ELSE lane' = [lane EXCEPT ![l].pc = "sync2"] /\ UNCHANGED dst
  /\ UNCHANGED <<parserVars, record>>

Sync2(l) ==
  /\ lane[l].pc = "sync2" /\ Met(l)
  /\ lane' = [lane EXCEPT ![l] = AfterElement(@)]
  /\ UNCHANGED <<parserVars, dst, record>>

\* Out of the loop: without the success the chunk is rejected, and lane 0 writes
\* the record.
Verdict(r) == IF r.status = "OK" /\ ~r.done THEN "CORRUPT_INPUT" ELSE r.status
Leave(l) ==
  /\ lane[l].pc = "exit"
  /\ lane' = [lane EXCEPT ![l].pc = "left", ![l].status = Verdict(lane[l])]
  /\ record' = IF l # 0 THEN record
               ELSE [status |-> Verdict(lane[l]),
                     bytes_written |-> IF Verdict(lane[l]) = "OK"
                                       THEN script[lane[l].calls].dst_pos ELSE 0]
  /\ UNCHANGED <<parserVars, dst>>

Step(l) == \/ Parse(l) \/ CopyLiteral(l) \/ Sync1(l) \/ CopyMatch(l) \/ Sync2(l) \/ Leave(l)
Next == \E l \in Lanes : Step(l)

Spec == Init /\ [][Next]_vars

-----------------------------------------------------------------------------
(* Properties. *)

Left == \A l \in Lanes : lane[l].pc = "left"

\* An accepted chunk is the expansion of its elements one byte after the other,
\* whatever the order in which the lanes copied. And the fuel only makes the end
\* evident: no chunk a parser would accept or reject by itself runs out of it.
OutputIsSequential ==
  /\ Left /\ record.status = "OK" =>
       /\ DOMAIN dst = 0..record.bytes_written - 1
       /\ \A k \in DOMAIN script :
            LET e == script[k].element IN
            /\ \A i \in 0..e.lit_len - 1 : dst[e.lit_dst + i] = e.lit_src + i
            /\ \A i \in 0..e.match_len - 1 : dst[e.match_dst + i] = dst[e.match_dst + i - e.off]
  /\ \A l \in Lanes : lane[l].pc = "exit" => lane[l].done \/ lane[l].status # "OK"

\* The destination bytes lane l is about to write, and to read.
Writes(l) ==
  CASE lane[l].pc = "literals" /\ lane[l].i < Current(l).lit_len -> {Current(l).lit_dst + lane[l].i}
    [] lane[l].pc = "match" /\ lane[l].i < Current(l).match_len -> {Current(l).match_dst + lane[l].i}
    [] OTHER -> {}
Reads(l) ==
  IF lane[l].pc = "match" /\ lane[l].i < Current(l).match_len
  THEN {SourceOf(Current(l), lane[l].i)} ELSE {}
\* No two lanes are about to touch the same byte of the destination when one of
\* them writes it, and a match reads only bytes already written: the barriers
\* after the literals and after the match (chunk_decode.cuh:186, 224) are both
\* needed and are enough.
RaceFree ==
  /\ \A l, m \in Lanes : l # m => Writes(l) \cap (Writes(m) \cup Reads(m)) = {}
  /\ \A l \in Lanes : Reads(l) \subseteq DOMAIN dst
=============================================================================
