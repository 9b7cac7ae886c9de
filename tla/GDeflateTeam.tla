---------------------------- MODULE GDeflateTeam ----------------------------
(***************************************************************************)
(* What the two residencies of the GDeflate rounds share: the lanes of a   *)
(* team, their bit buffers, and the template GDeflateDecodePageRounds      *)
(* (src/gdeflate_block.h) that runs over either.                           *)
(*                                                                         *)
(* Code tables are abstracted to what a lane can resolve from its bits: a  *)
(* symbol of some width, or an unassigned code.                            *)
(***************************************************************************)
EXTENDS GDeflateLanes

CONSTANTS
  LenBits,       \* width of a stored block's length: 16
  ByteBits,      \* width of a stored byte: 8
  Cap,           \* the caller's output capacity
  Headers,       \* values of a block header: [final, type]
  LitLens,       \* what the literal/length table resolves: [kind, width, value]
  Dists,         \* what the distance table resolves: [kind, width, value]
  StoredLens     \* values of a stored block's length field

HeaderBits == 3
MinMatchLen == 3

\* "bad" is a code the table does not assign; it has no width of its own.
SymbolKinds == {"literal", "length", "end", "bad"}
BlockTypes == {"stored", "coded", "reserved"}

ASSUME TeamAssumption ==
  /\ ByteBits \in 1..Packet
  /\ LenBits \in 1..Packet /\ Packet >= LenBits + HeaderBits
  /\ Packet >= LenBits + ByteBits
  /\ Cap \in Nat
  /\ Headers \subseteq [final : BOOLEAN, type : BlockTypes]
  /\ \A s \in LitLens : s.kind \in SymbolKinds /\ s.width \in 1..Packet
                          /\ (s.kind = "length" => s.value \in Nat \ {0})
  /\ \A s \in Dists : s.kind \in {"dist", "bad"} /\ s.width \in 1..Packet
                        /\ s.value \in Nat \ {0}
  /\ StoredLens \subseteq Nat

Rungs == {"None", "PopPastLane", "RefillPastEnd", "BlockTypeReserved", "StoredPastCap",
          "StoredPastPage", "BadCode", "LiteralPastCap", "MatchPastCap",
          "MatchBeforeOutput", "RoundFuelExhausted", "NoFinalBlock"}

-----------------------------------------------------------------------------
(* What a lane resolves. *)

\* What the bits can be read as, by table.
Values == [table \in {"header", "litlen", "dist", "length"} |->
             CASE table = "header" -> Headers
               [] table = "litlen" -> LitLens
               [] table = "dist"   -> Dists
               [] table = "length" -> StoredLens]

\* A resolved symbol and the rung a read of it refuses on, consuming nothing.
StepWhy(lane, sym) ==
  IF sym.kind = "bad" THEN "BadCode" ELSE PopRefuses(lane, sym.width)

-----------------------------------------------------------------------------
(* The output: the bytes written so far, by position. *)

Unwritten == <<NoLane, 0>>
ByteIn(out, p) == IF p \in DOMAIN out THEN out[p] ELSE Unwritten
Write(out, bytes) ==
  [p \in DOMAIN out \cup DOMAIN bytes |-> IF p \in DOMAIN bytes THEN bytes[p] ELSE out[p]]

\* A literal's byte and a reservation against the capacity.
LiteralFits(pos) == pos < Cap
ReserveFits(pos, len) == pos <= Cap /\ len <= Cap - pos

\* Mutant: a block copy that ignores the overlap.
CopyBlock(out, dst, dist, len) ==
  Write(out, [p \in dst .. dst + len - 1 |-> ByteIn(out, p - dist)])
\* Byte by byte forwards: byte n of the copy reads what is at src + n then.
CopyForward(out, dst, dist, len) ==
  LET byte[n \in 0..len - 1] == IF n < dist THEN ByteIn(out, dst - dist + n) ELSE byte[n - dist]
  IN  Write(out, [p \in dst .. dst + len - 1 |-> byte[p - dst]])
\* The whole wave at once: the closed-form gather.
CopyGather(out, dst, dist, len) ==
  Write(out, [p \in dst .. dst + len - 1 |-> ByteIn(out, dst - dist + ((p - dst) % dist))])

-----------------------------------------------------------------------------
(* The template's locals `d' and its moves between rounds. *)

BlockFuel == (WordCount + 1) * (MaxLaneBits \div MinMatchLen)
RoundFuel == 2 * (Cap + 1) + NumStreams

Driver0 == [stage |-> "header", out_pos |-> 0, final |-> FALSE, blocks |-> 0,
            len |-> 0, done |-> 0, rounds |-> 0, eob |-> NoLane]
Stages == {"header", "length", "bytes", "symbols", "drain", "ok", "refused"}
Ended(d) == d.stage \in {"ok", "refused"}
Refused(d) == [d EXCEPT !.stage = "refused"]

\* The loop head after a block: out of the loop when final or out of fuel.
NextBlock(d) ==
  [d EXCEPT !.stage = IF d.final THEN "ok"
                      ELSE IF d.blocks < BlockFuel THEN "header" ELSE "refused"]
NextBlockWhy(d) == IF NextBlock(d).stage = "refused" THEN "NoFinalBlock" ELSE "None"

\* The lanes a round runs on.
RoundLanes(d) ==
  CASE d.stage = "bytes" -> IF d.len - d.done < NumStreams THEN d.len - d.done ELSE NumStreams
    [] d.stage = "symbols" -> NumStreams
    [] d.stage = "drain" -> d.eob

\* After the header was read and lane 0 topped up.
AfterHeader(d, header) ==
  [d EXCEPT !.final = header.final, !.rounds = 0, !.eob = NoLane,
            !.stage = CASE header.type = "reserved" -> "refused"
                        [] header.type = "stored" -> "length"
                        [] header.type = "coded" -> "symbols"]
AfterHeaderWhy(header) == IF header.type = "reserved" THEN "BlockTypeReserved" ELSE "None"

Reachable(cursor, buffered) ==
  (WordCount - cursor) * (Packet \div ByteBits) + (buffered + ByteBits - 1) \div ByteBits
StoredWhy(d, len, reachable) ==
  CASE len > Cap - d.out_pos -> "StoredPastCap"
    [] len <= Cap - d.out_pos /\ len > reachable -> "StoredPastPage"
    [] OTHER -> "None"
AfterLength(d, len) ==
  IF len = 0 THEN NextBlock(d) ELSE [d EXCEPT !.stage = "bytes", !.len = len, !.done = 0]

\* After a round none of whose lanes refused.
AfterBytes(d) ==
  LET e == [d EXCEPT !.out_pos = @ + RoundLanes(d), !.done = @ + RoundLanes(d)]
  IN  IF e.done < e.len THEN e ELSE NextBlock(e)
AfterSymbols(d) ==
  CASE d.eob = NoLane -> IF d.rounds + 1 < RoundFuel THEN [d EXCEPT !.rounds = @ + 1]
                         ELSE Refused(d)
    [] d.eob = 0 -> NextBlock(d)
    [] OTHER -> [d EXCEPT !.stage = "drain"]
AfterRound(d) == CASE d.stage = "bytes" -> AfterBytes(d)
                   [] d.stage = "symbols" -> AfterSymbols(d)
                   [] d.stage = "drain" -> NextBlock(d)
AfterRoundWhy(d) ==
  CASE d.stage = "symbols" /\ d.eob = NoLane /\ AfterRound(d).stage = "refused"
         -> "RoundFuelExhausted"
    [] AfterRound(d).stage = "refused" -> "NoFinalBlock"
    [] OTHER -> "None"
=============================================================================
