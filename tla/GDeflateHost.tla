---------------------------- MODULE GDeflateHost ----------------------------
(***************************************************************************)
(* The sequential residency of the rounds: one thread steps the lanes of a *)
(* round in order (GDeflateHostTeam, src/gdeflate_tables.h) and deals a    *)
(* word to a lane that fell below the watermark right after its step. This *)
(* is the schedule an encoder writes for.                                  *)
(***************************************************************************)
EXTENDS GDeflateTeam

VARIABLES
  page,     \* what the page's bits have been read as so far
  d,        \* the template's locals
  lanes,    \* per lane its bits and its deferred match
  cursor,   \* the next word of the page
  idx,      \* the current lane
  why,      \* the first refusal, or "None"
  out,      \* the output
  tokens    \* history: the literals and matches in the order they claimed output

vars == <<page, d, lanes, cursor, idx, why, out, tokens>>

Init ==
  /\ page = <<>>
  /\ d = Driver0
  /\ lanes = [l \in Lane |-> Primed(l)]
  /\ cursor = NumStreams
  /\ idx = 0
  /\ why = "None"
  /\ out = <<>>
  /\ tokens = <<>>

\* GDeflateEnsure: the word at the cursor, if the lane is due one.
Starved(lane) == NeedsRefill(lane) /\ cursor >= WordCount
Ensured(lane) == IF NeedsRefill(lane) THEN RefillLane(lane, cursor) ELSE lane
\* Mutant: the cursor moves whether or not a word was taken.
NextCursorAlways(lane) == cursor + 1
NextCursor(lane) == IF NeedsRefill(lane) THEN cursor + 1 ELSE cursor

Fails(rung) == /\ why' = RefuseAs(why, rung)
               /\ d' = Refused(d)
               /\ UNCHANGED <<cursor, idx>>

\* The header rides lane 0; the lane is topped up without rotating.
Header ==
  LET lane == lanes[0]
      popped == Remove(lane, HeaderBits)
      rung == IF PopRefuses(lane, HeaderBits) = "None" /\ Starved(popped)
              THEN "RefillPastEnd" ELSE PopRefuses(lane, HeaderBits)
      header == page'[Bits(lane, "header")]
  IN
  /\ d.stage = "header"
  /\ page' \in Reads(page, {Bits(lane, "header")}, Values)
  /\ \/ rung # "None" /\ Fails(rung) /\ UNCHANGED lanes
     \/ /\ rung = "None"
        /\ lanes' = [lanes EXCEPT ![0] = Ensured(popped)]
        /\ cursor' = NextCursor(popped)
        /\ d' = AfterHeader([d EXCEPT !.blocks = @ + 1], header)
        /\ why' = RefuseAs(why, AfterHeaderWhy(header))
        /\ idx' = 0
  /\ UNCHANGED <<out, tokens>>

StoredLength ==
  LET lane == lanes[0]
      len == page'[Bits(lane, "length")]
      short == PopRefuses(lane, LenBits)
      rung == IF short # "None" THEN short
              ELSE StoredWhy(d, len, Reachable(cursor, BufferedBits(lanes)))
  IN
  /\ d.stage = "length"
  /\ page' \in Reads(page, {Bits(lane, "length")}, Values)
  /\ lanes' = IF short # "None" THEN lanes ELSE [lanes EXCEPT ![0] = Remove(lane, LenBits)]
  /\ \/ rung # "None" /\ Fails(rung)
     \/ /\ rung = "None"
        /\ d' = AfterLength(d, len)
        /\ why' = IF len = 0 THEN RefuseAs(why, NextBlockWhy(d)) ELSE why
        /\ UNCHANGED <<cursor, idx>>
  /\ UNCHANGED <<out, tokens>>

-----------------------------------------------------------------------------
(* A lane's step within a round. *)

\* The lane stepped: deal it a word if it is due one, rotate, and leave the
\* round after its last lane.
Advance(lane, e) ==
  LET last == idx + 1 = RoundLanes(d) IN
  \/ /\ Starved(lane)
     /\ lanes' = [lanes EXCEPT ![idx] = lane]
     /\ Fails("RefillPastEnd")
  \/ /\ ~Starved(lane)
     /\ lanes' = [lanes EXCEPT ![idx] = Ensured(lane)]
     /\ cursor' = NextCursor(lane)
     /\ idx' = IF last THEN 0 ELSE idx + 1
     /\ d' = IF last THEN AfterRound(e) ELSE e
     /\ why' = IF last THEN RefuseAs(why, AfterRoundWhy(e)) ELSE why

RefusedStep(rung) == Fails(rung) /\ UNCHANGED <<lanes, out, tokens>>

\* One byte of a stored block.
StoredByte ==
  LET lane == lanes[idx] IN
  /\ d.stage = "bytes"
  /\ UNCHANGED page
  /\ IF PopRefuses(lane, ByteBits) # "None"
       THEN RefusedStep(PopRefuses(lane, ByteBits))
       ELSE /\ out' = Write(out, [p \in {d.out_pos + idx} |-> ByteAt(lane)])
            /\ tokens' = Append(tokens, [pos |-> d.out_pos + idx, len |-> 1, dist |-> 0,
                                         byte |-> ByteAt(lane)])
            /\ Advance(Remove(lane, ByteBits), d)

\* The token a reservation at `pos' recorded now knows its distance.
WithDistance(pos, dist) ==
  [i \in DOMAIN tokens |-> IF tokens[i].pos = pos /\ tokens[i].dist = -1
                           THEN [tokens[i] EXCEPT !.dist = dist] ELSE tokens[i]]

\* A lane that holds a reservation spends its step on the distance.
RetireCopy ==
  LET lane == lanes[idx]
      sym == page'[Bits(lane, "dist")]
      rung == StepWhy(lane, sym)
      copy == lane.copy
  IN
  /\ d.stage \in {"symbols", "drain"}
  /\ lane.copy.pending
  /\ page' \in Reads(page, {Bits(lane, "dist")}, Values)
  /\ \/ rung # "None" /\ RefusedStep(rung)
     \/ rung = "None" /\ sym.value > copy.out_pos /\ RefusedStep("MatchBeforeOutput")
     \/ /\ rung = "None" /\ sym.value <= copy.out_pos
        /\ out' = CopyForward(out, copy.out_pos, sym.value, copy.length)
        /\ tokens' = WithDistance(copy.out_pos, sym.value)
        /\ Advance([Remove(lane, sym.width) EXCEPT !.copy.pending = FALSE], d)

\* A lane without one resolves a literal/length symbol, unless it lies past the
\* end-of-block lane.
Symbol ==
  LET lane == lanes[idx]
      sym == page'[Bits(lane, "litlen")]
      rung == StepWhy(lane, sym)
      e == [d EXCEPT !.eob = IF @ = NoLane /\ rung = "None" /\ sym.kind = "end"
                             THEN idx ELSE @]
      pos == d.out_pos
      taken == Remove(lane, sym.width)
  IN
  /\ d.stage = "symbols"
  /\ ~lane.copy.pending
  /\ page' \in Reads(page, {Bits(lane, "litlen")}, Values)
  /\ \/ e.eob < idx /\ Advance(lane, e) /\ UNCHANGED <<out, tokens>>
     \/ e.eob = idx /\ Advance(taken, e) /\ UNCHANGED <<out, tokens>>
     \/ e.eob > idx /\ rung # "None" /\ RefusedStep(rung)
     \/ /\ e.eob > idx /\ rung = "None" /\ sym.kind = "literal"
        /\ \/ ~LiteralFits(pos) /\ RefusedStep("LiteralPastCap")
           \/ /\ LiteralFits(pos)
              /\ out' = Write(out, [p \in {pos} |-> ByteAt(lane)])
              /\ tokens' = Append(tokens, [pos |-> pos, len |-> 1, dist |-> 0,
                                           byte |-> ByteAt(lane)])
              /\ Advance(taken, [e EXCEPT !.out_pos = @ + 1])
     \/ /\ e.eob > idx /\ rung = "None" /\ sym.kind = "length"
        /\ ~ReserveFits(pos, sym.value) /\ RefusedStep("MatchPastCap")
     \/ /\ e.eob > idx /\ rung = "None" /\ sym.kind = "length"
        /\ ReserveFits(pos, sym.value)
        /\ tokens' = Append(tokens, [pos |-> pos, len |-> sym.value, dist |-> -1,
                                     byte |-> <<>>])
        /\ Advance([taken EXCEPT !.copy = [pending |-> TRUE, length |-> sym.value,
                                           out_pos |-> pos]],
                   [e EXCEPT !.out_pos = @ + sym.value])
        /\ UNCHANGED out

\* In the drain a lane without a reservation steps and reads nothing.
DrainIdle ==
  /\ d.stage = "drain"
  /\ ~lanes[idx].copy.pending
  /\ Advance(lanes[idx], d)
  /\ UNCHANGED <<page, out, tokens>>

Done == Ended(d) /\ UNCHANGED vars

Step == Header \/ StoredLength \/ StoredByte \/ RetireCopy \/ Symbol \/ DrainIdle
Next == Step \/ Done

Spec == Init /\ [][Next]_vars

-----------------------------------------------------------------------------
(* Properties. *)

\* The words of the page below the cursor have each gone to exactly one lane,
\* in the order of the page (the schedule of GDeflateAdvance).
WordsDealtOnce ==
  /\ UNION { {lanes[l].words[i] : i \in DOMAIN lanes[l].words} : l \in Lane } = 0..cursor - 1
  /\ \A l, k \in Lane : \A i \in DOMAIN lanes[l].words, j \in DOMAIN lanes[k].words :
       /\ lanes[l].words[i] = lanes[k].words[j] => l = k /\ i = j
       /\ l = k /\ i < j => lanes[l].words[i] < lanes[k].words[j]

\* No page reaches a backstop: a field of legal width never finds its lane short
\* of bits, the watermark and the top-up after the header leaving enough for
\* whatever is read next (gdeflate_schedule.h, GDeflateReadAhead), and the block
\* and round limits only make termination evident (gdeflate_block.h, the comments
\* on block_fuel and round_fuel).
BackstopsUnreached == why \notin {"PopPastLane", "RoundFuelExhausted", "NoFinalBlock"}

\* A decoded page is the expansion of its literals and matches in the order they
\* claimed the output, although a match is copied a round after it claimed.
OutputIsExpansion ==
  d.stage = "ok" =>
    /\ \A i \in DOMAIN tokens :
         /\ tokens[i].pos = IF i = 1 THEN 0 ELSE tokens[i - 1].pos + tokens[i - 1].len
         /\ tokens[i].dist = 0 => out[tokens[i].pos] = tokens[i].byte
         /\ tokens[i].dist # 0 => \A n \in 0..tokens[i].len - 1 :
              out[tokens[i].pos + n] = ByteIn(out, tokens[i].pos + n - tokens[i].dist)
    /\ Unwritten \notin {out[p] : p \in DOMAIN out}
    /\ tokens # <<>> => d.out_pos = tokens[Len(tokens)].pos + tokens[Len(tokens)].len
=============================================================================
