---------------------------- MODULE GDeflateWarp ----------------------------
(***************************************************************************)
(* The warp residency of the rounds (GDeflateWarpTeam,                     *)
(* src/gdeflate_decode.cuh): each lane is a thread with its own bit        *)
(* buffer, reservation and verdict, and a round is split by collectives.   *)
(* Between two collectives the lanes run in any order. At the end of a     *)
(* round the lanes below the watermark take the next words by their rank   *)
(* among the takers, and the lowest refusing lane names the team's rung.   *)
(***************************************************************************)
EXTENDS GDeflateTeam

VARIABLES
  page,     \* what the page's bits have been read as so far
  d,        \* the template's locals, uniform over the team
  lanes,    \* per lane its bits and its deferred match
  cursor,   \* the next word of the page, uniform
  why,      \* per lane its verdict
  out,      \* the output
  phase,    \* between rounds, or the part of a round the team is in
  todo,     \* lanes that have still to run the phase
  step      \* per lane what it resolved: its mode, symbol, rung and position

vars == <<page, d, lanes, cursor, why, out, phase, todo, step>>

NoStep == [mode |-> "idle", sym |-> [kind |-> "bad", width |-> 0, value |-> 0],
           rung |-> "None", pos |-> 0]

Init ==
  /\ page = <<>>
  /\ d = Driver0
  /\ lanes = [l \in Lane |-> Primed(l)]
  /\ cursor = NumStreams
  /\ why = [l \in Lane |-> "None"]
  /\ out = <<>>
  /\ phase = "between"
  /\ todo = {}
  /\ step = [l \in Lane |-> NoStep]

-----------------------------------------------------------------------------
(* The header and the stored length: lane 0 alone, then a broadcast. *)

Header ==
  LET lane == lanes[0]
      short == PopRefuses(lane, HeaderBits)
      popped == Remove(lane, HeaderBits)
      need == short = "None" /\ NeedsRefill(popped)
      rung == IF short # "None" THEN short
              ELSE IF need /\ cursor >= WordCount THEN "RefillPastEnd" ELSE "None"
      header == page'[Bits(lane, "header")]
      e == [d EXCEPT !.blocks = @ + 1]
  IN
  /\ d.stage = "header" /\ phase = "between"
  /\ page' \in Reads(page, {Bits(lane, "header")}, Values)
  /\ \/ /\ rung # "None"
        /\ d' = Refused(e) /\ why' = Unify([why EXCEPT ![0] = rung])
        /\ UNCHANGED lanes
     \/ /\ rung = "None"
        /\ lanes' = [lanes EXCEPT ![0] = IF need THEN RefillLane(popped, cursor) ELSE popped]
        /\ d' = AfterHeader(e, header) /\ why' = Raise(why, AfterHeaderWhy(header))
  /\ cursor' = IF need THEN cursor + 1 ELSE cursor
  /\ UNCHANGED <<out, phase, todo, step>>

StoredLength ==
  LET lane == lanes[0]
      short == PopRefuses(lane, LenBits)
      len == page'[Bits(lane, "length")]
      rung == StoredWhy(d, len, Reachable(cursor, BufferedBits(lanes)))
  IN
  /\ d.stage = "length" /\ phase = "between"
  /\ page' \in Reads(page, {Bits(lane, "length")}, Values)
  /\ IF short # "None"
       THEN /\ d' = Refused(d) /\ why' = Unify([why EXCEPT ![0] = short])
            /\ UNCHANGED lanes
       ELSE /\ lanes' = [lanes EXCEPT ![0] = Remove(lane, LenBits)]
            /\ IF rung # "None"
                 THEN d' = Refused(d) /\ why' = Raise(why, rung)
                 ELSE /\ d' = AfterLength(d, len)
                      /\ why' = IF len = 0 THEN Raise(why, NextBlockWhy(d)) ELSE why
  /\ UNCHANGED <<cursor, out, phase, todo, step>>

-----------------------------------------------------------------------------
(* A round: resolve, commit, copy, refill. *)

Active == 0 .. RoundLanes(d) - 1
Pending(l) == l \in Active /\ lanes[l].copy.pending
Table(l) == IF Pending(l) THEN "dist" ELSE "litlen"

\* The lanes a resolve reads bits on.
Reading == CASE d.stage = "bytes" -> {}
             [] d.stage = "symbols" -> Active
             [] d.stage = "drain" -> {l \in Active : Pending(l)}

ModeOf(l, sym, rung, eob) ==
  CASE d.stage = "bytes" -> IF l \in Active THEN "byte" ELSE "idle"
    [] d.stage # "bytes" /\ Pending(l) -> "copy"
    [] d.stage = "drain" /\ ~Pending(l) -> "idle"
    [] d.stage = "symbols" /\ ~Pending(l) ->
         CASE l > eob -> "idle"
           [] l = eob -> "end"
           [] l < eob -> IF rung # "None" \/ sym.kind = "literal" THEN "literal" ELSE "reserve"

\* What a lane claims of the output.
ClaimOf(s) == CASE s.mode = "literal" -> 1
                [] s.mode = "reserve" /\ s.rung = "None" -> s.sym.value
                [] OTHER -> 0
\* Every lower lane's claim, over the base.
ClaimBelow(s, l) ==
  LET Sum[k \in 0..NumStreams] == IF k = 0 THEN 0 ELSE Sum[k - 1] + ClaimOf(s[k - 1])
  IN  Sum[l]

\* The lanes resolve and meet at FirstLane and Claim: the end-of-block lane and
\* the positions are known to all before any lane consumes a bit.
Resolve ==
  /\ d.stage \in {"bytes", "symbols", "drain"} /\ phase = "between"
  /\ page' \in Reads(page, {Bits(lanes[l], Table(l)) : l \in Reading}, Values)
  /\ LET sym == [l \in Lane |-> IF l \in Reading THEN page'[Bits(lanes[l], Table(l))]
                                ELSE NoStep.sym]
         rung == [l \in Lane |-> IF l \in Reading THEN StepWhy(lanes[l], sym[l]) ELSE "None"]
         ends == {l \in Reading : ~Pending(l) /\ rung[l] = "None" /\ sym[l].kind = "end"}
         eob == IF ends = {} THEN NoLane ELSE FirstOf(ends)
         s == [l \in Lane |-> [mode |-> ModeOf(l, sym[l], rung[l], eob), sym |-> sym[l],
                               rung |-> rung[l], pos |-> 0]]
     IN  /\ step' = [l \in Lane |-> [s[l] EXCEPT !.pos = d.out_pos + ClaimBelow(s, l)]]
         /\ d' = [d EXCEPT !.eob = IF d.stage = "symbols" THEN eob ELSE @,
                           !.out_pos = @ + ClaimBelow(s, NumStreams)]
  /\ phase' = "commit"
  /\ todo' = Lane
  /\ UNCHANGED <<lanes, cursor, why, out>>

\* What lane l refuses on, and otherwise does, after the claim.
CommitWhy(l) ==
  LET s == step[l] IN
  CASE s.mode = "idle" -> "None"
    [] s.mode = "byte" -> PopRefuses(lanes[l], ByteBits)
    [] s.mode \notin {"idle", "byte"} /\ s.rung # "None" -> s.rung
    [] s.mode = "copy" /\ s.rung = "None" ->
         IF s.sym.value > lanes[l].copy.out_pos THEN "MatchBeforeOutput" ELSE "None"
    [] s.mode = "literal" /\ s.rung = "None" -> IF LiteralFits(s.pos) THEN "None" ELSE "LiteralPastCap"
    [] s.mode = "reserve" /\ s.rung = "None" ->
         IF ReserveFits(s.pos, s.sym.value) THEN "None" ELSE "MatchPastCap"
    [] s.mode = "end" /\ s.rung = "None" -> "None"
Width(s) == CASE s.mode = "idle" -> 0
              [] s.mode = "byte" -> ByteBits
              [] OTHER -> s.sym.width
CopyAfter(l) ==
  LET s == step[l] IN
  CASE s.mode = "copy" -> [lanes[l].copy EXCEPT !.pending = FALSE]
    [] s.mode = "reserve" -> [pending |-> TRUE, length |-> s.sym.value, out_pos |-> s.pos]
    [] OTHER -> lanes[l].copy
WrittenAt(l) == CASE step[l].mode = "literal" -> {step[l].pos}
                  [] step[l].mode = "byte" -> {d.out_pos + l}
                  [] OTHER -> {}

\* One lane consumes its bits, writes its literal or records its reservation.
Commit(l) ==
  /\ phase = "commit" /\ l \in todo
  /\ \/ /\ CommitWhy(l) # "None"
        /\ why' = [why EXCEPT ![l] = RefuseAs(@, CommitWhy(l))]
        /\ UNCHANGED <<lanes, out>>
     \/ /\ CommitWhy(l) = "None"
        /\ out' = Write(out, [p \in WrittenAt(l) |-> ByteAt(lanes[l])])
        /\ lanes' = [lanes EXCEPT ![l] = [Remove(@, Width(step[l])) EXCEPT !.copy = CopyAfter(l)]]
        /\ UNCHANGED why
  /\ todo' = todo \ {l}
  /\ UNCHANGED <<page, d, cursor, phase, step>>

\* All lanes reach the copy collective and ask or do not.
Meet ==
  /\ phase = "commit" /\ todo = {}
  /\ phase' = "copy"
  /\ todo' = {l \in Lane : step[l].mode = "copy" /\ why[l] = "None"}
  /\ UNCHANGED <<page, d, lanes, cursor, why, out, step>>

\* Mutant: the ballot is walked from its highest bit.
NextCopyFromTop == CHOOSE l \in todo : \A k \in todo : k <= l
NextCopy == FirstOf(todo)
\* One copy at a time, in lane order, by the whole wave.
CopyBytes ==
  /\ phase = "copy" /\ todo # {}
  /\ LET j == NextCopy IN
     /\ out' = CopyGather(out, lanes[j].copy.out_pos, step[j].sym.value, lanes[j].copy.length)
     /\ todo' = todo \ {j}
  /\ UNCHANGED <<page, d, lanes, cursor, why, phase, step>>

\* The ballot of takers, their words by rank, and the team's verdict.
Refill ==
  LET takers == {l \in Active : why[l] = "None" /\ NeedsRefill(lanes[l])}
      word(l) == cursor + Rank(takers, l)
      verdict == Unify([l \in Lane |-> IF l \in takers /\ word(l) >= WordCount
                                       THEN "RefillPastEnd" ELSE why[l]])
  IN
  /\ phase = "copy" /\ todo = {}
  /\ lanes' = [l \in Lane |-> IF l \in takers /\ word(l) < WordCount
                              THEN RefillLane(lanes[l], word(l)) ELSE lanes[l]]
  /\ cursor' = cursor + Cardinality(takers)
  /\ IF Refuses(verdict)
       THEN d' = Refused(d) /\ why' = verdict
       ELSE d' = AfterRound(d) /\ why' = Raise(verdict, AfterRoundWhy(d))
  /\ phase' = "between"
  /\ step' = [l \in Lane |-> NoStep]
  /\ UNCHANGED <<page, out, todo>>

Done == Ended(d) /\ phase = "between" /\ UNCHANGED vars

Step == \/ Header \/ StoredLength \/ Resolve
        \/ \E l \in Lane : Commit(l)
        \/ Meet \/ CopyBytes \/ Refill
Next == Step \/ Done

Spec == Init /\ [][Next]_vars
=============================================================================
