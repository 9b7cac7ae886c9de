----------------------------- MODULE GDeflateLanes -----------------------------
(***************************************************************************)
(* The lanes of a GDeflate team (src/gdeflate_schedule.h): the words dealt *)
(* to each lane's bit buffer, what a read ahead of it refuses on, and how  *)
(* a team agrees on one verdict.  Used by the block rounds (GDeflateTeam)  *)
(* and by the code-length rounds (GDeflateLengths).                        *)
(*                                                                         *)
(* A lane's bit buffer is named by the words it was dealt and the bits     *)
(* removed from them; the bits themselves are chosen when they are first   *)
(* read and remembered, so that equal bits always read the same.           *)
(***************************************************************************)
EXTENDS Integers, Sequences, FiniteSets

CONSTANTS
  NumStreams,    \* lanes of a team: 32
  Packet,        \* bits of a word, and the refill watermark: 32
  WordCount      \* whole words of the page

ASSUME LaneAssumption ==
  NumStreams \in Nat \ {0} /\ Packet \in Nat \ {0} /\ WordCount \in Nat /\ WordCount >= NumStreams

Lane == 0 .. NumStreams - 1
NoLane == NumStreams
MaxLaneBits == 2 * Packet - 1

\* A refusal is recorded once: the first one wins.
RefuseAs(why, rung) == IF why = "None" THEN rung ELSE why

-----------------------------------------------------------------------------
(* A lane's bits. *)

NoCopy == [pending |-> FALSE, length |-> 0, out_pos |-> 0]
Primed(l) == [words |-> <<l>>, left |-> Packet, copy |-> NoCopy]
Removed(lane) == Packet * Len(lane.words) - lane.left
Bits(lane, table) == <<lane.words, Removed(lane), table>>

\* What a literal or stored byte read at the lane's bits is, by where it lies.
ByteAt(lane) == <<lane.words[1], Removed(lane)>>

NeedsRefill(lane) == lane.left < Packet
RefillLane(lane, word) ==
  [lane EXCEPT !.words = Append(@, word), !.left = @ + Packet]
Remove(lane, width) == [lane EXCEPT !.left = @ - width]
PopRefuses(lane, width) == IF width > lane.left THEN "PopPastLane" ELSE "None"
BufferedBits(lanes) ==
  LET Sum[l \in 0..NumStreams] == IF l = 0 THEN 0 ELSE Sum[l - 1] + lanes[l - 1].left
  IN  Sum[NumStreams]

\* Every way to read the bits at these keys, given the values the third part of
\* a key allows; bits read before keep theirs.
Reads(page, keys, values) ==
  LET fresh == keys \ DOMAIN page
      choice == UNION {values[k[3]] : k \in fresh}
  IN  { [k \in DOMAIN page \cup fresh |-> IF k \in fresh THEN pick[k] ELSE page[k]] :
        pick \in {p \in [fresh -> choice] : \A k \in fresh : p[k] \in values[k[3]]} }

-----------------------------------------------------------------------------
(* A team's verdict. *)

FirstOf(S) == CHOOSE l \in S : \A k \in S : l <= k
\* Mutant: the lane's own vote counts.
RankWithSelf(S, l) == Cardinality({k \in S : k <= l})
Rank(S, l) == Cardinality({k \in S : k < l})

\* The lowest refusing lane's rung, raised on every lane that did not refuse.
Unify(w) ==
  LET refused == {l \in Lane : w[l] # "None"} IN
  IF refused = {} THEN w ELSE [l \in Lane |-> RefuseAs(w[l], w[FirstOf(refused)])]
Raise(w, rung) == [l \in Lane |-> RefuseAs(w[l], rung)]
Refuses(w) == \E l \in Lane : w[l] # "None"
=============================================================================
