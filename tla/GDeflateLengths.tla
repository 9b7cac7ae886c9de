--------------------------- MODULE GDeflateLengths ---------------------------
(***************************************************************************)
(* A dynamic block's header, read in rounds (GDeflateReadCodeLengthRounds  *)
(* and GDeflateReadDynamicTableRounds, src/gdeflate_tables.h): three       *)
(* counts on lane 0, a precode length per lane, then one code length or    *)
(* one repeat run per lane and round until the two alphabets are full. The *)
(* sequential team reads a round, then the warp reads it from the same     *)
(* bits: its lanes run in any order between the collectives Claim and      *)
(* Serial, and a lane past the vector's end keeps its bits.                *)
(*                                                                         *)
(* First the canonical Huffman tables: a vector of code lengths becomes    *)
(* counts, first codes, a sorted alphabet and a root accelerator, or is    *)
(* refused; a lane's bits are resolved to a symbol through the root or bit *)
(* by bit. A length vector is a function from the symbols 0..n-1; a window *)
(* is the number the next bits make, first bit least significant.          *)
(***************************************************************************)
EXTENDS GDeflateLanes, Sequences

Symbols(lens) == DOMAIN lens
WithLength(lens, len) == {s \in Symbols(lens) : lens[s] = len}
Count(lens, len) == Cardinality(WithLength(lens, len))

\* The running total shifted left once per length.
Codespace(lens, maxLen) ==
  LET Space[len \in 0..maxLen] ==
        IF len = 0 THEN 0 ELSE 2 * Space[len - 1] + Count(lens, len)
  IN  Space[maxLen]

\* The rung a vector is refused on.
\* Mutant: half a codespace is taken for one symbol at length 1.
TableWhyAnyHalf(lens, maxLen) ==
  LET space == Codespace(lens, maxLen)  full == 2^maxLen IN
  CASE \E s \in Symbols(lens) : lens[s] > maxLen -> "TableLengthPastMax"
    [] space > full -> "TableOverSubscribed"
    [] space < full /\ space # 0 /\ space # full \div 2 -> "TableIncomplete"
    [] OTHER -> "None"
TableWhy(lens, maxLen) ==
  LET space == Codespace(lens, maxLen)  full == 2^maxLen IN
  CASE \E s \in Symbols(lens) : lens[s] > maxLen -> "TableLengthPastMax"
    [] space > full -> "TableOverSubscribed"
    [] space < full /\ space # 0 /\ (space # full \div 2 \/ Count(lens, 1) # 1)
         -> "TableIncomplete"
    [] OTHER -> "None"

Kind(lens, maxLen) ==
  CASE Codespace(lens, maxLen) = 2^maxLen -> "complete"
    [] Codespace(lens, maxLen) = 0 -> "empty"
    [] OTHER -> "single"

FirstIndex(lens, maxLen) ==
  LET First[len \in 1..maxLen + 1] ==
        IF len = 1 THEN 0 ELSE First[len - 1] + Count(lens, len - 1)
  IN  First
FirstCode(lens, maxLen) ==
  LET First[len \in 1..maxLen + 1] ==
        IF len = 1 THEN 0 ELSE 2 * (First[len - 1] + Count(lens, len - 1))
  IN  First
\* Canonical order: each symbol at its length's fill cursor, in symbol order.
Sorted(lens, maxLen) ==
  [i \in 0 .. Cardinality({s \in Symbols(lens) : lens[s] # 0}) - 1 |->
     CHOOSE s \in Symbols(lens) :
       /\ lens[s] # 0
       /\ i = FirstIndex(lens, maxLen)[lens[s]]
                + Cardinality({k \in WithLength(lens, lens[s]) : k < s})]

ReverseBits(code, len) ==
  LET Out[i \in 0..len] ==
        IF i = 0 THEN 0 ELSE 2 * Out[i - 1] + ((code \div 2^(i - 1)) % 2)
  IN  Out[len]

NoEntry == [sym |-> 0, len |-> 0]
\* Each codeword of at most rootBits owns the slots it is the low bits of.
Root(lens, maxLen, rootBits) ==
  [slot \in 0 .. 2^rootBits - 1 |->
     LET code(s) == FirstCode(lens, maxLen)[lens[s]]
                      + Cardinality({k \in WithLength(lens, lens[s]) : k < s})
         owns(s) == lens[s] \in 1..rootBits
                    /\ slot % 2^lens[s] = ReverseBits(code(s), lens[s])
     IN IF \E s \in Symbols(lens) : owns(s)
          THEN LET s == CHOOSE s \in Symbols(lens) : owns(s) IN [sym |-> s, len |-> lens[s]]
          ELSE NoEntry]

\* A table of an accepted vector.
BuildTable(lens, maxLen, rootBits) ==
  [kind |-> Kind(lens, maxLen),
   count |-> [len \in 0..maxLen |-> Count(lens, len)],
   first_index |-> FirstIndex(lens, maxLen), first_code |-> FirstCode(lens, maxLen),
   sorted |-> Sorted(lens, maxLen), max_len |-> maxLen, root_bits |-> rootBits,
   root |-> IF Kind(lens, maxLen) = "complete" THEN Root(lens, maxLen, rootBits)
            ELSE [slot \in 0 .. 2^rootBits - 1 |-> NoEntry]]

-----------------------------------------------------------------------------
(* Resolving a symbol: [why, sym, consumed]. *)

\* A symbol met whole is removed from the lane at once.
RemoveRefuses(width, left) == IF width > left THEN "RemovePastLane" ELSE "None"
NotFound(why) == [why |-> why, sym |-> 0, consumed |-> 0]
Found(sym, width, left) ==
  IF RemoveRefuses(width, left) # "None" THEN NotFound(RemoveRefuses(width, left))
  ELSE [why |-> "None", sym |-> sym, consumed |-> width]

\* The codeword the first len bits of the window make, first bit highest.
Arriving(window, len) == ReverseBits(window % 2^len, len)
Matches(t, window, len) ==
  LET code == Arriving(window, len) IN
  t.count[len] # 0 /\ code >= t.first_code[len] /\ code - t.first_code[len] < t.count[len]

\* Bit by bit from length 1: the first length whose range holds the code, unless
\* a bit is asked of a lane that has no more.
Walk(t, window, left) ==
  LET hits == {len \in 1..t.max_len : Matches(t, window, len)}
      len == FirstOf(hits)
      symbol == t.sorted[t.first_index[len] + Arriving(window, len) - t.first_code[len]]
  IN CASE left < (IF hits = {} THEN t.max_len ELSE len) -> NotFound("PopPastLane")
       [] OTHER -> IF hits = {} THEN NotFound("CodewordNotInCode") ELSE Found(symbol, len, left)

\* The bits above `left' are zero, so a short lane still finds some entry, and
\* is refused by the width of what it found.
ResolveSymbol(t, bits, left) ==
  LET window == bits % 2^left
      entry == t.root[window % 2^t.root_bits]
  IN CASE t.kind = "empty" -> NotFound("EmptyTableUsed")
       [] t.kind = "single" -> Found(t.sorted[0], 1, left)
       [] t.kind = "complete" /\ entry.len # 0 -> Found(entry.sym, entry.len, left)
       [] t.kind = "complete" /\ entry.len = 0 -> Walk(t, window, left)

-----------------------------------------------------------------------------
\* The header.
CONSTANTS
  HeaderBits,      \* popped off lane 0 before this header: 3
  CountsBits,      \* width of the three counts: 14
  Counts,          \* their values: [litlen, dist, explicit]
  PrecodeLenBits,  \* width of a precode length: 3
  PrecodeLens,     \* values of a precode length
  PrecodeOrder,    \* the symbol whose length lane i holds, a permutation
  MaxPrecodeLen,   \* longest precode codeword: 7
  RepeatPrev,      \* first repeat code: 16; a symbol below it is a length
  ExtraBits,       \* width of a repeat code's extra bits
  Runs,            \* the counts a repeat code's extra bits make
  MaxCodeLen       \* longest codeword of the two alphabets: 15

PrecodeSyms == DOMAIN PrecodeOrder
Repeats == {s \in PrecodeSyms : s >= RepeatPrev}

ASSUME LengthsAssumption ==
  /\ HeaderBits \in 1..Packet /\ CountsBits \in 1..Packet /\ PrecodeLenBits \in 1..Packet
  /\ PrecodeSyms = 0 .. Cardinality(PrecodeSyms) - 1
  /\ Cardinality(PrecodeSyms) <= NumStreams
  /\ {PrecodeOrder[i] : i \in PrecodeSyms} = PrecodeSyms
  /\ Counts \subseteq [litlen : Nat \ {0}, dist : Nat \ {0}, explicit : 1..Cardinality(PrecodeSyms)]
  /\ \A s \in Repeats : ExtraBits[s] \in Nat /\ Runs[s] \subseteq Nat \ {0}
  /\ WordCount > NumStreams

VARIABLES
  page,          \* what the page's bits have been read as so far
  h, hidx, hwhy, \* the sequential team: its state, lane and verdict
  tokens,        \* history: the codes the sequential team committed
  w, wwhy,       \* the warp: its state, and a verdict per lane
  phase, todo,   \* the part of a round the warp is in, the lanes yet to run it
  step, start,   \* per lane what it resolved and the position it claimed
  turn           \* whose round it is

hostVars == <<h, hidx, hwhy, tokens>>
warpVars == <<w, wwhy, phase, todo, step, start>>
vars == <<page, hostVars, warpVars, turn>>

-----------------------------------------------------------------------------
(* The template's locals and its moves between rounds. *)

NoCounts == [litlen |-> 0, dist |-> 0, explicit |-> 0]
State0 ==
  LET popped == Remove(Primed(0), HeaderBits) IN
  [stage |-> "counts", counts |-> NoCounts, pre |-> [s \in PrecodeSyms |-> 0],
   filled |-> 0, rounds |-> 0, lens |-> <<>>, cursor |-> NumStreams + 1,
   lanes |-> [l \in Lane |-> IF l = 0 THEN RefillLane(popped, NumStreams) ELSE Primed(l)]]
Stages == {"counts", "precode", "build", "expand", "tables", "ok", "refused"}
Total(s) == s.counts.litlen + s.counts.dist
Ended(s) == s.stage \in {"ok", "refused"}

StarvedWhy(s, l) ==
  IF NeedsRefill(s.lanes[l]) /\ s.cursor >= WordCount THEN "RefillPastEnd" ELSE "None"
Ensured(s, l) ==
  IF NeedsRefill(s.lanes[l])
    THEN [s EXCEPT !.lanes[l] = RefillLane(@, s.cursor), !.cursor = @ + 1] ELSE s
RemoveOn(s, l, width) == [s EXCEPT !.lanes[l] = Remove(@, width)]

\* The first refusal in the order the code comes to them.
FirstWhy(whys) ==
  LET real == {i \in DOMAIN whys : whys[i] # "None"} IN
  IF real = {} THEN "None" ELSE whys[FirstOf(real)]

\* The counts: lane 0 topped up, popped, topped up.
CountsWhy(s) ==
  FirstWhy(<<StarvedWhy(s, 0), PopRefuses(Ensured(s, 0).lanes[0], CountsBits),
             StarvedWhy(RemoveOn(Ensured(s, 0), 0, CountsBits), 0)>>)
AfterCounts(s, counts) ==
  [Ensured(RemoveOn(Ensured(s, 0), 0, CountsBits), 0)
     EXCEPT !.stage = "precode", !.counts = counts]

\* The precode is built; the expansion starts at lane 0.
NextRound(s) ==
  [s EXCEPT !.stage = IF s.rounds <= Total(s) /\ s.filled < Total(s) THEN "expand" ELSE "tables"]
AfterRound(s) ==
  IF s.stage = "precode" THEN [s EXCEPT !.stage = "build"]
  ELSE NextRound([s EXCEPT !.rounds = @ + 1])

\* The two alphabets, cut from the one vector.
LitLenLens(s) == [i \in 0 .. s.counts.litlen - 1 |-> s.lens[i]]
DistLens(s) == [i \in 0 .. s.counts.dist - 1 |-> s.lens[s.counts.litlen + i]]
BuildWhy(s) ==
  IF s.stage = "build" THEN TableWhy(s.pre, MaxPrecodeLen)
  ELSE FirstWhy(<<TableWhy(LitLenLens(s), MaxCodeLen), TableWhy(DistLens(s), MaxCodeLen)>>)
AfterBuild(s) == IF s.stage = "build" THEN NextRound(s) ELSE [s EXCEPT !.stage = "ok"]
Building(s) == s.stage \in {"build", "tables"}

RoundLanes(s) == IF s.stage = "precode" THEN 0 .. s.counts.explicit - 1 ELSE Lane

-----------------------------------------------------------------------------
(* A lane's code: a length, or a run with its extra bits. *)

NoCode == [why |-> "EmptyTableUsed", sym |-> 0, code |-> 0, extra |-> 0, count |-> 0]
CodesOf(s, width) ==
  {[why |-> "None", sym |-> s, code |-> width, count |-> n,
    extra |-> IF s \in Repeats THEN ExtraBits[s] ELSE 0] :
     n \in IF s \in Repeats THEN Runs[s] ELSE {1}}
Codes(pre) ==
  IF Kind(pre, MaxPrecodeLen) = "empty" THEN {NoCode}
  ELSE UNION {CodesOf(s, pre[s]) : s \in {p \in PrecodeSyms : pre[p] # 0}}
Values(s) == [table \in {"counts", "prelen", "code"} |->
                CASE table = "counts" -> Counts
                  [] table = "prelen" -> PrecodeLens
                  [] table = "code"   -> Codes(s.pre)]

\* What reading the code and then its extra bits refuses on. The precode's root
\* holds its longest codeword, so that a code is always met whole.
ReadWhy(lane, c) ==
  FirstWhy(<<c.why, RemoveRefuses(c.code, lane.left), PopRefuses(lane, c.code + c.extra)>>)
ClaimOf(lane, c) == IF ReadWhy(lane, c) = "None" THEN c.count ELSE 0

\* The refusals of a lane whose position is inside the vector, in the order they
\* are raised: a shortage of extra bits is already in the read's verdict, so that
\* it comes before the repeat with nothing before it, and not after, as the
\* comment on it has it (src/gdeflate_tables.h:803).
\* Mutant: a run past the alphabet is absorbed.
CommitWhyAbsorbing(s, lane, c, pos) ==
  FirstWhy(<<ReadWhy(lane, c),
             IF c.sym = RepeatPrev /\ pos = 0 THEN "RepeatNothingBefore" ELSE "None">>)
CommitWhy(s, lane, c, pos) ==
  FirstWhy(<<ReadWhy(lane, c),
             IF c.sym = RepeatPrev /\ pos = 0 THEN "RepeatNothingBefore" ELSE "None",
             IF c.count > Total(s) - pos THEN "RepeatRunPastAlphabet" ELSE "None">>)

Stale == -1
LengthAt(lens, p) == IF p \in DOMAIN lens THEN lens[p] ELSE Stale
Fill(lens, c, pos) ==
  LET value == CASE c.sym = RepeatPrev -> LengthAt(lens, pos - 1)
                 [] c.sym < RepeatPrev -> c.sym
                 [] c.sym > RepeatPrev -> 0
      run == pos .. pos + c.count - 1
  IN  [p \in DOMAIN lens \cup run |-> IF p \in run THEN value ELSE lens[p]]

-----------------------------------------------------------------------------
(* The sequential team: a lane steps, is topped up, and the next one runs. *)

HostEnds(s, rung) ==
  /\ h' = IF rung = "None" THEN s ELSE [h EXCEPT !.stage = "refused"]
  /\ hwhy' = RefuseAs(hwhy, rung)

HostCounts ==
  LET at == Bits(Ensured(h, 0).lanes[0], "counts") IN
  /\ h.stage = "counts"
  /\ page' \in Reads(page, {at}, Values(h))
  /\ HostEnds(AfterCounts(h, page'[at]), CountsWhy(h))
  /\ UNCHANGED <<hidx, tokens>>

HostBuild ==
  /\ Building(h)
  /\ HostEnds(AfterBuild(h), BuildWhy(h))
  /\ UNCHANGED <<page, hidx, tokens>>

\* Lane hidx refused, or made s of the state; if it stepped it is due a word, and
\* the next lane runs.
HostAdvance(s, stepped, why) ==
  LET last == hidx + 1 \notin RoundLanes(h)
      rung == FirstWhy(<<why, IF stepped THEN StarvedWhy(s, hidx) ELSE "None">>)
      e == IF stepped THEN Ensured(s, hidx) ELSE s
  IN
  /\ HostEnds(IF last THEN AfterRound(e) ELSE e, rung)
  /\ hidx' = IF last THEN 0 ELSE hidx + 1

HostPrecodeLength ==
  LET at == Bits(h.lanes[hidx], "prelen") IN
  /\ h.stage = "precode"
  /\ page' \in Reads(page, {at}, Values(h))
  /\ HostAdvance([RemoveOn(h, hidx, PrecodeLenBits) EXCEPT !.pre[PrecodeOrder[hidx]] = page'[at]],
                 TRUE, PopRefuses(h.lanes[hidx], PrecodeLenBits))
  /\ UNCHANGED tokens

\* Positions are claimed whether or not the lane is inside the vector; a lane
\* past it takes no step.
HostCode ==
  LET lane == h.lanes[hidx]
      at == Bits(lane, "code")
      c == page'[at]
      claimed == [h EXCEPT !.filled = @ + ClaimOf(lane, c)]
      rung == CommitWhy(h, lane, c, h.filled)
      inside == h.filled < Total(h)
      consumed == [RemoveOn(claimed, hidx, c.code + c.extra) EXCEPT !.lens = Fill(@, c, h.filled)]
  IN
  /\ h.stage = "expand"
  /\ page' \in Reads(page, {at}, Values(h))
  /\ \/ ~inside /\ HostAdvance(claimed, FALSE, "None") /\ UNCHANGED tokens
     \/ /\ inside
        /\ HostAdvance(consumed, TRUE, rung)
        /\ tokens' = IF rung = "None" THEN Append(tokens, c) ELSE tokens

HostStep == HostCounts \/ HostBuild \/ HostPrecodeLength \/ HostCode

-----------------------------------------------------------------------------
(* The warp. *)

WarpEnds(s, verdict) ==
  /\ w' = IF Refuses(verdict) THEN [s EXCEPT !.stage = "refused"] ELSE s
  /\ wwhy' = verdict
OnLane0(rung) == Unify([wwhy EXCEPT ![0] = rung])

WarpCounts ==
  LET at == Bits(Ensured(w, 0).lanes[0], "counts") IN
  /\ w.stage = "counts"
  /\ page' \in Reads(page, {at}, Values(w))
  /\ WarpEnds(AfterCounts(w, page'[at]), OnLane0(CountsWhy(w)))
  /\ UNCHANGED <<phase, todo, step, start>>

\* One lane builds, the rest wait.
WarpBuild ==
  /\ Building(w)
  /\ WarpEnds(IF BuildWhy(w) = "None" THEN AfterBuild(w) ELSE w, OnLane0(BuildWhy(w)))
  /\ UNCHANGED <<page, phase, todo, step, start>>

StartPrecode ==
  /\ w.stage = "precode" /\ phase = "between"
  /\ phase' = "commit" /\ todo' = RoundLanes(w)
  /\ UNCHANGED <<page, w, wwhy, step, start>>

WarpPrecodeLength(l) ==
  LET at == Bits(w.lanes[l], "prelen")
      rung == PopRefuses(w.lanes[l], PrecodeLenBits)
  IN
  /\ w.stage = "precode" /\ phase = "commit" /\ l \in todo
  /\ page' \in Reads(page, {at}, Values(w))
  /\ wwhy' = [wwhy EXCEPT ![l] = RefuseAs(@, rung)]
  /\ w' = IF rung # "None" THEN w
          ELSE [RemoveOn(w, l, PrecodeLenBits) EXCEPT !.pre[PrecodeOrder[l]] = page'[at]]
  /\ todo' = todo \ {l}
  /\ UNCHANGED <<phase, step, start>>

\* Claim: the base plus the claims of the lower lanes.
\* Mutant: the inclusive sum, a lane's own claim with it.
ClaimBelowInclusive(codes, l) ==
  LET Sum[k \in 0 .. NumStreams] ==
        IF k = 0 THEN 0 ELSE Sum[k - 1] + ClaimOf(w.lanes[k - 1], codes[k - 1])
  IN  Sum[IF l < NumStreams THEN l + 1 ELSE l]
ClaimBelow(codes, l) ==
  LET Sum[k \in 0 .. NumStreams] ==
        IF k = 0 THEN 0 ELSE Sum[k - 1] + ClaimOf(w.lanes[k - 1], codes[k - 1])
  IN  Sum[l]

\* All lanes resolve and meet at Claim.
Resolve ==
  /\ w.stage = "expand" /\ phase = "between"
  /\ page' \in Reads(page, {Bits(w.lanes[l], "code") : l \in Lane}, Values(w))
  /\ step' = [l \in Lane |-> page'[Bits(w.lanes[l], "code")]]
  /\ start' = [l \in Lane |-> w.filled + ClaimBelow(step', l)]
  /\ w' = [w EXCEPT !.filled = @ + ClaimBelow(step', NumStreams)]
  /\ phase' = "commit" /\ todo' = Lane
  /\ UNCHANGED wwhy

Inside(l) == start[l] < Total(w)
\* A lane inside the vector refuses or consumes its code.
Commit(l) ==
  LET rung == IF Inside(l) THEN CommitWhy(w, w.lanes[l], step[l], start[l]) ELSE "None" IN
  /\ w.stage = "expand" /\ phase = "commit" /\ l \in todo
  /\ wwhy' = [wwhy EXCEPT ![l] = RefuseAs(@, rung)]
  /\ w' = IF Inside(l) /\ rung = "None" THEN RemoveOn(w, l, step[l].code + step[l].extra) ELSE w
  /\ todo' = todo \ {l}
  /\ UNCHANGED <<page, phase, step, start>>

\* All lanes reach Serial and ask or do not.
Meet ==
  /\ phase = "commit" /\ todo = {}
  /\ phase' = "serial"
  /\ todo' = IF w.stage = "precode" THEN {} ELSE {l \in Lane : Inside(l) /\ wwhy[l] = "None"}
  /\ UNCHANGED <<page, w, wwhy, step, start>>

\* The asking lanes fill their lengths in lane order.
Serial ==
  LET j == FirstOf(todo) IN
  /\ phase = "serial" /\ todo # {}
  /\ w' = [w EXCEPT !.lens = Fill(@, step[j], start[j])]
  /\ todo' = todo \ {j}
  /\ UNCHANGED <<page, wwhy, phase, step, start>>

Stepped(l) == l \in RoundLanes(w) /\ (w.stage = "expand" => Inside(l))
Refill ==
  LET takers == {l \in Lane : Stepped(l) /\ wwhy[l] = "None" /\ NeedsRefill(w.lanes[l])}
      word(l) == w.cursor + Rank(takers, l)
      verdict == Unify([l \in Lane |-> IF l \in takers /\ word(l) >= WordCount
                                       THEN "RefillPastEnd" ELSE wwhy[l]])
      dealt == [w EXCEPT !.cursor = @ + Cardinality(takers),
                         !.lanes = [l \in Lane |-> IF l \in takers /\ word(l) < WordCount
                                                   THEN RefillLane(@[l], word(l)) ELSE @[l]]]
  IN
  /\ phase = "serial" /\ todo = {}
  /\ WarpEnds(IF Refuses(verdict) THEN dealt ELSE AfterRound(dealt), verdict)
  /\ phase' = "between"
  /\ step' = [l \in Lane |-> NoCode] /\ start' = [l \in Lane |-> 0]
  /\ UNCHANGED <<page, todo>>

WarpStep == \/ WarpCounts \/ WarpBuild \/ StartPrecode \/ Resolve
            \/ \E l \in Lane : WarpPrecodeLength(l) \/ Commit(l)
            \/ Meet \/ Serial \/ Refill

-----------------------------------------------------------------------------
Init ==
  /\ page = <<>>
  /\ h = State0 /\ hidx = 0 /\ hwhy = "None" /\ tokens = <<>>
  /\ w = State0 /\ wwhy = [l \in Lane |-> "None"] /\ phase = "between" /\ todo = {}
  /\ step = [l \in Lane |-> NoCode] /\ start = [l \in Lane |-> 0]
  /\ turn = "host"

HostRound ==
  /\ turn = "host" /\ HostStep
  /\ turn' = IF hidx' = 0 \/ Ended(h') THEN "warp" ELSE "host"
  /\ UNCHANGED warpVars
WarpRound ==
  /\ turn = "warp" /\ WarpStep
  /\ turn' = IF phase' = "between" THEN "host" ELSE "warp"
  /\ UNCHANGED hostVars
Done == turn = "host" /\ Ended(h) /\ UNCHANGED vars

Next == HostRound \/ WarpRound \/ Done
Spec == Init /\ [][Next]_vars

-----------------------------------------------------------------------------
(* Properties. *)

\* The lengths the codes stand for, one after the other: the meaning of a run.
Expansion(codes) ==
  LET Lens[i \in 0..Len(codes)] ==
        IF i = 0 THEN <<>>
        ELSE LET c == codes[i] IN
             Lens[i - 1] \o [n \in 1..c.count |->
               CASE c.sym = RepeatPrev -> Lens[i - 1][Len(Lens[i - 1])]
                 [] c.sym < RepeatPrev -> c.sym
                 [] c.sym > RepeatPrev -> 0]
  IN  Lens[Len(codes)]

\* When the tables are built the vector is the expansion of the committed codes,
\* runs crossing from one alphabet into the other included, and holds exactly the
\* declared number of lengths: neither the round cap nor a run ends it early, and
\* no length is a stale one. No lane of either residency ever writes past it, not
\* even in a round a lower lane refused.
LengthsAreExpansion ==
  /\ h.stage \in {"tables", "ok"} =>
       /\ Len(Expansion(tokens)) = Total(h)
       /\ h.lens = [p \in 0 .. Total(h) - 1 |-> Expansion(tokens)[p + 1]]
  /\ DOMAIN h.lens \subseteq 0 .. Total(h) - 1
  /\ DOMAIN w.lens \subseteq 0 .. Total(w) - 1

\* After every round the warp holds what the sequential team holds: the lengths,
\* the positions claimed, the bits and words of each lane, so that the block's
\* first symbol is read from the same place; and the two refuse together, on the
\* same rung. (src/gdeflate_decode.cuh: "the two agree on every value a round can
\* observe".)
HeaderResidenciesAgree ==
  turn = "host" /\ (hidx = 0 \/ Ended(h)) =>
    /\ wwhy[0] = hwhy
    /\ w.stage = h.stage
    /\ h.stage # "refused" => w = h
    /\ \A l \in Lane : (wwhy[l] = "None") <=> (hwhy = "None")

\* The codewords of a vector, by definition: symbols in order of length, then of
\* value; each takes the next of its length's share of the codespace.
Before(lens, r, s) == lens[r] # 0 /\ (lens[r] < lens[s] \/ (lens[r] = lens[s] /\ r < s))
Codeword(lens, s, maxLen) ==
  LET taken == {r \in Symbols(lens) : Before(lens, r, s)}
      Space[S \in SUBSET taken] ==
        IF S = {} THEN 0 ELSE LET r == CHOOSE r \in S : TRUE
                              IN  2^(maxLen - lens[r]) + Space[S \ {r}]
  IN  Space[taken] \div 2^(maxLen - lens[s])
\* The bits of a window in the order they arrive start with the codeword.
StartsWith(window, lens, s, maxLen) ==
  \A i \in 1..lens[s] : (window \div 2^(i - 1)) % 2
                          = (Codeword(lens, s, maxLen) \div 2^(lens[s] - i)) % 2
\* A vector is a code when every window starts with the codeword of one symbol;
\* the format admits one lone symbol of one bit, whichever the bit, and none.
Used(lens) == {s \in Symbols(lens) : lens[s] # 0}
IsCode(lens, maxLen) ==
  \/ Used(lens) = {}
  \/ Cardinality(Used(lens)) = 1 /\ \A s \in Used(lens) : lens[s] = 1
  \/ \A window \in 0 .. 2^maxLen - 1 :
       Cardinality({s \in Used(lens) : StartsWith(window, lens, s, maxLen)}) = 1

\* A vector is accepted exactly when it is a code, over- and under-subscribed ones
\* being refused; and then every window of bits resolves, through the root or bit
\* by bit whatever the root's width, to the symbol whose codeword it starts with,
\* unless the lane holds fewer bits than that codeword, which is refused.
TablesDecode ==
  h.stage = "build" /\ hidx = 0 =>
    LET lens == h.pre  max == MaxPrecodeLen IN
    /\ (TableWhy(lens, max) = "None") <=> IsCode(lens, max)
    /\ TableWhy(lens, max) = "None" /\ Kind(lens, max) # "empty" =>
         \A rootBits \in 1..max : LET t == BuildTable(lens, max, rootBits) IN
           \A window \in 0 .. 2^max - 1, left \in 0..max :
             LET r == ResolveSymbol(t, window, left) IN
             IF r.why = "None"
               THEN /\ r.consumed <= left /\ r.consumed = lens[r.sym]
                    /\ t.kind = "complete" => StartsWith(window, lens, r.sym, max)
               ELSE left < max /\ \A s \in Used(lens) :
                      (t.kind = "single" \/ StartsWith(window % 2^left, lens, s, max))
                        => lens[s] > left
=============================================================================
