--------------------------- MODULE GDeflateProofs ---------------------------
(***************************************************************************)
(* What the GDeflate rounds promise for every page, every number of lanes  *)
(* and every capacity: first the sequential residency, then the warp, held *)
(* against it round by round.                                              *)
(***************************************************************************)
EXTENDS GDeflateTeams, FiniteSetTheorems, SequenceTheorems, WellFoundedInduction, TLAPS

Tables == {"header", "litlen", "dist", "length"}
Copies == [pending : BOOLEAN, length : Nat, out_pos : Nat]
LaneStates == [words : Seq(Nat), left : Nat, copy : Copies]
Drivers == [stage : Stages, out_pos : Nat, final : BOOLEAN, blocks : Nat, len : Nat,
            done : Nat, rounds : Nat, eob : 0 .. NumStreams]
InRound == hd.stage \in {"bytes", "symbols", "drain"}

\* What has been read of the page is what its table allows.
PageOK(q) == \A k \in DOMAIN q : k[3] \in Tables => q[k] \in Values[k[3]]

LEMMA ReadsAreValues ==
  ASSUME NEW q, PageOK(q), NEW keys, \A k \in keys : k[3] \in Tables,
         NEW r \in Reads(q, keys, Values)
  PROVE  PageOK(r) /\ \A k \in keys : r[k] \in Values[k[3]]
  <1> DEFINE fresh == keys \ DOMAIN q
             choice == UNION {Values[k[3]] : k \in fresh}
             picks == {p \in [fresh -> choice] : \A k \in fresh : p[k] \in Values[k[3]]}
  <1>1. PICK pick \in picks :
          r = [k \in DOMAIN q \cup fresh |-> IF k \in fresh THEN pick[k] ELSE q[k]]
    BY DEF Reads
  <1>2. \A k \in fresh : pick[k] \in Values[k[3]]
    BY <1>1
  <1>3. \A k \in DOMAIN q \cup fresh : k[3] \in Tables => r[k] \in Values[k[3]]
    BY <1>1, <1>2 DEF PageOK
  <1>4. DOMAIN r = DOMAIN q \cup fresh /\ keys \subseteq DOMAIN r
    BY <1>1
  <1> QED BY <1>3, <1>4 DEF PageOK

-----------------------------------------------------------------------------
(* The words of the page. *)

Words(ls, l) == {ls[l].words[i] : i \in DOMAIN ls[l].words}
WordsOnce(ls, c) ==
  /\ UNION {Words(ls, l) : l \in Lane} = 0 .. c - 1
  /\ \A l, k \in Lane : \A i \in DOMAIN ls[l].words, j \in DOMAIN ls[k].words :
       /\ ls[l].words[i] = ls[k].words[j] => l = k /\ i = j
       /\ l = k /\ i < j => ls[l].words[i] < ls[k].words[j]

LEMMA WordsOnceIs == WordsOnce(hlanes, hcursor) <=> Host!WordsDealtOnce
  BY Zenon DEF WordsOnce, Words, Host!WordsDealtOnce, Lane, Host!Lane

LEMMA PrimedWords ==
  ASSUME NEW ls, ls = [l \in Lane |-> Primed(l)]
  PROVE  ls \in [Lane -> LaneStates] /\ WordsOnce(ls, NumStreams)
  <1>1. \A l \in Lane : ls[l] \in LaneStates /\ ls[l].words = <<l>> /\ Words(ls, l) = {l}
    BY LaneAssumption DEF Lane, Primed, NoCopy, LaneStates, Copies, Words
  <1>2. UNION {Words(ls, l) : l \in Lane} = Lane
    BY <1>1
  <1>3. \A l, k \in Lane : \A i \in DOMAIN ls[l].words, j \in DOMAIN ls[k].words :
          i = 1 /\ j = 1 /\ ls[l].words[i] = l /\ ls[k].words[j] = k
    BY <1>1
  <1> QED BY <1>1, <1>2, <1>3, LaneAssumption DEF WordsOnce, Lane

LEMMA KeptWords ==
  ASSUME NEW ls \in [Lane -> LaneStates], NEW c, WordsOnce(ls, c),
         NEW x \in Lane, NEW ln \in LaneStates, ln.words = ls[x].words
  PROVE  WordsOnce([ls EXCEPT ![x] = ln], c)
  <1> DEFINE new == [ls EXCEPT ![x] = ln]
  <1>1. \A l \in Lane : new[l].words = ls[l].words /\ Words(new, l) = Words(ls, l)
    BY DEF Words
  <1>2. {Words(new, l) : l \in Lane} = {Words(ls, l) : l \in Lane}
    BY <1>1
  <1>3. UNION {Words(new, l) : l \in Lane} = 0 .. c - 1
    BY <1>2 DEF WordsOnce
  <1> HIDE DEF new
  <1>4. ASSUME NEW l \in Lane, NEW k \in Lane,
               NEW i \in DOMAIN new[l].words, NEW j \in DOMAIN new[k].words
        PROVE  /\ new[l].words[i] = new[k].words[j] => l = k /\ i = j
               /\ l = k /\ i < j => new[l].words[i] < new[k].words[j]
    BY <1>1, <1>4 DEF WordsOnce
  <1>5. WordsOnce(new, c)
    BY <1>3, <1>4 DEF WordsOnce
  <1> QED BY <1>5 DEF new

\* The word at the cursor goes to one lane; all the others dealt are below it.
LEMMA DealtWords ==
  ASSUME NEW ls \in [Lane -> LaneStates], NEW c \in Nat, WordsOnce(ls, c),
         NEW x \in Lane, NEW ln \in LaneStates, ln.words = Append(ls[x].words, c)
  PROVE  WordsOnce([ls EXCEPT ![x] = ln], c + 1)
  <1> DEFINE new == [ls EXCEPT ![x] = ln]
             n == Len(ls[x].words)
  <1>0. /\ n \in Nat /\ DOMAIN ls[x].words = 1 .. n /\ ls[x].words \in Seq(Nat)
        /\ DOMAIN new[x].words = 1 .. n + 1 /\ new[x].words[n + 1] = c
        /\ \A i \in 1 .. n : new[x].words[i] = ls[x].words[i]
    <2>1. ls[x].words \in Seq(Nat)
      BY DEF LaneStates
    <2>2. n \in Nat /\ DOMAIN ls[x].words = 1 .. n
      BY <2>1
    <2>3. new[x].words = Append(ls[x].words, c)
      OBVIOUS
    <2> HIDE DEF new
    <2>4. \A q \in Seq(Nat) :
            /\ DOMAIN Append(q, c) = 1 .. Len(q) + 1
            /\ Append(q, c)[Len(q) + 1] = c
            /\ \A i \in 1 .. Len(q) : Append(q, c)[i] = q[i]
      OBVIOUS
    <2> QED BY <2>1, <2>2, <2>3, <2>4
  <1>1. \A l \in Lane \ {x} : new[l] = ls[l]
    OBVIOUS
  <1>2. \A l \in Lane : \A i \in DOMAIN ls[l].words : ls[l].words[i] \in 0 .. c - 1
    BY DEF WordsOnce, Words
  <1>3. Words(new, x) = Words(ls, x) \cup {c}
    <2>1. Words(ls, x) = {ls[x].words[i] : i \in 1 .. n}
      BY <1>0 DEF Words
    <2>2. Words(new, x) = {new[x].words[i] : i \in 1 .. n + 1}
      BY <1>0 DEF Words
    <2>3. 1 .. n + 1 = (1 .. n) \cup {n + 1}
      BY <1>0
    <2>4. Words(new, x) = {new[x].words[i] : i \in 1 .. n} \cup {new[x].words[n + 1]}
      <3> HIDE DEF new, n
      <3> QED BY <2>2, <2>3
    <2>5. {new[x].words[i] : i \in 1 .. n} = {ls[x].words[i] : i \in 1 .. n}
      <3> HIDE DEF new, n
      <3> QED BY <1>0
    <2> QED BY <2>1, <2>4, <2>5, <1>0
  <1>4. \A l \in Lane \ {x} : Words(new, l) = Words(ls, l)
    BY <1>1 DEF Words
  <1>5. UNION {Words(new, l) : l \in Lane} = (UNION {Words(ls, l) : l \in Lane}) \cup {c}
    BY <1>3, <1>4
  <1>6. UNION {Words(new, l) : l \in Lane} = 0 .. (c + 1) - 1
    <2>1. (0 .. c - 1) \cup {c} = 0 .. (c + 1) - 1
      OBVIOUS
    <2> QED BY <1>5, <2>1 DEF WordsOnce
  <1>7. ASSUME NEW l \in Lane, NEW k \in Lane,
               NEW i \in DOMAIN new[l].words, NEW j \in DOMAIN new[k].words
        PROVE  /\ new[l].words[i] = new[k].words[j] => l = k /\ i = j
               /\ l = k /\ i < j => new[l].words[i] < new[k].words[j]
    <2> DEFINE Old(a, m) == m \in DOMAIN ls[a].words /\ new[a].words[m] = ls[a].words[m]
    <2>0. ASSUME NEW a \in Lane, NEW m \in DOMAIN new[a].words
          PROVE  Old(a, m) \/ (a = x /\ m = n + 1 /\ new[a].words[m] = c)
      <3>1. CASE a # x
        BY <3>1, <1>1
      <3>2. CASE a = x
        <4>1. m \in 1 .. n + 1
          BY <1>0, <3>2
        <4>2. m \in 1 .. n \/ m = n + 1
          BY <4>1, <1>0
        <4> QED BY <4>2, <3>2, <1>0
      <3> QED BY <3>1, <3>2
    <2>1. Old(l, i) \/ (l = x /\ i = n + 1 /\ new[l].words[i] = c)
      BY <2>0
    <2>2. Old(k, j) \/ (k = x /\ j = n + 1 /\ new[k].words[j] = c)
      BY <2>0
    <2>3. CASE Old(l, i) /\ Old(k, j)
      BY <2>3 DEF WordsOnce
    <2>4. CASE Old(l, i) /\ k = x /\ j = n + 1 /\ new[k].words[j] = c
      <3>1. new[l].words[i] \in 0 .. c - 1
        BY <2>4, <1>2
      <3> QED BY <3>1, <2>4
    <2>5. CASE l = x /\ i = n + 1 /\ new[l].words[i] = c /\ Old(k, j)
      <3>1. new[k].words[j] \in 0 .. c - 1
        BY <2>5, <1>2
      <3>2. l = k => j \in 1 .. n
        BY <2>5, <1>0
      <3> QED BY <3>1, <3>2, <2>5, <1>0
    <2>6. CASE l = x /\ i = n + 1 /\ k = x /\ j = n + 1
      BY <2>6, <1>0
    <2> QED BY <2>1, <2>2, <2>3, <2>4, <2>5, <2>6
  <1> QED BY <1>6, <1>7 DEF WordsOnce

-----------------------------------------------------------------------------
(* The limit on blocks covers a page's bits. *)

LEMMA MulMono ==
  ASSUME NEW a \in Nat, NEW b \in Nat, NEW c \in Nat, b <= c
  PROVE  a * b <= a * c
  <1>1. PICK e \in Nat : c = b + e
    <2>1. c - b \in Nat /\ c = b + (c - b)
      OBVIOUS
    <2> QED BY <2>1
  <1>2. a * c = a * b + a * e /\ a * e \in Nat /\ a * b \in Nat
    BY <1>1
  <1> QED BY <1>2

LEMMA FuelCovers ==
  /\ BlockFuel \in Nat
  /\ \A blocks \in Nat : HeaderBits * blocks <= Packet * WordCount => blocks < BlockFuel
  <1> DEFINE q == MaxLaneBits \div MinMatchLen
  <1>1. Packet \in Nat /\ Packet >= 4 /\ WordCount \in Nat
    BY LaneAssumption, TeamAssumption DEF HeaderBits
  <1>2. q \in Nat /\ 3 * q >= 2 * Packet - 3
    BY <1>1 DEF MaxLaneBits, MinMatchLen
  <1>3. Packet * WordCount < (WordCount + 1) * (3 * q)
    <2> HIDE DEF q
    <2>1. Packet <= 3 * q
      BY <1>1, <1>2
    <2>2. PICK e \in Nat : 3 * q = Packet + e
      <3>1. 3 * q - Packet \in Nat /\ 3 * q = Packet + (3 * q - Packet)
        BY <2>1, <1>1, <1>2
      <3> QED BY <3>1
    <2>3. (WordCount + 1) * (Packet + e) = WordCount * Packet + WordCount * e + Packet + e
      BY <1>1
    <2>4. WordCount * Packet = Packet * WordCount /\ WordCount * e \in Nat /\ WordCount * Packet \in Nat
      BY <1>1
    <2> QED BY <2>2, <2>3, <2>4, <1>1
  <1>4. (WordCount + 1) * (3 * q) = 3 * ((WordCount + 1) * q) /\ (WordCount + 1) * q \in Nat
    <2> HIDE DEF q
    <2> QED BY <1>1, <1>2
  <1>5. BlockFuel = (WordCount + 1) * q
    BY DEF BlockFuel
  <1> HIDE DEF q
  <1>6. BlockFuel \in Nat /\ Packet * WordCount < 3 * BlockFuel
    BY <1>3, <1>4, <1>5
  <1> QED BY <1>6, <1>1 DEF HeaderBits

-----------------------------------------------------------------------------
(* The sequential team between two steps. *)

One(b) == IF b THEN 1 ELSE 0

HostTyped ==
  /\ hlanes \in [Lane -> LaneStates] /\ hcursor \in 0 .. WordCount /\ hidx \in Nat
  /\ hd \in Drivers
HostPlace ==
  /\ hd.stage \in {"header", "length"} => hidx = 0
  /\ hd.stage = "bytes" => hd.done < hd.len /\ hidx < NumStreams /\ hidx < hd.len - hd.done
  /\ hd.stage = "symbols" => hidx < NumStreams /\ (hd.eob = NoLane \/ hd.eob < hidx)
  /\ hd.stage = "drain" => hidx < hd.eob /\ hd.eob < NumStreams

\* A lane due to read has a word's worth of bits; lane 0 may have spent the stored
\* length of them.
HostBits ==
  hd.stage \notin {"ok", "refused"} => \A l \in Lane :
    \/ hlanes[l].left >= Packet
    \/ /\ l = 0 /\ hidx = 0 /\ hd.stage \in {"header", "bytes"}
       /\ hlanes[l].left >= Packet - LenBits

\* Every block cost lane 0 a header, every bit of which came from a word dealt to it.
HostBlocks ==
  /\ HeaderBits * hd.blocks + hlanes[0].left <= Packet * Len(hlanes[0].words)
  /\ Len(hlanes[0].words) <= hcursor

\* Each round lane 0 claims output or retires a reservation.
HostOutput ==
  /\ hd.out_pos <= Cap
  /\ hd.stage = "bytes" => hd.out_pos + hd.len <= Cap + hd.done
  /\ hd.stage = "symbols" /\ hd.eob = NoLane =>
       hd.rounds + One(hidx > 0) + One(hlanes[0].copy.pending) <= 2 * hd.out_pos + 1

HostInv ==
  /\ PageOK(page) /\ HostTyped /\ HostPlace /\ HostBits /\ HostBlocks /\ HostOutput
  /\ WordsOnce(hlanes, hcursor) /\ Host!BackstopsUnreached

LEMMA HostStarts == Init => HostInv
  <1> SUFFICES ASSUME Init PROVE HostInv
    OBVIOUS
  <1> USE DEF Init, Host!Init
  <1>1. hlanes = [l \in Lane |-> Primed(l)] /\ hcursor = NumStreams
    BY DEF Primed, Host!Primed, Lane, Host!Lane, NoCopy, Host!NoCopy
  <1>2. hlanes \in [Lane -> LaneStates] /\ WordsOnce(hlanes, hcursor)
    BY <1>1, PrimedWords
  <1>3. hd = [stage |-> "header", out_pos |-> 0, final |-> FALSE, blocks |-> 0,
              len |-> 0, done |-> 0, rounds |-> 0, eob |-> NumStreams]
    BY DEF Host!Driver0, Host!NoLane
  <1>4. hd \in Drivers
    BY <1>3, LaneAssumption DEF Drivers, Stages
  <1>5. \A l \in Lane : hlanes[l].left = Packet /\ Len(hlanes[l].words) = 1
    BY <1>1 DEF Primed
  <1>6. PageOK(page)
    BY DEF PageOK
  <1>7. HostBlocks
    <2>1. 0 \in Lane /\ hlanes[0].left = Packet /\ Len(hlanes[0].words) = 1
      BY <1>5, LaneAssumption DEF Lane
    <2>2. HeaderBits * hd.blocks = 0 /\ Packet * 1 = Packet /\ hcursor >= 1
      BY <1>1, <1>3, LaneAssumption DEF HeaderBits
    <2>3. HeaderBits * hd.blocks + hlanes[0].left <= Packet * Len(hlanes[0].words)
      <3>1. Packet * Len(hlanes[0].words) = Packet
        BY <2>1, <2>2
      <3> QED BY <2>1, <2>2, <3>1, LaneAssumption
    <2>4. Len(hlanes[0].words) <= hcursor
      BY <2>1, <2>2
    <2> QED BY <2>3, <2>4 DEF HostBlocks
  <1>8. HostTyped /\ HostPlace /\ HostBits
    BY <1>1, <1>2, <1>3, <1>4, <1>5, LaneAssumption DEF HostTyped, HostPlace, HostBits
  <1>9. HostOutput
    BY <1>3, TeamAssumption DEF HostOutput
  <1>10. Host!BackstopsUnreached
    BY DEF Host!BackstopsUnreached
  <1> QED BY <1>2, <1>6, <1>7, <1>8, <1>9, <1>10 DEF HostInv

LEMMA NextBlockGoes ==
  ASSUME NEW e \in Drivers, HeaderBits * e.blocks <= Packet * WordCount
  PROVE  /\ \E s \in {"header", "ok"} : Host!NextBlock(e) = [e EXCEPT !.stage = s]
         /\ Host!NextBlockWhy(e) = "None"
  <1>1. e.blocks \in Nat /\ e.blocks < BlockFuel
    BY FuelCovers DEF Drivers
  <1>2. Host!BlockFuel = BlockFuel
    BY DEF BlockFuel, Host!BlockFuel, MaxLaneBits, Host!MaxLaneBits, MinMatchLen, Host!MinMatchLen
  <1>3. \E s \in {"header", "ok"} : Host!NextBlock(e) = [e EXCEPT !.stage = s]
    BY <1>1, <1>2 DEF Host!NextBlock
  <1>4. Host!NextBlock(e).stage # "refused"
    BY <1>3 DEF Drivers
  <1> QED BY <1>3, <1>4 DEF Host!NextBlockWhy

\* What a lane's bits cost does not outgrow the page.
LEMMA BlocksPaid ==
  ASSUME NEW blocks \in Nat, NEW left \in Nat, NEW n \in Nat, NEW c \in 0 .. WordCount,
         HeaderBits * blocks + left <= Packet * n, n <= c
  PROVE  HeaderBits * blocks <= Packet * WordCount
  <1>1. Packet * n <= Packet * WordCount
    BY MulMono, LaneAssumption
  <1>2. Packet * n \in Nat /\ Packet * WordCount \in Nat
    BY LaneAssumption
  <1> QED BY <1>1, <1>2 DEF HeaderBits

\* A lane topped up, or not, and the cursor after it.
LEMMA Topped ==
  ASSUME HostInv, NEW x \in Lane, NEW lane \in LaneStates, lane.words = hlanes[x].words,
         NEW blocks \in Nat,
         HeaderBits * blocks + (IF x = 0 THEN lane.left ELSE hlanes[0].left)
           <= Packet * Len(hlanes[0].words),
         \/ hlanes' = [hlanes EXCEPT ![x] = lane] /\ hcursor' = hcursor
         \/ /\ ~Host!Starved(lane)
            /\ hlanes' = [hlanes EXCEPT ![x] = Host!Ensured(lane)]
            /\ hcursor' = Host!NextCursor(lane)
  PROVE  /\ hlanes' \in [Lane -> LaneStates] /\ hcursor' \in 0 .. WordCount
         /\ WordsOnce(hlanes', hcursor')
         /\ HeaderBits * blocks + hlanes'[0].left <= Packet * Len(hlanes'[0].words)
         /\ Len(hlanes'[0].words) <= hcursor'
         /\ HeaderBits * blocks <= Packet * WordCount
         /\ \A l \in Lane \ {x} : hlanes'[l] = hlanes[l]
         /\ hlanes'[x].copy = lane.copy
         /\ hlanes' # [hlanes EXCEPT ![x] = lane] => hlanes'[x].left >= Packet
         /\ hlanes' = [hlanes EXCEPT ![x] = Host!Ensured(lane)] => hlanes'[x].left >= Packet
  <1>1. /\ hlanes \in [Lane -> LaneStates] /\ hcursor \in 0 .. WordCount
        /\ hcursor \in Nat /\ WordCount \in Nat /\ Packet \in Nat /\ 0 \in Lane
    BY LaneAssumption DEF HostInv, HostTyped, Lane
  <1>2. lane.left \in Nat /\ lane.words \in Seq(Nat) /\ lane.copy \in Copies
    BY DEF LaneStates
  <1> DEFINE fed == [words |-> Append(lane.words, hcursor), left |-> lane.left + Packet,
                     copy |-> lane.copy]
  <1>3. Host!RefillLane(lane, hcursor) = fed
    <2>1. lane = [words |-> lane.words, left |-> lane.left, copy |-> lane.copy]
      BY DEF LaneStates
    <2>2. Host!RefillLane(lane, hcursor)
            = [lane EXCEPT !.words = Append(lane.words, hcursor), !.left = lane.left + Packet]
      BY <2>1 DEF Host!RefillLane
    <2> QED BY <2>1, <2>2
  <1>4. PICK ln \in LaneStates :
          /\ hlanes' = [hlanes EXCEPT ![x] = ln] /\ ln.copy = lane.copy
          /\ \/ ln = lane /\ hcursor' = hcursor
             \/ ln = fed /\ hcursor' = hcursor + 1 /\ hcursor < WordCount
    <2>1. CASE hlanes' = [hlanes EXCEPT ![x] = lane] /\ hcursor' = hcursor
      BY <2>1
    <2>2. CASE /\ ~Host!Starved(lane)
               /\ hlanes' = [hlanes EXCEPT ![x] = Host!Ensured(lane)]
               /\ hcursor' = Host!NextCursor(lane)
      <3>1. fed \in LaneStates
        BY <1>1, <1>2 DEF LaneStates
      <3>2. CASE Host!NeedsRefill(lane)
        <4>1. Host!Ensured(lane) = fed /\ hcursor' = hcursor + 1
          BY <2>2, <3>2, <1>3 DEF Host!Ensured, Host!NextCursor
        <4>2. hcursor < WordCount
          BY <2>2, <3>2, <1>1 DEF Host!Starved
        <4> QED BY <2>2, <3>1, <4>1, <4>2
      <3>3. CASE ~Host!NeedsRefill(lane)
        BY <2>2, <3>3 DEF Host!Ensured, Host!NextCursor
      <3> QED BY <3>2, <3>3
    <2> QED BY <2>1, <2>2
  <1>5. hlanes' \in [Lane -> LaneStates] /\ hcursor' \in 0 .. WordCount
    BY <1>1, <1>4
  <1>6. WordsOnce(hlanes', hcursor')
    <2>0. WordsOnce(hlanes, hcursor)
      BY DEF HostInv
    <2>1. CASE ln = lane /\ hcursor' = hcursor
      BY <2>0, <2>1, <1>1, <1>4, KeptWords
    <2>2. CASE ln = fed /\ hcursor' = hcursor + 1
      <3>1. ln.words = Append(hlanes[x].words, hcursor)
        BY <2>2
      <3> QED BY <2>0, <2>2, <3>1, <1>1, <1>4, DealtWords
    <2> QED BY <2>1, <2>2, <1>4
  <1>7. \A l \in Lane \ {x} : hlanes'[l] = hlanes[l]
    BY <1>1, <1>4
  <1>8. hlanes'[x] = ln
    BY <1>1, <1>4
  <1>9. hlanes[0].words \in Seq(Nat) /\ hlanes[0].left \in Nat
    BY <1>1 DEF LaneStates
  <1>10. /\ HeaderBits * blocks + hlanes'[0].left <= Packet * Len(hlanes'[0].words)
         /\ Len(hlanes'[0].words) <= hcursor'
    <2>0. Len(hlanes[0].words) <= hcursor /\ Len(hlanes[0].words) \in Nat
      BY <1>9 DEF HostInv, HostBlocks
    <2>1. CASE x # 0
      BY <2>0, <2>1, <1>1, <1>4, <1>7
    <2>2. CASE x = 0 /\ ln = lane /\ hcursor' = hcursor
      BY <2>0, <2>2, <1>8
    <2>3. CASE x = 0 /\ ln = fed /\ hcursor' = hcursor + 1
      <3>1. Len(ln.words) = Len(hlanes[0].words) + 1 /\ ln.left = lane.left + Packet
        BY <2>3, <1>2
      <3>2. Packet * (Len(hlanes[0].words) + 1) = Packet * Len(hlanes[0].words) + Packet
        BY <2>0, <1>1
      <3>3. Packet * Len(hlanes[0].words) \in Nat /\ HeaderBits * blocks \in Nat
        BY <2>0, <1>1 DEF HeaderBits
      <3>4. HeaderBits * blocks + lane.left <= Packet * Len(hlanes[0].words)
        BY <2>3
      <3>5. HeaderBits * blocks + (lane.left + Packet) <= Packet * Len(hlanes[0].words) + Packet
        BY <3>3, <3>4, <1>1, <1>2
      <3> QED BY <3>1, <3>2, <3>5, <2>0, <2>3, <1>1, <1>8
    <2> QED BY <2>1, <2>2, <2>3, <1>4
  <1>11. HeaderBits * blocks <= Packet * WordCount
    <2>1. hlanes'[0].left \in Nat /\ Len(hlanes'[0].words) \in Nat
      <3>1. hlanes'[0] \in LaneStates
        BY <1>1, <1>5
      <3> QED BY <3>1 DEF LaneStates
    <2> QED BY <2>1, <1>5, <1>10, BlocksPaid
  <1>12. ln = fed => ln.left >= Packet
    BY <1>1, <1>2
  <1>13. hlanes' # [hlanes EXCEPT ![x] = lane] => hlanes'[x].left >= Packet
    BY <1>4, <1>8, <1>12
  <1>14. hlanes' = [hlanes EXCEPT ![x] = Host!Ensured(lane)] => hlanes'[x].left >= Packet
    <2>1. CASE Host!NeedsRefill(lane)
      BY <2>1, <1>1, <1>2, <1>3 DEF Host!Ensured
    <2>2. CASE ~Host!NeedsRefill(lane)
      BY <2>2, <1>1, <1>2 DEF Host!Ensured, Host!NeedsRefill
    <2> QED BY <2>1, <2>2
  <1> QED BY <1>4, <1>5, <1>6, <1>7, <1>8, <1>10, <1>11, <1>13, <1>14

\* What a refusal may be.
Refusals == {"None", "RefillPastEnd", "BlockTypeReserved", "StoredPastCap", "StoredPastPage",
             "BadCode", "LiteralPastCap", "MatchPastCap", "MatchBeforeOutput"}

LEMMA NoBackstop ==
  ASSUME Host!BackstopsUnreached, NEW rung \in Refusals, hwhy' = Host!RefuseAs(hwhy, rung)
  PROVE  Host!BackstopsUnreached'
  BY DEF Host!BackstopsUnreached, Host!RefuseAs, Refusals

\* A refusal ends the decode where it is.
LEMMA RefusedKeeps ==
  ASSUME HostInv, PageOK(page'), NEW rung \in Refusals, Host!Fails(rung),
         NEW x \in Lane, NEW lane \in LaneStates, lane.words = hlanes[x].words,
         x = 0 => lane.left <= hlanes[0].left,
         hlanes' = [hlanes EXCEPT ![x] = lane]
  PROVE  HostInv'
  <1>1. /\ hd \in Drivers /\ hlanes \in [Lane -> LaneStates] /\ hd.blocks \in Nat
        /\ 0 \in Lane /\ hidx \in Nat
    BY LaneAssumption DEF HostInv, HostTyped, Drivers, Lane
  <1>2. hd' = [hd EXCEPT !.stage = "refused"] /\ hcursor' = hcursor /\ hidx' = hidx
    BY DEF Host!Fails, Host!Refused
  <1>3. hd' \in Drivers /\ hd'.stage = "refused" /\ hd'.blocks = hd.blocks /\ hd'.out_pos = hd.out_pos
    BY <1>1, <1>2 DEF Drivers, Stages
  <1>4. HeaderBits * hd.blocks + (IF x = 0 THEN lane.left ELSE hlanes[0].left)
          <= Packet * Len(hlanes[0].words)
    <2>1. HeaderBits * hd.blocks + hlanes[0].left <= Packet * Len(hlanes[0].words)
      BY DEF HostInv, HostBlocks
    <2>2. hlanes[0].left \in Nat /\ lane.left \in Nat /\ Len(hlanes[0].words) \in Nat
      BY <1>1 DEF LaneStates
    <2>3. Packet * Len(hlanes[0].words) \in Nat /\ HeaderBits * hd.blocks \in Nat
      BY <1>1, <2>2, LaneAssumption DEF HeaderBits
    <2> QED BY <2>1, <2>2, <2>3
  <1>5. /\ hlanes' \in [Lane -> LaneStates] /\ hcursor' \in 0 .. WordCount
        /\ WordsOnce(hlanes', hcursor')
        /\ HeaderBits * hd.blocks + hlanes'[0].left <= Packet * Len(hlanes'[0].words)
        /\ Len(hlanes'[0].words) <= hcursor'
    BY <1>1, <1>2, <1>4, Topped
  <1>6. HostTyped' /\ HostBlocks'
    BY <1>1, <1>2, <1>3, <1>5 DEF HostTyped, HostBlocks
  <1>7. HostPlace' /\ HostBits' /\ HostOutput'
    BY <1>3 DEF HostPlace, HostBits, HostOutput, HostInv
  <1>8. Host!BackstopsUnreached'
    BY NoBackstop DEF Host!Fails, HostInv
  <1> QED BY <1>5, <1>6, <1>7, <1>8 DEF HostInv

\* A lane has stepped: it is dealt its word, and the round goes on or is over.
LEMMA AdvanceKeeps ==
  ASSUME HostInv, InRound, PageOK(page'),
         NEW lane \in LaneStates, lane.words = hlanes[hidx].words,
         hidx = 0 => lane.left <= hlanes[0].left,
         NEW e \in Drivers, e.stage = hd.stage, e.blocks = hd.blocks, e.rounds = hd.rounds,
         e.out_pos <= Cap,
         hd.stage # "symbols" => e = hd,
         hd.stage = "symbols" => e.eob = NoLane \/ e.eob <= hidx,
         hd.stage = "symbols" /\ e.eob = NoLane =>
           hd.rounds + 1 + One(IF hidx = 0 THEN lane.copy.pending ELSE hlanes[0].copy.pending)
             <= 2 * e.out_pos + 1,
         Host!Advance(lane, e)
  PROVE  HostInv'
  <1>1. /\ hd \in Drivers /\ hlanes \in [Lane -> LaneStates] /\ hd.blocks \in Nat
        /\ hidx \in Nat /\ NumStreams \in Nat \ {0} /\ Cap \in Nat /\ Packet \in Nat
    BY LaneAssumption, TeamAssumption DEF HostInv, HostTyped, Drivers
  <1>2. hidx \in Lane /\ 0 \in Lane
    BY <1>1 DEF HostInv, HostPlace, InRound, Lane, NoLane, Drivers
  <1>3. CASE Host!Starved(lane) /\ hlanes' = [hlanes EXCEPT ![hidx] = lane] /\ Host!Fails("RefillPastEnd")
    BY <1>2, <1>3, RefusedKeeps DEF Refusals
  <1>4. CASE ~Host!Starved(lane) /\ hlanes' = [hlanes EXCEPT ![hidx] = Host!Ensured(lane)]
    <2> DEFINE last == hidx + 1 = Host!RoundLanes(hd)
    <2>1. /\ hcursor' = Host!NextCursor(lane)
          /\ hidx' = IF last THEN 0 ELSE hidx + 1
          /\ hd' = IF last THEN Host!AfterRound(e) ELSE e
          /\ hwhy' = IF last THEN Host!RefuseAs(hwhy, Host!AfterRoundWhy(e)) ELSE hwhy
      BY <1>4 DEF Host!Advance
    <2>2. HeaderBits * hd.blocks + (IF hidx = 0 THEN lane.left ELSE hlanes[0].left)
            <= Packet * Len(hlanes[0].words)
      <3>1. HeaderBits * hd.blocks + hlanes[0].left <= Packet * Len(hlanes[0].words)
        BY DEF HostInv, HostBlocks
      <3>2. hlanes[0].left \in Nat /\ lane.left \in Nat /\ Len(hlanes[0].words) \in Nat
        BY <1>1, <1>2 DEF LaneStates
      <3>3. Packet * Len(hlanes[0].words) \in Nat /\ HeaderBits * hd.blocks \in Nat
        BY <1>1, <3>2 DEF HeaderBits
      <3> QED BY <3>1, <3>2, <3>3
    <2>3. /\ hlanes' \in [Lane -> LaneStates] /\ hcursor' \in 0 .. WordCount
          /\ WordsOnce(hlanes', hcursor')
          /\ HeaderBits * hd.blocks + hlanes'[0].left <= Packet * Len(hlanes'[0].words)
          /\ Len(hlanes'[0].words) <= hcursor'
          /\ HeaderBits * hd.blocks <= Packet * WordCount
          /\ \A l \in Lane \ {hidx} : hlanes'[l] = hlanes[l]
          /\ hlanes'[hidx].copy = lane.copy
          /\ hlanes'[hidx].left >= Packet
      BY <1>1, <1>2, <1>4, <2>1, <2>2, Topped
    <2>4. \A l \in Lane : hlanes'[l].left >= Packet
      <3>1. \A l \in Lane \ {hidx} : hlanes[l].left >= Packet
        <4>1. \A l \in Lane \ {hidx} : l = 0 => hidx # 0
          OBVIOUS
        <4> QED BY <4>1 DEF HostInv, HostBits, InRound
      <3> QED BY <3>1, <2>3
    <2>5. hlanes'[0].copy = (IF hidx = 0 THEN lane.copy ELSE hlanes[0].copy)
      BY <1>2, <2>3
    <2>6. HostBits'
      BY <2>4 DEF HostBits
    <2>7. CASE ~last
      <3>1. hd' = e /\ hidx' = hidx + 1 /\ hwhy' = hwhy
        BY <2>1, <2>7
      <3>2. HostTyped' /\ HostBlocks'
        BY <1>1, <2>3, <3>1 DEF HostTyped, HostBlocks
      <3>3. HostPlace'
        <4>1. CASE hd.stage = "bytes"
          BY <4>1, <1>1, <2>7, <3>1 DEF HostPlace, HostInv, Host!RoundLanes, Drivers
        <4>2. CASE hd.stage = "symbols"
          BY <4>2, <1>1, <2>7, <3>1 DEF HostPlace, HostInv, Host!RoundLanes, Drivers, NoLane
        <4>3. CASE hd.stage = "drain"
          BY <4>3, <1>1, <2>7, <3>1 DEF HostPlace, HostInv, Host!RoundLanes, Drivers
        <4> QED BY <4>1, <4>2, <4>3 DEF InRound
      <3>4. HostOutput'
        <4>1. hidx' > 0
          BY <3>1, <1>1
        <4>2. hd'.stage = "bytes" => hd'.out_pos + hd'.len <= Cap + hd'.done
          BY <3>1 DEF HostInv, HostOutput
        <4>3. ASSUME hd'.stage = "symbols", hd'.eob = NoLane
              PROVE  hd'.rounds + One(hidx' > 0) + One(hlanes'[0].copy.pending) <= 2 * hd'.out_pos + 1
          <5>1. One(hidx' > 0) = 1
            BY <4>1 DEF One
          <5> QED BY <4>3, <5>1, <2>5, <3>1
        <4> QED BY <4>2, <4>3, <3>1 DEF HostOutput
      <3>5. Host!BackstopsUnreached'
        BY <3>1 DEF HostInv, Host!BackstopsUnreached
      <3> QED BY <2>3, <2>6, <3>2, <3>3, <3>4, <3>5 DEF HostInv
    <2>8. CASE last
      <3>1. hd' = Host!AfterRound(e) /\ hidx' = 0 /\ hwhy' = Host!RefuseAs(hwhy, Host!AfterRoundWhy(e))
        BY <2>1, <2>8
      <3>2. ASSUME NEW f \in Drivers, f.blocks = hd.blocks, f.out_pos <= Cap,
                   \/ f.stage = "bytes" /\ f.done < f.len /\ f.out_pos + f.len <= Cap + f.done
                   \/ /\ f.stage = "symbols"
                      /\ f.eob = NoLane
                      /\ f.rounds + One(hlanes'[0].copy.pending) <= 2 * f.out_pos + 1
                   \/ f.stage = "drain" /\ 0 < f.eob /\ f.eob < NumStreams
                   \/ f.stage \in {"header", "ok"},
                   hd' = f, Host!AfterRoundWhy(e) = "None"
            PROVE  HostInv'
        <4>1. HostTyped' /\ HostBlocks'
          BY <1>1, <2>3, <3>1, <3>2 DEF HostTyped, HostBlocks
        <4>2. HostPlace'
          BY <1>1, <3>1, <3>2 DEF HostPlace, Drivers
        <4>3. One(hidx' > 0) = 0
          BY <3>1 DEF One
        <4>4. f.rounds \in Nat /\ One(hlanes'[0].copy.pending) \in Nat
          BY DEF Drivers, One
        <4>5. HostOutput'
          BY <3>2, <4>3, <4>4 DEF HostOutput
        <4>6. Host!BackstopsUnreached'
          BY <3>1, <3>2, NoBackstop DEF HostInv, Refusals
        <4> QED BY <2>3, <2>6, <4>1, <4>2, <4>5, <4>6 DEF HostInv
      <3>3. CASE hd.stage = "bytes"
        <4>0. e = hd /\ hd.done \in Nat /\ hd.len \in Nat /\ hd.out_pos \in Nat /\ hd.done < hd.len
          BY <1>1, <3>3 DEF Drivers, HostInv, HostPlace
        <4> DEFINE n == Host!RoundLanes(hd)
                   f == [hd EXCEPT !.out_pos = hd.out_pos + n, !.done = hd.done + n]
        <4>1. n \in Nat /\ n <= hd.len - hd.done
          BY <1>1, <3>3, <4>0 DEF Host!RoundLanes
        <4>2. f \in Drivers /\ f.stage = "bytes" /\ f.blocks = hd.blocks
              /\ f.done = hd.done + n /\ f.out_pos = hd.out_pos + n /\ f.len = hd.len
          <5> HIDE DEF n
          <5>1. hd.out_pos + n \in Nat /\ hd.done + n \in Nat
            BY <4>0, <4>1
          <5>2. f \in Drivers
            BY <1>1, <5>1 DEF Drivers
          <5> QED BY <1>1, <3>3, <5>2 DEF Drivers
        <4>3. hd' = IF f.done < f.len THEN f ELSE Host!NextBlock(f)
          <5>1. [hd EXCEPT !.out_pos = @ + n, !.done = @ + n] = f
            BY <1>1 DEF Drivers
          <5> QED BY <3>1, <3>3, <4>0, <5>1 DEF Host!AfterRound, Host!AfterBytes
        <4>4. hd.out_pos + hd.len <= Cap + hd.done
          BY <3>3 DEF HostInv, HostOutput
        <4> HIDE DEF f, n
        <4>5. f.out_pos + f.len <= Cap + f.done /\ f.out_pos <= Cap
          BY <1>1, <4>0, <4>1, <4>2, <4>4
        <4>6. PICK s \in {"header", "ok"} : Host!NextBlock(f) = [f EXCEPT !.stage = s]
          BY <2>3, <4>2, NextBlockGoes
        <4>7. Host!AfterRound(e).stage # "refused"
          BY <3>1, <4>2, <4>3, <4>6 DEF Drivers
        <4>8. Host!AfterRoundWhy(e) = "None"
          BY <3>3, <4>0, <4>7 DEF Host!AfterRoundWhy
        <4>9. CASE f.done < f.len
          BY <3>2, <4>2, <4>3, <4>5, <4>8, <4>9
        <4>10. CASE ~(f.done < f.len)
          <5> DEFINE g == [f EXCEPT !.stage = s]
          <5>1. g \in Drivers /\ g.stage = s /\ g.blocks = hd.blocks /\ g.out_pos <= Cap
            BY <4>2, <4>5 DEF Drivers, Stages
          <5>2. hd' = g
            BY <4>3, <4>6, <4>10
          <5> HIDE DEF g
          <5> QED BY <3>2, <4>8, <5>1, <5>2
        <4> QED BY <4>9, <4>10
      <3>4. CASE hd.stage = "symbols" /\ e.eob = NoLane
        <4>0. e.rounds \in Nat /\ e.out_pos \in Nat
          BY DEF Drivers
        <4>1. e.rounds + 1 + One(hlanes'[0].copy.pending) <= 2 * e.out_pos + 1
          BY <2>5, <3>4
        <4>2. One(hlanes'[0].copy.pending) \in Nat
          BY DEF One
        <4>3. Host!RoundFuel = 2 * (Cap + 1) + NumStreams
          BY DEF Host!RoundFuel
        <4>4. e.rounds + 1 < Host!RoundFuel
          BY <1>1, <4>0, <4>1, <4>2, <4>3
        <4> DEFINE f == [e EXCEPT !.rounds = e.rounds + 1]
        <4>5. Host!AfterRound(e) = f
          <5>1. [e EXCEPT !.rounds = @ + 1] = f
            BY DEF Drivers
          <5>2. e.eob = Host!NoLane /\ e.stage = "symbols"
            BY <3>4 DEF NoLane, Host!NoLane
          <5>3. Host!AfterSymbols(e) = f
            <6> HIDE DEF f
            <6>1. Host!NoLane # 0
              BY <1>1 DEF Host!NoLane
            <6> QED BY <4>4, <5>1, <5>2, <6>1 DEF Host!AfterSymbols
          <5> QED BY <5>2, <5>3 DEF Host!AfterRound
        <4>6. f \in Drivers /\ f.stage = "symbols" /\ f.eob = NoLane /\ f.blocks = hd.blocks
              /\ f.out_pos = e.out_pos /\ f.rounds = e.rounds + 1
          BY <3>4, <4>0 DEF Drivers
        <4>7. Host!AfterRoundWhy(e) = "None"
          BY <3>4, <4>5, <4>6 DEF Host!AfterRoundWhy
        <4> HIDE DEF f
        <4> QED BY <3>1, <3>2, <4>1, <4>5, <4>6, <4>7
      <3>5. CASE hd.stage = "drain" \/ (hd.stage = "symbols" /\ e.eob = 0)
        <4>1. Host!AfterRound(e) = Host!NextBlock(e)
          BY <1>1, <3>5 DEF Host!AfterRound, Host!AfterSymbols, Host!NoLane
        <4>2. PICK s \in {"header", "ok"} : Host!NextBlock(e) = [e EXCEPT !.stage = s]
          BY <2>3, NextBlockGoes
        <4> DEFINE g == [e EXCEPT !.stage = s]
        <4>3. g \in Drivers /\ g.stage = s /\ g.blocks = hd.blocks /\ g.out_pos <= Cap
          BY DEF Drivers, Stages
        <4>4. hd' = g
          BY <3>1, <4>1, <4>2
        <4>5. Host!AfterRoundWhy(e) = "None"
          BY <3>1, <4>3, <4>4 DEF Host!AfterRoundWhy
        <4> HIDE DEF g
        <4> QED BY <3>2, <4>3, <4>4, <4>5
      <3>6. CASE hd.stage = "symbols" /\ e.eob # NoLane /\ e.eob # 0
        <4>0. e.eob \in Nat /\ 0 < e.eob /\ e.eob < NumStreams
          BY <1>1, <3>6 DEF Drivers, NoLane
        <4> DEFINE g == [e EXCEPT !.stage = "drain"]
        <4>1. Host!AfterRound(e) = g
          BY <3>6, <4>0 DEF Host!AfterRound, Host!AfterSymbols, NoLane, Host!NoLane
        <4>2. g \in Drivers /\ g.stage = "drain" /\ g.blocks = hd.blocks /\ g.out_pos <= Cap
              /\ g.eob = e.eob
          BY DEF Drivers, Stages
        <4>3. hd' = g /\ Host!AfterRoundWhy(e) = "None"
          BY <3>1, <4>1, <4>2 DEF Host!AfterRoundWhy
        <4> HIDE DEF g
        <4> QED BY <3>2, <4>0, <4>2, <4>3
      <3> QED BY <3>3, <3>4, <3>5, <3>6 DEF InRound
    <2> QED BY <2>7, <2>8
  <1> QED BY <1>3, <1>4 DEF Host!Advance

\* What the team reads at a lane's bits is what the table allows.
LEMMA HostReads ==
  ASSUME PageOK(page), NEW lane, NEW t \in Tables,
         page' \in Host!Reads(page, {Host!Bits(lane, t)}, Host!Values)
  PROVE  PageOK(page') /\ page'[Host!Bits(lane, t)] \in Values[t]
  <1> DEFINE keys == {Host!Bits(lane, t)}
  <1>1. Host!Bits(lane, t)[3] = t
    BY DEF Host!Bits
  <1>2. Host!Values = Values
    BY DEF Host!Values, Values
  <1>3. page' \in Reads(page, keys, Values)
    BY <1>2 DEF Reads, Host!Reads
  <1>4. \A k \in keys : k[3] \in Tables
    BY <1>1
  <1> HIDE DEF keys
  <1>5. PageOK(page') /\ \A k \in keys : page'[k] \in Values[k[3]]
    BY <1>3, <1>4, ReadsAreValues
  <1> QED BY <1>1, <1>5 DEF keys

\* A lane that reads has the bits; the field leaves a lane with fewer.
LEMMA Popped ==
  ASSUME NEW lane \in LaneStates, NEW width \in Nat, width <= lane.left
  PROVE  /\ Host!PopRefuses(lane, width) = "None"
         /\ Host!Remove(lane, width) \in LaneStates
         /\ Host!Remove(lane, width).words = lane.words
         /\ Host!Remove(lane, width).copy = lane.copy
         /\ Host!Remove(lane, width).left = lane.left - width
  <1>1. lane.left - width \in Nat
    BY DEF LaneStates
  <1> QED BY <1>1 DEF LaneStates, Host!PopRefuses, Host!Remove

LEMMA HostHeader == ASSUME HostInv, Host!Header PROVE HostInv'
  <1> DEFINE lane == hlanes[0]
             popped == Host!Remove(lane, HeaderBits)
             header == page'[Host!Bits(lane, "header")]
             e == [hd EXCEPT !.blocks = hd.blocks + 1]
  <1>0. Host!HeaderBits = HeaderBits /\ HeaderBits = 3
    BY DEF Host!HeaderBits, HeaderBits
  <1>1. /\ hd \in Drivers /\ hlanes \in [Lane -> LaneStates] /\ hd.blocks \in Nat
        /\ NumStreams \in Nat \ {0} /\ Packet \in Nat /\ 0 \in Lane /\ lane \in LaneStates
        /\ hd.stage = "header" /\ hidx = 0 /\ lane.left \in Nat
    <2>1. hd \in Drivers /\ hlanes \in [Lane -> LaneStates] /\ hd.stage = "header" /\ hidx = 0
      BY DEF HostInv, HostTyped, HostPlace, Host!Header
    <2>2. 0 \in Lane /\ NumStreams \in Nat \ {0} /\ Packet \in Nat
      BY LaneAssumption DEF Lane
    <2>3. lane \in LaneStates
      BY <2>1, <2>2
    <2> QED BY <2>1, <2>2, <2>3 DEF Drivers, LaneStates
  <1>2. HeaderBits <= lane.left
    BY <1>0, <1>1, TeamAssumption DEF HostInv, HostBits
  <1>3. /\ Host!PopRefuses(lane, HeaderBits) = "None" /\ popped \in LaneStates
        /\ popped.words = lane.words /\ popped.copy = lane.copy /\ popped.left = lane.left - HeaderBits
    BY <1>0, <1>1, <1>2, Popped
  <1>4. PageOK(page') /\ header \in Headers
    <2>1. page' \in Host!Reads(page, {Host!Bits(lane, "header")}, Host!Values)
      BY DEF Host!Header
    <2>2. PageOK(page') /\ header \in Values["header"]
      BY <2>1, HostReads DEF HostInv, Tables
    <2> QED BY <2>2 DEF Values
  <1>5. CASE Host!Starved(popped) /\ Host!Fails("RefillPastEnd") /\ hlanes' = hlanes
    <2>1. hlanes' = [hlanes EXCEPT ![0] = lane]
      BY <1>1, <1>5
    <2>2. lane.words = hlanes[0].words /\ lane.left <= hlanes[0].left /\ "RefillPastEnd" \in Refusals
      BY <1>1 DEF Refusals
    <2> HIDE DEF lane
    <2> QED BY <1>1, <1>4, <1>5, <2>1, <2>2, RefusedKeeps
  <1>6. CASE /\ ~Host!Starved(popped)
             /\ hlanes' = [hlanes EXCEPT ![0] = Host!Ensured(popped)]
             /\ hcursor' = Host!NextCursor(popped)
             /\ hd' = Host!AfterHeader([hd EXCEPT !.blocks = @ + 1], header)
             /\ hwhy' = Host!RefuseAs(hwhy, Host!AfterHeaderWhy(header))
             /\ hidx' = 0
    <2>1. HeaderBits * (hd.blocks + 1) + popped.left <= Packet * Len(hlanes[0].words)
      <3>1. HeaderBits * hd.blocks + lane.left <= Packet * Len(hlanes[0].words)
        BY DEF HostInv, HostBlocks
      <3>2. HeaderBits * (hd.blocks + 1) = HeaderBits * hd.blocks + HeaderBits
        BY <1>0, <1>1
      <3>3. Len(hlanes[0].words) \in Nat
        BY <1>1 DEF LaneStates
      <3>4. Packet * Len(hlanes[0].words) \in Nat
        BY <1>1, <3>3
      <3> QED BY <1>0, <1>1, <1>2, <1>3, <3>1, <3>2, <3>4
    <2>2. /\ hlanes' \in [Lane -> LaneStates] /\ hcursor' \in 0 .. WordCount
          /\ WordsOnce(hlanes', hcursor')
          /\ HeaderBits * (hd.blocks + 1) + hlanes'[0].left <= Packet * Len(hlanes'[0].words)
          /\ Len(hlanes'[0].words) <= hcursor'
          /\ \A l \in Lane \ {0} : hlanes'[l] = hlanes[l]
          /\ hlanes'[0].copy = lane.copy
          /\ hlanes'[0].left >= Packet
      <3> DEFINE blocks == hd.blocks + 1
      <3>1. blocks \in Nat /\ HeaderBits * blocks + popped.left <= Packet * Len(hlanes[0].words)
        BY <1>1, <2>1
      <3>2. popped.words = hlanes[0].words
        BY <1>3
      <3> HIDE DEF popped, blocks
      <3>3. /\ hlanes' \in [Lane -> LaneStates] /\ hcursor' \in 0 .. WordCount
            /\ WordsOnce(hlanes', hcursor')
            /\ HeaderBits * blocks + hlanes'[0].left <= Packet * Len(hlanes'[0].words)
            /\ Len(hlanes'[0].words) <= hcursor'
            /\ \A l \in Lane \ {0} : hlanes'[l] = hlanes[l]
            /\ hlanes'[0].copy = popped.copy
            /\ hlanes'[0].left >= Packet
        BY <1>1, <1>3, <1>6, <3>1, <3>2, Topped
      <3> QED BY <1>3, <3>3 DEF blocks
    <2>3. \A l \in Lane : hlanes'[l].left >= Packet
      BY <1>1, <2>2 DEF HostInv, HostBits
    <2>4. [hd EXCEPT !.blocks = @ + 1] = e /\ e \in Drivers /\ e.out_pos = hd.out_pos
          /\ e.blocks = hd.blocks + 1
      BY <1>1 DEF Drivers
    <2> HIDE DEF e
    <2>5. header.final \in BOOLEAN /\ header.type \in BlockTypes
      BY <1>4, TeamAssumption
    <2>6. PICK s \in {"refused", "length", "symbols"} :
            hd' = [e EXCEPT !.final = header.final, !.rounds = 0, !.eob = NumStreams, !.stage = s]
      BY <1>6, <2>4, <2>5 DEF Host!AfterHeader, Host!NoLane, BlockTypes
    <2>7. hd' \in Drivers /\ hd'.stage = s /\ hd'.rounds = 0 /\ hd'.eob = NumStreams
          /\ hd'.blocks = hd.blocks + 1 /\ hd'.out_pos = hd.out_pos
      <3> DEFINE final == header.final
                 f == [e EXCEPT !.final = final, !.rounds = 0, !.eob = NumStreams, !.stage = s]
      <3>1. final \in BOOLEAN /\ s \in Stages /\ NumStreams \in 0 .. NumStreams /\ hd' = f
        BY <1>1, <2>5, <2>6 DEF Stages
      <3> HIDE DEF final
      <3>2. f \in Drivers
        BY <2>4, <3>1 DEF Drivers
      <3>3. f.stage = s /\ f.rounds = 0 /\ f.eob = NumStreams /\ f.blocks = e.blocks
            /\ f.out_pos = e.out_pos
        BY <2>4 DEF Drivers
      <3> QED BY <2>4, <3>1, <3>2, <3>3
    <2>8. HostTyped' /\ HostBlocks' /\ HostBits' /\ HostPlace'
      BY <1>1, <1>6, <2>2, <2>3, <2>7
         DEF HostTyped, HostBlocks, HostBits, HostPlace, NoLane
    <2>9. HostOutput'
      <3>1. One(hidx' > 0) = 0 /\ One(hlanes'[0].copy.pending) \in {0, 1} /\ hd.out_pos \in Nat
        BY <1>1, <1>6 DEF One, Drivers
      <3>2. hd.out_pos <= Cap
        BY DEF HostInv, HostOutput
      <3> QED BY <2>7, <3>1, <3>2 DEF HostOutput
    <2>10. Host!BackstopsUnreached'
      <3>1. Host!AfterHeaderWhy(header) \in Refusals
        BY DEF Host!AfterHeaderWhy, Refusals
      <3> QED BY <1>6, <3>1, NoBackstop DEF HostInv
    <2> QED BY <1>4, <2>2, <2>8, <2>9, <2>10 DEF HostInv
  <1> HIDE DEF popped, header
  <1> QED BY <1>0, <1>3, <1>5, <1>6 DEF Host!Header, popped, header

LEMMA HostStoredLength == ASSUME HostInv, Host!StoredLength PROVE HostInv'
  <1> DEFINE lane == hlanes[0]
             popped == Host!Remove(lane, LenBits)
             len == page'[Host!Bits(lane, "length")]
             reach == Host!Reachable(hcursor, Host!BufferedBits(hlanes))
             rung == Host!StoredWhy(hd, len, reach)
  <1>1. /\ hd \in Drivers /\ hlanes \in [Lane -> LaneStates] /\ hd.blocks \in Nat
        /\ NumStreams \in Nat \ {0} /\ Packet \in Nat /\ LenBits \in Nat /\ 0 \in Lane
        /\ lane \in LaneStates /\ hd.stage = "length" /\ hidx = 0 /\ lane.left \in Nat
        /\ Cap \in Nat /\ hd.out_pos \in Nat
    <2>1. hd \in Drivers /\ hlanes \in [Lane -> LaneStates] /\ hd.stage = "length" /\ hidx = 0
      BY DEF HostInv, HostTyped, HostPlace, Host!StoredLength
    <2>2. /\ 0 \in Lane /\ NumStreams \in Nat \ {0} /\ Packet \in Nat /\ LenBits \in Nat
          /\ Cap \in Nat
      BY LaneAssumption, TeamAssumption DEF Lane
    <2>3. lane \in LaneStates
      BY <2>1, <2>2
    <2> QED BY <2>1, <2>2, <2>3 DEF Drivers, LaneStates
  <1>2. LenBits <= lane.left /\ lane.left >= Packet
    BY <1>1, TeamAssumption DEF HostInv, HostBits
  <1>3. /\ Host!PopRefuses(lane, LenBits) = "None" /\ popped \in LaneStates
        /\ popped.words = lane.words /\ popped.copy = lane.copy /\ popped.left = lane.left - LenBits
    BY <1>1, <1>2, Popped
  <1>4. PageOK(page') /\ len \in Nat
    <2>1. page' \in Host!Reads(page, {Host!Bits(lane, "length")}, Host!Values)
      BY DEF Host!StoredLength
    <2>2. PageOK(page') /\ len \in Values["length"]
      BY <2>1, HostReads DEF HostInv, Tables
    <2> QED BY <2>2, TeamAssumption DEF Values
  <1>5. hlanes' = [hlanes EXCEPT ![0] = popped]
    BY <1>3 DEF Host!StoredLength
  <1> HIDE DEF reach, len, popped
  <1>6. rung \in Refusals /\ (rung = "None" => len <= Cap - hd.out_pos)
    BY <1>1, <1>4 DEF Host!StoredWhy, Refusals
  <1>7. CASE Host!Fails(rung)
    <2>1. popped.left <= hlanes[0].left
      BY <1>1, <1>3
    <2> HIDE DEF rung
    <2> QED BY <1>1, <1>3, <1>4, <1>5, <1>6, <1>7, <2>1, RefusedKeeps
  <1>8. CASE /\ rung = "None" /\ hd' = Host!AfterLength(hd, len)
             /\ hwhy' = (IF len = 0 THEN Host!RefuseAs(hwhy, Host!NextBlockWhy(hd)) ELSE hwhy)
             /\ hcursor' = hcursor /\ hidx' = hidx
    <2>1. HeaderBits * hd.blocks + popped.left <= Packet * Len(hlanes[0].words)
      <3>1. HeaderBits * hd.blocks + lane.left <= Packet * Len(hlanes[0].words)
        BY DEF HostInv, HostBlocks
      <3>2. Len(hlanes[0].words) \in Nat
        BY <1>1 DEF LaneStates
      <3>3. Packet * Len(hlanes[0].words) \in Nat /\ HeaderBits * hd.blocks \in Nat
        BY <1>1, <3>2 DEF HeaderBits
      <3> QED BY <1>1, <1>2, <1>3, <3>1, <3>3
    <2>2. /\ hlanes' \in [Lane -> LaneStates] /\ hcursor' \in 0 .. WordCount
          /\ WordsOnce(hlanes', hcursor')
          /\ HeaderBits * hd.blocks + hlanes'[0].left <= Packet * Len(hlanes'[0].words)
          /\ Len(hlanes'[0].words) <= hcursor'
          /\ HeaderBits * hd.blocks <= Packet * WordCount
      BY <1>1, <1>3, <1>5, <1>8, <2>1, Topped
    <2>3. ASSUME NEW l \in Lane
          PROVE  hlanes'[l].left >= Packet \/ (l = 0 /\ hlanes'[l].left >= Packet - LenBits)
      <3>1. CASE l = 0
        <4>1. hlanes'[0].left >= Packet - LenBits
          BY <1>1, <1>2, <1>3, <1>5
        <4> QED BY <3>1, <4>1
      <3>2. CASE l # 0
        BY <1>1, <1>5, <3>2 DEF HostInv, HostBits
      <3> QED BY <3>1, <3>2
    <2>4. hd.out_pos <= Cap
      BY DEF HostInv, HostOutput
    <2>5. CASE len = 0
      <3>1. PICK s \in {"header", "ok"} : Host!NextBlock(hd) = [hd EXCEPT !.stage = s]
        BY <1>1, <2>2, NextBlockGoes
      <3>2. hd' = [hd EXCEPT !.stage = s]
        BY <1>8, <2>5, <3>1 DEF Host!AfterLength
      <3>3. hd' \in Drivers /\ hd'.stage = s /\ hd'.blocks = hd.blocks /\ hd'.out_pos = hd.out_pos
        BY <1>1, <3>2 DEF Drivers, Stages
      <3>4. HostTyped' /\ HostBlocks' /\ HostBits' /\ HostPlace' /\ HostOutput'
        BY <1>1, <1>8, <2>2, <2>3, <2>4, <3>3
           DEF HostTyped, HostBlocks, HostBits, HostPlace, HostOutput
      <3>5. Host!BackstopsUnreached'
        <4>1. Host!NextBlockWhy(hd) = "None"
          BY <1>1, <2>2, NextBlockGoes
        <4> QED BY <1>8, <2>5, <4>1, NoBackstop DEF HostInv, Refusals
      <3> QED BY <1>4, <2>2, <3>4, <3>5 DEF HostInv
    <2>6. CASE len # 0
      <3>1. hd' = [hd EXCEPT !.stage = "bytes", !.len = len, !.done = 0] /\ hwhy' = hwhy
        BY <1>8, <2>6 DEF Host!AfterLength
      <3>2. hd' \in Drivers /\ hd'.stage = "bytes" /\ hd'.blocks = hd.blocks
            /\ hd'.out_pos = hd.out_pos /\ hd'.len = len /\ hd'.done = 0
        BY <1>1, <1>4, <3>1 DEF Drivers, Stages
      <3>3. HostTyped' /\ HostBlocks'
        BY <1>1, <1>8, <2>2, <3>2 DEF HostTyped, HostBlocks
      <3>4. HostBits' /\ HostPlace'
        BY <1>1, <1>4, <1>8, <2>3, <2>6, <3>2 DEF HostBits, HostPlace
      <3>5. HostOutput'
        BY <1>1, <1>4, <1>6, <1>8, <2>4, <3>2 DEF HostOutput
      <3>6. Host!BackstopsUnreached'
        BY <3>1 DEF HostInv, Host!BackstopsUnreached
      <3> QED BY <1>4, <2>2, <3>3, <3>4, <3>5, <3>6 DEF HostInv
    <2> QED BY <2>5, <2>6
  <1> QED BY <1>3, <1>7, <1>8 DEF Host!StoredLength, reach, len, popped

\* A lane that reads in a round is one of the team's and holds a full word, or, at
\* its first stored byte, what the length left of one.
LEMMA LaneInRound ==
  ASSUME HostInv, InRound
  PROVE  /\ hidx \in Lane /\ hlanes[hidx] \in LaneStates /\ hlanes \in [Lane -> LaneStates]
         /\ hd \in Drivers /\ hidx \in Nat /\ NumStreams \in Nat
         /\ hlanes[hidx] = [words |-> hlanes[hidx].words, left |-> hlanes[hidx].left,
                            copy |-> hlanes[hidx].copy]
         /\ hlanes[hidx].left \in Nat /\ hlanes[hidx].copy \in Copies
         /\ hd.stage # "bytes" => hlanes[hidx].left >= Packet
         /\ hlanes[hidx].left >= ByteBits
  <1>1. hd \in Drivers /\ hlanes \in [Lane -> LaneStates] /\ hidx \in Nat
    BY DEF HostInv, HostTyped
  <1>2. NumStreams \in Nat /\ hidx < NumStreams
    BY <1>1, LaneAssumption DEF HostInv, HostPlace, InRound, Drivers
  <1>3. hidx \in Lane
    BY <1>1, <1>2 DEF Lane
  <1>4. hlanes[hidx] \in LaneStates
    BY <1>1, <1>3
  <1>5. /\ hlanes[hidx].left \in Nat /\ hlanes[hidx].copy \in Copies
        /\ hlanes[hidx] = [words |-> hlanes[hidx].words, left |-> hlanes[hidx].left,
                           copy |-> hlanes[hidx].copy]
    BY <1>4 DEF LaneStates
  <1>6. hd.stage # "bytes" => hlanes[hidx].left >= Packet
    BY <1>3 DEF HostInv, HostBits, InRound
  <1>7. hlanes[hidx].left >= Packet \/ hlanes[hidx].left >= Packet - LenBits
    BY <1>3 DEF HostInv, HostBits, InRound
  <1>8. hlanes[hidx].left >= ByteBits
    BY <1>5, <1>7, LaneAssumption, TeamAssumption
  <1> QED BY <1>1, <1>2, <1>3, <1>4, <1>5, <1>6, <1>8

\* A step refused: nothing was consumed.
LEMMA RefusedStepKeeps ==
  ASSUME HostInv, InRound, PageOK(page'), NEW rung \in Refusals, Host!RefusedStep(rung)
  PROVE  HostInv'
  <1>1. hidx \in Lane /\ hlanes[hidx] \in LaneStates /\ hlanes \in [Lane -> LaneStates]
        /\ 0 \in Lane
    BY LaneInRound, LaneAssumption DEF Lane
  <1>2. Host!Fails(rung) /\ hlanes' = [hlanes EXCEPT ![hidx] = hlanes[hidx]]
    BY <1>1 DEF Host!RefusedStep
  <1>3. hidx = 0 => hlanes[hidx].left <= hlanes[0].left
    BY <1>1 DEF LaneStates
  <1> QED BY <1>1, <1>2, <1>3, RefusedKeeps

LEMMA HostStoredByte == ASSUME HostInv, Host!StoredByte PROVE HostInv'
  <1> DEFINE lane == hlanes[hidx]
             popped == Host!Remove(lane, ByteBits)
  <1>1. InRound /\ hd.stage = "bytes" /\ page' = page
    BY DEF Host!StoredByte, InRound
  <1>2. PageOK(page')
    BY <1>1 DEF HostInv
  <1>3. ByteBits \in Nat /\ lane \in LaneStates /\ ByteBits <= lane.left /\ lane.left \in Nat
        /\ hd \in Drivers
    BY <1>1, LaneInRound, TeamAssumption
  <1>4. /\ Host!PopRefuses(lane, ByteBits) = "None" /\ popped \in LaneStates
        /\ popped.words = lane.words /\ popped.left = lane.left - ByteBits
    BY <1>3, Popped
  <1>5. Host!Advance(popped, hd)
    BY <1>4 DEF Host!StoredByte
  <1>6. hidx = 0 => popped.left <= hlanes[0].left
    BY <1>3, <1>4
  <1>7. hd.out_pos <= Cap
    BY DEF HostInv, HostOutput
  <1> HIDE DEF popped
  <1> QED BY <1>1, <1>2, <1>3, <1>4, <1>5, <1>6, <1>7, AdvanceKeeps

LEMMA HostDrainIdle == ASSUME HostInv, Host!DrainIdle PROVE HostInv'
  <1>1. InRound /\ hd.stage = "drain" /\ PageOK(page') /\ Host!Advance(hlanes[hidx], hd)
    BY DEF Host!DrainIdle, InRound, HostInv
  <1>2. hlanes[hidx] \in LaneStates /\ hd \in Drivers /\ hlanes[hidx].left \in Nat
    BY <1>1, LaneInRound
  <1>3. hd.out_pos <= Cap
    BY DEF HostInv, HostOutput
  <1> QED BY <1>1, <1>2, <1>3, AdvanceKeeps

\* What lane 0 has claimed or retired by the end of its step.
LEMMA RoundsPaid ==
  ASSUME HostInv, hd.stage = "symbols", hd.eob = NoLane, NEW copy \in Copies, NEW pos \in Nat,
         \/ pos > hd.out_pos
         \/ pos = hd.out_pos /\ hlanes[hidx].copy.pending /\ ~copy.pending
  PROVE  hd.rounds + 1 + One(IF hidx = 0 THEN copy.pending ELSE hlanes[0].copy.pending)
           <= 2 * pos + 1
  <1>1. hd \in Drivers /\ hidx \in Nat /\ hd.out_pos \in Nat /\ hd.rounds \in Nat
    BY DEF HostInv, HostTyped, Drivers
  <1>2. hd.rounds + One(hidx > 0) + One(hlanes[0].copy.pending) <= 2 * hd.out_pos + 1
    BY DEF HostInv, HostOutput
  <1>3. \A b : One(b) \in {0, 1}
    BY DEF One
  <1>4. CASE hidx # 0
    <2>1. One(hidx > 0) = 1
      BY <1>1, <1>4 DEF One
    <2>2. One(hlanes[0].copy.pending) \in {0, 1}
      BY <1>3
    <2>3. pos >= hd.out_pos
      BY <1>1
    <2> QED BY <1>1, <1>2, <1>4, <2>1, <2>2, <2>3
  <1>5. CASE hidx = 0
    <2>1. One(hidx > 0) = 0
      BY <1>5 DEF One
    <2>2. CASE pos > hd.out_pos
      <3>1. One(hlanes[0].copy.pending) \in {0, 1} /\ One(copy.pending) \in {0, 1}
        BY <1>3
      <3>2. pos >= hd.out_pos + 1
        BY <1>1, <2>2
      <3> QED BY <1>1, <1>2, <1>5, <2>1, <3>1, <3>2
    <2>3. CASE pos = hd.out_pos /\ hlanes[hidx].copy.pending /\ ~copy.pending
      <3>1. One(hlanes[0].copy.pending) = 1 /\ One(copy.pending) = 0
        BY <1>5, <2>3 DEF One
      <3>2. One(IF hidx = 0 THEN copy.pending ELSE hlanes[0].copy.pending) = 0
        BY <3>1, <1>5
      <3>3. hd.rounds + 1 <= 2 * pos + 1
        BY <1>1, <1>2, <2>1, <2>3, <3>1
      <3> QED BY <1>1, <3>2, <3>3
    <2> QED BY <2>2, <2>3
  <1> QED BY <1>4, <1>5

LEMMA HostRetireCopy == ASSUME HostInv, Host!RetireCopy PROVE HostInv'
  <1> DEFINE lane == hlanes[hidx]
             sym == page'[Host!Bits(lane, "dist")]
             rung == Host!StepWhy(lane, sym)
             popped == Host!Remove(lane, sym.width)
             done == [popped EXCEPT !.copy.pending = FALSE]
  <1>1. InRound /\ hd.stage \in {"symbols", "drain"} /\ lane.copy.pending
    BY DEF Host!RetireCopy, InRound
  <1>2. lane \in LaneStates /\ hd \in Drivers /\ lane.left \in Nat /\ lane.left >= Packet
        /\ lane.copy \in Copies /\ Packet \in Nat /\ hd.out_pos \in Nat
    BY <1>1, LaneInRound, LaneAssumption DEF Drivers
  <1>3. PageOK(page') /\ sym \in Dists
    <2>1. page' \in Host!Reads(page, {Host!Bits(lane, "dist")}, Host!Values)
      BY DEF Host!RetireCopy
    <2>2. PageOK(page') /\ sym \in Values["dist"]
      BY <2>1, HostReads DEF HostInv, Tables
    <2> QED BY <2>2 DEF Values
  <1>4. sym.width \in Nat /\ sym.width <= lane.left
    BY <1>2, <1>3, TeamAssumption
  <1> HIDE DEF sym, lane
  <1>5. /\ Host!PopRefuses(lane, sym.width) = "None" /\ popped \in LaneStates
        /\ popped.words = lane.words /\ popped.copy = lane.copy /\ popped.left = lane.left - sym.width
    BY <1>2, <1>4, Popped
  <1>6. rung \in Refusals
    BY <1>5 DEF Host!StepWhy, Refusals
  <1>7. CASE Host!RefusedStep(rung) \/ Host!RefusedStep("MatchBeforeOutput")
    BY <1>1, <1>3, <1>6, <1>7, RefusedStepKeeps DEF Refusals
  <1>8. CASE Host!Advance(done, hd)
    <2>1. done \in LaneStates /\ done.words = lane.words /\ done.left <= lane.left
          /\ ~done.copy.pending /\ done.copy \in Copies
      <3> HIDE DEF popped
      <3>1. popped.copy \in Copies /\ popped.left \in Nat /\ popped.left <= lane.left
        BY <1>2, <1>4, <1>5
      <3> DEFINE c == popped.copy
                 free == [c EXCEPT !.pending = FALSE]
      <3>2. free \in Copies /\ ~free.pending
        <4> HIDE DEF c
        <4>1. c \in Copies
          BY <3>1 DEF c
        <4> QED BY <4>1 DEF Copies
      <3>3. done = [popped EXCEPT !.copy = free]
        BY <1>5 DEF LaneStates
      <3> HIDE DEF done, free
      <3>4. done.copy = free
        BY <3>3, <1>5 DEF LaneStates
      <3>5. done \in LaneStates /\ done.words = popped.words /\ done.left = popped.left
        BY <3>2, <3>3, <1>5 DEF LaneStates
      <3> QED BY <3>1, <3>2, <3>4, <3>5, <1>5
    <2>2. hd.out_pos <= Cap
      BY DEF HostInv, HostOutput
    <2> HIDE DEF done
    <2>3. hd.stage = "symbols" /\ hd.eob = NoLane =>
            hd.rounds + 1 + One(IF hidx = 0 THEN done.copy.pending ELSE hlanes[0].copy.pending)
              <= 2 * hd.out_pos + 1
      BY <1>1, <1>2, <2>1, RoundsPaid DEF lane
    <2>4. hd.stage = "symbols" => hd.eob = NoLane \/ hd.eob <= hidx
      BY <1>2, LaneInRound, <1>1 DEF HostInv, HostPlace, Drivers
    <2> QED BY <1>1, <1>2, <1>3, <1>8, <2>1, <2>2, <2>3, <2>4, AdvanceKeeps DEF lane
  <1> QED BY <1>7, <1>8 DEF Host!RetireCopy, lane, sym

LEMMA HostSymbol == ASSUME HostInv, Host!Symbol PROVE HostInv'
  <1> DEFINE lane == hlanes[hidx]
             sym == page'[Host!Bits(lane, "litlen")]
             rung == Host!StepWhy(lane, sym)
             eob == IF hd.eob = NumStreams /\ rung = "None" /\ sym.kind = "end" THEN hidx ELSE hd.eob
             e == [hd EXCEPT !.eob = eob]
             taken == Host!Remove(lane, sym.width)
             claim == [pending |-> TRUE, length |-> sym.value, out_pos |-> hd.out_pos]
             held == [taken EXCEPT !.copy = claim]
             Past(n) == [e EXCEPT !.out_pos = e.out_pos + n]
  <1>1. InRound /\ hd.stage = "symbols" /\ ~lane.copy.pending
    BY DEF Host!Symbol, InRound
  <1>2. /\ lane \in LaneStates /\ hd \in Drivers /\ lane.left \in Nat /\ lane.left >= Packet
        /\ lane.copy \in Copies /\ Packet \in Nat /\ hd.out_pos \in Nat /\ NumStreams \in Nat
        /\ hidx \in Lane /\ hidx \in 0 .. NumStreams - 1 /\ hidx \in Nat /\ Cap \in Nat
        /\ hd.eob \in 0 .. NumStreams /\ (hd.eob = NumStreams \/ hd.eob < hidx)
    <2>1. hd.stage = "symbols" => hd.eob = NumStreams \/ hd.eob < hidx
      BY DEF HostInv, HostPlace, NoLane
    <2> QED BY <1>1, <2>1, LaneInRound, LaneAssumption, TeamAssumption DEF Drivers, Lane
  <1>3. PageOK(page') /\ sym \in LitLens
    <2>1. page' \in Host!Reads(page, {Host!Bits(lane, "litlen")}, Host!Values)
      BY DEF Host!Symbol
    <2>2. PageOK(page') /\ sym \in Values["litlen"]
      BY <2>1, HostReads DEF HostInv, Tables
    <2> QED BY <2>2 DEF Values
  <1>4. /\ sym.width \in Nat /\ sym.width <= lane.left
        /\ sym.kind = "length" => sym.value \in Nat /\ sym.value > 0
    BY <1>2, <1>3, TeamAssumption
  <1>5. Host!NoLane = NumStreams /\ NoLane = NumStreams
    BY DEF Host!NoLane, NoLane
  <1>6. Host!Symbol =>
          \/ eob < hidx /\ Host!Advance(lane, e)
          \/ eob = hidx /\ Host!Advance(taken, e)
          \/ Host!RefusedStep(rung)
          \/ Host!RefusedStep("LiteralPastCap")
          \/ /\ eob > hidx /\ Host!LiteralFits(hd.out_pos)
             /\ Host!Advance(taken, Past(1))
          \/ Host!RefusedStep("MatchPastCap")
          \/ /\ eob > hidx /\ sym.kind = "length" /\ Host!ReserveFits(hd.out_pos, sym.value)
             /\ Host!Advance(held, Past(sym.value))
    <2> DEFINE mine == [hd EXCEPT !.eob = IF @ = Host!NoLane /\ rung = "None" /\ sym.kind = "end"
                                          THEN hidx ELSE @]
    <2>1. mine = e /\ mine.eob = eob
      BY <1>2, <1>5 DEF Drivers
    <2> HIDE DEF e, eob, rung, taken, lane, sym
    <2> QED BY <2>1 DEF Host!Symbol, e, eob, rung, taken, lane, sym
  <1> HIDE DEF sym, lane
  <1>7. /\ Host!PopRefuses(lane, sym.width) = "None" /\ taken \in LaneStates
        /\ taken.words = lane.words /\ taken.copy = lane.copy /\ taken.left = lane.left - sym.width
        /\ taken.left <= lane.left
    BY <1>2, <1>4, Popped
  <1>8. rung \in Refusals
    BY <1>7 DEF Host!StepWhy, Refusals
  <1> HIDE DEF rung, taken
  <1>9. eob \in 0 .. NumStreams /\ (eob = NumStreams \/ eob <= hidx)
        /\ (eob = NumStreams => hd.eob = NumStreams)
    BY <1>2
  <1> HIDE DEF eob
  <1>10. e \in Drivers /\ e.stage = hd.stage /\ e.blocks = hd.blocks /\ e.rounds = hd.rounds
         /\ e.out_pos = hd.out_pos /\ e.eob = eob
    BY <1>2, <1>9 DEF Drivers
  <1>11. hd.out_pos <= Cap
    BY DEF HostInv, HostOutput
  <1> HIDE DEF e
  <1>12. CASE eob < hidx /\ Host!Advance(lane, e)
    <2>1. e.eob # NoLane /\ lane.left <= lane.left
      BY <1>2, <1>5, <1>10, <1>12
    <2> QED BY <1>1, <1>2, <1>3, <1>9, <1>10, <1>11, <1>12, <2>1, AdvanceKeeps DEF lane
  <1>13. CASE eob = hidx /\ Host!Advance(taken, e)
    <2>1. e.eob # NoLane
      BY <1>2, <1>5, <1>10, <1>13
    <2> QED BY <1>1, <1>2, <1>3, <1>7, <1>9, <1>10, <1>11, <1>13, <2>1, AdvanceKeeps DEF lane
  <1>14. CASE \/ Host!RefusedStep(rung) \/ Host!RefusedStep("LiteralPastCap")
              \/ Host!RefusedStep("MatchPastCap")
    BY <1>1, <1>3, <1>8, <1>14, RefusedStepKeeps DEF Refusals
  <1>15. ASSUME NEW n \in Nat, n > 0, hd.out_pos + n <= Cap, eob > hidx,
                NEW ln \in LaneStates, ln.words = lane.words, ln.left <= lane.left,
                Host!Advance(ln, Past(n))
         PROVE  HostInv'
    <2>1. eob = NumStreams /\ hd.eob = NoLane /\ e.eob = NoLane
      BY <1>2, <1>5, <1>9, <1>10, <1>15
    <2>2. Past(n) \in Drivers /\ Past(n).stage = hd.stage /\ Past(n).blocks = hd.blocks
          /\ Past(n).rounds = hd.rounds /\ Past(n).out_pos = hd.out_pos + n /\ Past(n).eob = NoLane
      <3>1. hd.out_pos + n \in Nat
        BY <1>2
      <3> QED BY <1>10, <2>1, <3>1 DEF Drivers
    <2>3. hd.rounds + 1 + One(IF hidx = 0 THEN ln.copy.pending ELSE hlanes[0].copy.pending)
            <= 2 * (hd.out_pos + n) + 1
      <3>1. ln.copy \in Copies /\ hd.out_pos + n \in Nat /\ hd.out_pos + n > hd.out_pos
        BY <1>2, <1>15 DEF LaneStates
      <3> QED BY <1>1, <2>1, <3>1, RoundsPaid
    <2> HIDE DEF Past
    <2> DEFINE f == Past(n)
    <2>4. /\ f \in Drivers /\ f.stage = hd.stage /\ f.blocks = hd.blocks /\ f.rounds = hd.rounds
          /\ f.out_pos = hd.out_pos + n /\ f.eob = NoLane /\ Host!Advance(ln, f)
      BY <1>15, <2>2
    <2> HIDE DEF f
    <2> QED BY <1>1, <1>3, <1>15, <2>3, <2>4, AdvanceKeeps DEF lane
  <1>16. CASE /\ eob > hidx /\ Host!LiteralFits(hd.out_pos)
              /\ Host!Advance(taken, Past(1))
    <2>1. hd.out_pos + 1 <= Cap
      BY <1>2, <1>16 DEF Host!LiteralFits
    <2> HIDE DEF Past
    <2> QED BY <1>7, <1>15, <1>16, <2>1
  <1>17. CASE /\ eob > hidx /\ sym.kind = "length" /\ Host!ReserveFits(hd.out_pos, sym.value)
              /\ Host!Advance(held, Past(sym.value))
    <2>1. sym.value \in Nat /\ sym.value > 0 /\ hd.out_pos + sym.value <= Cap
      BY <1>2, <1>4, <1>17 DEF Host!ReserveFits
    <2>2. held \in LaneStates /\ held.words = lane.words /\ held.left <= lane.left
      <3>1. claim \in Copies
        BY <1>2, <2>1 DEF Copies
      <3> HIDE DEF claim
      <3> QED BY <1>7, <3>1 DEF LaneStates
    <2> HIDE DEF Past, held
    <2> QED BY <1>15, <1>17, <2>1, <2>2
  <1> QED BY <1>6, <1>12, <1>13, <1>14, <1>16, <1>17

\* The warp reads the same page and touches nothing of the sequential team's.
LEMMA WarpReads ==
  ASSUME PageOK(page), Warp!Step PROVE PageOK(page')
  <1>0. Warp!Values = Values /\ \A q, k, v : Warp!Reads(q, k, v) = Reads(q, k, v)
    BY DEF Warp!Values, Values, Warp!Reads, Reads
  <1>1. ASSUME NEW keys, \A k \in keys : k[3] \in Tables,
               page' \in Warp!Reads(page, keys, Warp!Values)
        PROVE  PageOK(page')
    <2>1. page' \in Reads(page, keys, Values)
      BY <1>0, <1>1
    <2> QED BY <1>1, <2>1, ReadsAreValues
  <1>2. ASSUME NEW lane, NEW t \in Tables,
               page' \in Warp!Reads(page, {Warp!Bits(lane, t)}, Warp!Values)
        PROVE  PageOK(page')
    <2>1. Warp!Bits(lane, t)[3] = t
      BY DEF Warp!Bits
    <2> QED BY <1>1, <1>2, <2>1
  <1>3. CASE Warp!Resolve
    <2> DEFINE keys == {Warp!Bits(wlanes[l], Warp!Table(l)) : l \in Warp!Reading}
    <2>1. \A k \in keys : k[3] \in Tables
      BY DEF Warp!Bits, Warp!Table, Tables
    <2>2. page' \in Warp!Reads(page, keys, Warp!Values)
      BY <1>3 DEF Warp!Resolve
    <2> HIDE DEF keys
    <2> QED BY <1>1, <2>1, <2>2
  <1>4. CASE (\E l \in Warp!Lane : Warp!Commit(l)) \/ Warp!Meet \/ Warp!CopyBytes \/ Warp!Refill
    BY <1>4 DEF Warp!Commit, Warp!Meet, Warp!CopyBytes, Warp!Refill
  <1>5. CASE Warp!Header
    BY <1>2, <1>5 DEF Warp!Header, Tables
  <1>6. CASE Warp!StoredLength
    BY <1>2, <1>6 DEF Warp!StoredLength, Tables
  <1> QED BY <1>3, <1>4, <1>5, <1>6 DEF Warp!Step

LEMMA HostKept == ASSUME HostInv, UNCHANGED hostVars, PageOK(page') PROVE HostInv'
  BY DEF HostInv, hostVars, HostTyped, HostPlace, HostBits, HostBlocks, HostOutput, WordsOnce, Words,
         Host!BackstopsUnreached

LEMMA HostStep == ASSUME HostInv, [Next]_vars PROVE HostInv'
  <1>1. CASE HostRound
    BY <1>1, HostHeader, HostStoredLength, HostStoredByte, HostRetireCopy, HostSymbol, HostDrainIdle
       DEF HostRound, Host!Step
  <1>2. CASE WarpRound
    BY <1>2, WarpReads, HostKept DEF WarpRound, HostInv
  <1>3. CASE UNCHANGED vars
    BY <1>3, HostKept DEF vars, HostInv
  <1> QED BY <1>1, <1>2, <1>3 DEF Next, Done

\* Each word of the page below the cursor goes to exactly one lane, in order, and what
\* a lane holds is enough for whatever it reads next: a field of legal width never finds
\* it short, and neither the limit on blocks nor the one on rounds refuses a page
\* (GDeflateAdvance, GDeflateReadAhead, block_fuel and round_fuel), for every number of
\* lanes, word width, page and capacity.
THEOREM WordsDealtOnceHolds == Spec => []WordsDealtOnce
  <1>1. HostInv => WordsDealtOnce
    BY WordsOnceIs DEF HostInv, WordsDealtOnce
  <1> QED BY <1>1, HostStarts, HostStep, PTL DEF Spec

-----------------------------------------------------------------------------
(* A match copied byte by byte, forwards, and the wave's gather. *)

LEMMA Induction ==
  ASSUME NEW S, S \subseteq Nat, 0 \in S, \A m \in S : m + 1 \in S
  PROVE  Nat \subseteq S
  <1> SUFFICES ASSUME Nat \ S # {} PROVE FALSE
    OBVIOUS
  <1> DEFINE R == OpToRel(<, Nat)
  <1>1. IsWellFoundedOn(R, Nat)
    BY NatLessThanWellFounded
  <1>2. \A a, b \in Nat : a < b => <<a, b>> \in R
    BY DEF OpToRel
  <1> HIDE DEF R
  <1>3. PICK m \in Nat \ S : \A a \in Nat \ S : <<a, m>> \notin R
    BY <1>1, WFMin
  <1>4. m # 0 /\ m - 1 \in Nat /\ m - 1 < m
    BY <1>3
  <1>5. m - 1 \in S
    BY <1>2, <1>3, <1>4
  <1>6. (m - 1) + 1 = m
    BY <1>4
  <1> QED BY <1>3, <1>5, <1>6

LEMMA ModRange ==
  ASSUME NEW a \in Nat, NEW w \in Nat \ {0}
  PROVE  a % w \in 0 .. w - 1 /\ (a < w => a % w = a)
  BY SMT

LEMMA DivMod ==
  ASSUME NEW a \in Nat, NEW w \in Nat \ {0}
  PROVE  a \div w \in Nat /\ a = w * (a \div w) + (a % w)
  BY SMT

LEMMA ModUnique ==
  ASSUME NEW w \in Nat \ {0}, NEW q \in Nat, NEW r \in 0 .. w - 1
  PROVE  (w * q + r) % w = r
  BY SMT

LEMMA ModNext ==
  ASSUME NEW a \in Nat, NEW w \in Nat \ {0}
  PROVE  (a + w) % w = a % w
  <1> DEFINE q == a \div w
             r == a % w
  <1>1. q \in Nat /\ a = w * q + r /\ r \in 0 .. w - 1
    BY DivMod, ModRange
  <1> HIDE DEF q, r
  <1>2. a + w = w * (q + 1) + r
    <2>1. w * (q + 1) = w * q + w
      BY <1>1, SMT
    <2>2. w * q \in Nat /\ r \in Nat
      BY <1>1, SMT
    <2> QED BY <2>1, <2>2, <1>1
  <1>3. (w * (q + 1) + r) % w = r
    BY ModUnique, <1>1
  <1> QED BY <1>2, <1>3 DEF r

\* Byte by byte forwards, overlap and all, is the closed form the whole wave gathers
\* at once (GDeflateCopyMatch's loop and the wave's gather).
LEMMA ForwardIsGather ==
  ASSUME NEW out, NEW dst \in Nat, NEW dist \in Nat \ {0}, NEW len \in Nat
  PROVE  CopyForward(out, dst, dist, len) = CopyGather(out, dst, dist, len)
  <1> DEFINE byte[n \in 0 .. len - 1] ==
               IF n < dist THEN ByteIn(out, dst - dist + n) ELSE byte[n - dist]
             g == [n \in 0 .. len - 1 |-> ByteIn(out, dst - dist + (n % dist))]
  <1>1. ASSUME NEW n \in 0 .. len - 1
        PROVE  g[n] = IF n < dist THEN ByteIn(out, dst - dist + n) ELSE g[n - dist]
    <2>1. CASE n < dist
      <3>1. n % dist = n
        BY <2>1, ModRange
      <3> QED BY <2>1, <3>1
    <2>2. CASE ~(n < dist)
      <3>1. n - dist \in 0 .. len - 1 /\ (n - dist) + dist = n /\ n - dist \in Nat
        BY <2>2
      <3>2. n % dist = (n - dist) % dist
        BY <3>1, ModNext
      <3> QED BY <2>2, <3>1, <3>2
    <2> QED BY <2>1, <2>2
  <1>2. g = [n \in 0 .. len - 1 |-> IF n < dist THEN ByteIn(out, dst - dist + n) ELSE g[n - dist]]
    BY <1>1
  <1>3. byte = [n \in 0 .. len - 1 |-> IF n < dist THEN ByteIn(out, dst - dist + n) ELSE byte[n - dist]]
    <2> HIDE DEF g
    <2>1. \E f : f = [n \in 0 .. len - 1 |-> IF n < dist THEN ByteIn(out, dst - dist + n) ELSE f[n - dist]]
      BY <1>2
    <2> QED BY <2>1
  <1>4. CopyForward(out, dst, dist, len)
          = Write(out, [p \in dst .. dst + len - 1 |-> byte[p - dst]])
    BY DEF CopyForward, byte
  <1>5. CopyGather(out, dst, dist, len)
          = Write(out, [p \in dst .. dst + len - 1 |-> g[p - dst]])
    <2>1. \A p \in dst .. dst + len - 1 : p - dst \in 0 .. len - 1
      OBVIOUS
    <2>2. [p \in dst .. dst + len - 1 |-> ByteIn(out, dst - dist + ((p - dst) % dist))]
            = [p \in dst .. dst + len - 1 |-> g[p - dst]]
      BY <2>1
    <2> QED BY <2>2 DEF CopyGather
  <1> HIDE DEF byte, g
  <1> DEFINE S == {m \in Nat : \A n \in 0 .. m - 1 : n < len => byte[n] = g[n]}
  <1>6. 0 \in S
    OBVIOUS
  <1>7. ASSUME NEW m \in S PROVE m + 1 \in S
    <2>1. m \in Nat /\ \A n \in 0 .. m - 1 : n < len => byte[n] = g[n]
      OBVIOUS
    <2>2. m < len => byte[m] = g[m]
      <3>1. CASE m < len /\ m < dist
        <4>1. m \in 0 .. len - 1
          BY <2>1, <3>1
        <4> QED BY <4>1, <3>1, <1>1, <1>3
      <3>2. CASE m < len /\ ~(m < dist)
        <4>1. m \in 0 .. len - 1 /\ m - dist \in 0 .. m - 1 /\ m - dist < len
          BY <2>1, <3>2
        <4>2. byte[m - dist] = g[m - dist]
          BY <2>1, <4>1
        <4>3. byte[m] = byte[m - dist] /\ g[m] = g[m - dist]
          BY <3>2, <4>1, <1>1, <1>3
        <4> QED BY <4>2, <4>3
      <3> QED BY <3>1, <3>2
    <2>3. \A n \in 0 .. m : n \in 0 .. m - 1 \/ n = m
      BY <2>1
    <2> QED BY <2>1, <2>2, <2>3
  <1>8. S \subseteq Nat
    OBVIOUS
  <1>9. len \in S
    <2> HIDE DEF S
    <2> QED BY <1>6, <1>7, <1>8, Induction
  <1>10. \A n \in 0 .. len - 1 : byte[n] = g[n]
    BY <1>9
  <1>11. [p \in dst .. dst + len - 1 |-> byte[p - dst]] = [p \in dst .. dst + len - 1 |-> g[p - dst]]
    <2>1. \A p \in dst .. dst + len - 1 : p - dst \in 0 .. len - 1
      OBVIOUS
    <2> QED BY <2>1, <1>10
  <1> QED BY <1>4, <1>5, <1>11

-----------------------------------------------------------------------------
(* The output between two steps of a round: i is the lane whose turn it is, c the *)
(* bytes claimed, cs what each lane has reserved, ts the tokens so far.           *)

CopyRange(x) == x.out_pos .. x.out_pos + x.length - 1
Holds(cs, p) == \E l \in Lane : cs[l].pending /\ p \in CopyRange(cs[l])
Before(i, l, k) == (l < k /\ (k < i \/ l >= i)) \/ (l >= i /\ k < i)
FreshBytes == Lane \X Int
Tokens == [pos : Nat, len : Nat \ {0}, dist : Int, byte : FreshBytes \cup {<<>>}]

\* Reservations lie below what is claimed, in the order in which they will be retired.
PlacesOK(cs, i, c) ==
  /\ \A l \in Lane : cs[l].pending => cs[l].length > 0 /\ cs[l].out_pos + cs[l].length <= c
  /\ \A l, k \in Lane : cs[l].pending /\ cs[k].pending /\ Before(i, l, k) =>
                          cs[l].out_pos + cs[l].length <= cs[k].out_pos

\* All that is claimed is written, but for what is reserved.
OutOK(cs, c, out) ==
  /\ \A p : p \in DOMAIN out <=> p \in 0 .. c - 1 /\ ~Holds(cs, p)
  /\ \A p \in DOMAIN out : out[p] # Unwritten

Matched(t, out) ==
  \A n \in 0 .. t.len - 1 : /\ t.pos + n \in DOMAIN out /\ t.pos + n - t.dist \in DOMAIN out
                            /\ out[t.pos + n] = out[t.pos + n - t.dist]
TokenOK(cs, t, out) ==
  /\ t.dist = 0 => t.len = 1 /\ t.pos \in DOMAIN out /\ out[t.pos] = t.byte
  /\ t.dist > 0 => Matched(t, out)
  /\ t.dist < 0 => /\ t.dist = -1
                   /\ \E l \in Lane : /\ cs[l].pending /\ cs[l].out_pos = t.pos
                                      /\ cs[l].length = t.len
TokensOK(cs, c, ts, out) ==
  /\ ts \in Seq(Tokens)
  /\ \A i \in 1 .. Len(ts) : ts[i].pos = IF i = 1 THEN 0 ELSE ts[i - 1].pos + ts[i - 1].len
  /\ \A i, j \in 1 .. Len(ts) : i < j => ts[i].pos + ts[i].len <= ts[j].pos
  /\ c = IF ts = <<>> THEN 0 ELSE ts[Len(ts)].pos + ts[Len(ts)].len
  /\ \A i \in 1 .. Len(ts) : ts[i].pos + ts[i].len <= c /\ TokenOK(cs, ts[i], out)

LEMMA CopyFields ==
  ASSUME NEW x \in Copies
  PROVE  /\ x.length \in Nat /\ x.out_pos \in Nat /\ x.pending \in BOOLEAN
         /\ \A p : p \in CopyRange(x) <=> p \in Nat /\ x.out_pos <= p /\ p < x.out_pos + x.length
  <1>1. x.length \in Nat /\ x.out_pos \in Nat /\ x.pending \in BOOLEAN
    BY DEF Copies
  <1> QED BY <1>1 DEF CopyRange

LEMMA PlacesPass ==
  ASSUME NEW cs \in [Lane -> Copies], NEW new \in [Lane -> Copies], NEW i \in Lane,
         NEW c \in Nat, NEW c2 \in Nat, c <= c2, PlacesOK(cs, i, c),
         \A l \in Lane \ {i} : new[l] = cs[l], ~new[i].pending
  PROVE  PlacesOK(new, i + 1, c2)
  <1>0. NumStreams \in Nat /\ i \in Int /\ \A l \in Lane : l \in Int
    BY LaneAssumption DEF Lane
  <1>1. ASSUME NEW l \in Lane, new[l].pending
        PROVE  l # i /\ new[l] = cs[l] /\ cs[l].length > 0 /\ cs[l].out_pos + cs[l].length <= c2
    <2>1. l # i /\ new[l] = cs[l]
      BY <1>1
    <2>2. cs[l].length > 0 /\ cs[l].out_pos + cs[l].length <= c
      BY <1>1, <2>1 DEF PlacesOK
    <2> QED BY <2>1, <2>2, CopyFields
  <1>2. ASSUME NEW l \in Lane, NEW k \in Lane, new[l].pending, new[k].pending, Before(i + 1, l, k)
        PROVE  new[l].out_pos + new[l].length <= new[k].out_pos
    <2>1. l # i /\ k # i /\ new[l] = cs[l] /\ new[k] = cs[k]
      BY <1>1, <1>2
    <2>2. Before(i, l, k)
      BY <1>0, <1>2, <2>1 DEF Before
    <2> QED BY <1>2, <2>1, <2>2 DEF PlacesOK
  <1> QED BY <1>1, <1>2 DEF PlacesOK

LEMMA PlacesReserve ==
  ASSUME NEW cs \in [Lane -> Copies], NEW new \in [Lane -> Copies], NEW i \in Lane,
         NEW c \in Nat, NEW len \in Nat, len > 0, PlacesOK(cs, i, c),
         \A l \in Lane \ {i} : new[l] = cs[l], ~cs[i].pending,
         new[i].out_pos = c, new[i].length = len
  PROVE  PlacesOK(new, i + 1, c + len)
  <1>0. NumStreams \in Nat /\ i \in Int /\ \A l \in Lane : l \in Int
    BY LaneAssumption DEF Lane
  <1>1. ASSUME NEW l \in Lane, new[l].pending, l # i
        PROVE  cs[l].pending /\ new[l] = cs[l] /\ cs[l].length > 0 /\ cs[l].out_pos + cs[l].length <= c
    BY <1>1 DEF PlacesOK
  <1>2. ASSUME NEW l \in Lane, new[l].pending
        PROVE  new[l].length > 0 /\ new[l].out_pos + new[l].length <= c + len
    <2>1. CASE l = i
      BY <2>1
    <2>2. CASE l # i
      BY <1>1, <1>2, <2>2, CopyFields
    <2> QED BY <2>1, <2>2
  <1>3. ASSUME NEW l \in Lane, NEW k \in Lane, new[l].pending, new[k].pending, Before(i + 1, l, k)
        PROVE  new[l].out_pos + new[l].length <= new[k].out_pos
    <2>1. CASE k = i
      <3>1. l # i
        BY <1>0, <1>3, <2>1 DEF Before
      <3> QED BY <1>1, <1>3, <2>1, <3>1
    <2>2. CASE l = i /\ k # i
      BY <1>0, <1>3, <2>2 DEF Before
    <2>3. CASE l # i /\ k # i
      <3>1. Before(i, l, k)
        BY <1>0, <1>3, <2>3 DEF Before
      <3> QED BY <1>1, <1>3, <2>3, <3>1 DEF PlacesOK
    <2> QED BY <2>1, <2>2, <2>3
  <1> QED BY <1>2, <1>3 DEF PlacesOK

LEMMA PlacesWrap ==
  ASSUME NEW cs, NEW c
  PROVE  PlacesOK(cs, NumStreams, c) <=> PlacesOK(cs, 0, c)
  <1>1. \A l, k \in Lane : Before(NumStreams, l, k) <=> Before(0, l, k)
    BY LaneAssumption DEF Before, Lane
  <1> QED BY <1>1 DEF PlacesOK

LEMMA PlacesNone ==
  ASSUME NEW cs, \A l \in Lane : ~cs[l].pending, NEW i, NEW c
  PROVE  PlacesOK(cs, i, c)
  BY DEF PlacesOK

\* Bytes that are written stay, and so does what a token says of them.
LEMMA TokenStays ==
  ASSUME NEW cs, NEW new, NEW out, NEW out2, NEW t \in Tokens, TokenOK(cs, t, out),
         \A p \in DOMAIN out : p \in DOMAIN out2 /\ out2[p] = out[p],
         t.dist = -1 => \A l \in Lane : cs[l].pending /\ cs[l].out_pos = t.pos => new[l] = cs[l]
  PROVE  TokenOK(new, t, out2)
  <1>1. CASE t.dist = 0
    BY <1>1 DEF TokenOK
  <1>2. CASE t.dist > 0
    <2>1. Matched(t, out2)
      BY <1>2 DEF TokenOK, Matched
    <2>2. ~(t.dist = 0) /\ ~(t.dist < 0)
      BY <1>2 DEF Tokens
    <2> QED BY <2>1, <2>2 DEF TokenOK
  <1>3. CASE t.dist < 0
    <2>1. PICK l \in Lane : cs[l].pending /\ cs[l].out_pos = t.pos /\ cs[l].length = t.len
      BY <1>3 DEF TokenOK
    <2>2. t.dist = -1 /\ ~(t.dist = 0) /\ ~(t.dist > 0)
      BY <1>3 DEF TokenOK
    <2>3. new[l] = cs[l]
      BY <2>1, <2>2
    <2> QED BY <2>1, <2>2, <2>3 DEF TokenOK
  <1>4. t.dist = 0 \/ t.dist > 0 \/ t.dist < 0
    BY DEF Tokens
  <1> QED BY <1>1, <1>2, <1>3, <1>4

\* A token more.
LEMMA TokenAdded ==
  ASSUME NEW cs, NEW new, NEW c \in Nat, NEW out, NEW out2, NEW ts, TokensOK(cs, c, ts, out),
         NEW t \in Tokens, t.pos = c, TokenOK(new, t, out2),
         \A i \in 1 .. Len(ts) : TokenOK(new, ts[i], out2)
  PROVE  TokensOK(new, c + t.len, Append(ts, t), out2)
  <1> DEFINE n == Len(ts)
             us == Append(ts, t)
  <1>1. ts \in Seq(Tokens) /\ n \in Nat
    BY DEF TokensOK
  <1>2. us \in Seq(Tokens) /\ Len(us) = n + 1 /\ us[n + 1] = t /\ us # <<>>
        /\ \A i \in 1 .. n : us[i] = ts[i]
    <2>1. us \in Seq(Tokens)
      BY <1>1
    <2>2. Len(us) = n + 1 /\ us[n + 1] = t /\ \A i \in 1 .. n : us[i] = ts[i]
      BY <1>1
    <2>3. us # <<>>
      BY <1>1, <2>2
    <2> QED BY <2>1, <2>2, <2>3
  <1>3. t.len \in Nat /\ t.len > 0 /\ \A i \in 1 .. n : ts[i] \in Tokens
    <2>1. \A i \in 1 .. n : ts[i] \in Tokens
      BY <1>1
    <2>2. t.len \in Nat \ {0}
      BY DEF Tokens
    <2> QED BY <2>1, <2>2
  <1>4. \A i \in 1 .. n : ts[i].pos \in Nat /\ ts[i].len \in Nat /\ ts[i].pos + ts[i].len <= c
    BY <1>3 DEF Tokens, TokensOK
  <1> HIDE DEF us
  <1>5. ASSUME NEW i \in 1 .. n + 1
        PROVE  us[i].pos = IF i = 1 THEN 0 ELSE us[i - 1].pos + us[i - 1].len
    <2>1. CASE i \in 1 .. n
      <3>1. i # 1 => i - 1 \in 1 .. n
        BY <1>1, <2>1
      <3> QED BY <1>2, <2>1, <3>1 DEF TokensOK
    <2>2. CASE i = n + 1 /\ n = 0
      <3>1. ts = <<>>
        BY <1>1, <2>2
      <3> QED BY <1>2, <2>2, <3>1 DEF TokensOK
    <2>3. CASE i = n + 1 /\ n # 0
      <3>1. ts # <<>> /\ n \in 1 .. n /\ i - 1 = n /\ i # 1
        BY <1>1, <2>3
      <3>2. c = ts[n].pos + ts[n].len
        BY <3>1 DEF TokensOK
      <3> QED BY <1>2, <2>3, <3>1, <3>2
    <2> QED BY <1>1, <2>1, <2>2, <2>3
  <1>6. ASSUME NEW i \in 1 .. n + 1, NEW j \in 1 .. n + 1, i < j
        PROVE  us[i].pos + us[i].len <= us[j].pos
    <2>1. i \in 1 .. n /\ (j \in 1 .. n \/ j = n + 1)
      BY <1>1, <1>6
    <2>2. CASE j \in 1 .. n
      BY <1>2, <1>6, <2>1, <2>2 DEF TokensOK
    <2>3. CASE j = n + 1
      BY <1>2, <1>4, <2>1, <2>3
    <2> QED BY <2>1, <2>2, <2>3
  <1>7. ASSUME NEW i \in 1 .. n + 1
        PROVE  us[i].pos + us[i].len <= c + t.len /\ TokenOK(new, us[i], out2)
    <2>1. CASE i = n + 1
      BY <1>2, <1>3, <2>1
    <2>2. CASE i \in 1 .. n
      BY <1>2, <1>3, <1>4, <2>2
    <2> QED BY <1>1, <2>1, <2>2
  <1>8. us[Len(us)].pos + us[Len(us)].len = c + t.len
    BY <1>2
  <1>9. TokensOK(new, c + t.len, us, out2)
    BY <1>2, <1>5, <1>6, <1>7, <1>8 DEF TokensOK
  <1> QED BY <1>9 DEF us

-----------------------------------------------------------------------------
(* What a lane's step does to the output. *)

\* A byte more, written where the claim ends.
LEMMA ByteClaimed ==
  ASSUME NEW cs \in [Lane -> Copies], NEW i \in Lane, NEW c \in Nat, NEW out, NEW ts,
         PlacesOK(cs, i, c), OutOK(cs, c, out), TokensOK(cs, c, ts, out), ~cs[i].pending,
         NEW byte \in FreshBytes, byte # Unwritten,
         NEW out2, out2 = Write(out, [p \in {c} |-> byte]),
         NEW t, t = [pos |-> c, len |-> 1, dist |-> 0, byte |-> byte]
  PROVE  /\ PlacesOK(cs, i + 1, c + 1) /\ OutOK(cs, c + 1, out2)
         /\ TokensOK(cs, c + 1, Append(ts, t), out2)
  <1>1. PlacesOK(cs, i + 1, c + 1)
    BY PlacesPass
  <1>2. c \notin DOMAIN out
    BY DEF OutOK
  <1>3. /\ DOMAIN out2 = DOMAIN out \cup {c} /\ out2[c] = byte
        /\ \A p \in DOMAIN out : p \in DOMAIN out2 /\ out2[p] = out[p]
    <2> DEFINE one == [p \in {c} |-> byte]
    <2>1. DOMAIN one = {c} /\ one[c] = byte
      OBVIOUS
    <2> HIDE DEF one
    <2>2. out2 = Write(out, one)
      BY DEF one
    <2>3. /\ DOMAIN out2 = DOMAIN out \cup DOMAIN one
          /\ \A p \in DOMAIN one : out2[p] = one[p]
          /\ \A p \in DOMAIN out \ DOMAIN one : out2[p] = out[p]
      BY <2>2 DEF Write
    <2>4. \A p \in DOMAIN out : p \notin DOMAIN one
      BY <1>2, <2>1
    <2> QED BY <2>1, <2>3, <2>4
  <1>4. ~Holds(cs, c)
    <2>1. ASSUME NEW l \in Lane, cs[l].pending, c \in CopyRange(cs[l]) PROVE FALSE
      <3>1. cs[l].out_pos + cs[l].length <= c /\ cs[l] \in Copies
        BY <2>1 DEF PlacesOK
      <3>2. c < cs[l].out_pos + cs[l].length /\ cs[l].out_pos \in Nat /\ cs[l].length \in Nat
        BY <2>1, <3>1, CopyFields
      <3> QED BY <3>1, <3>2
    <2> QED BY <2>1 DEF Holds
  <1>5. OutOK(cs, c + 1, out2)
    <2>1. ASSUME NEW p PROVE p \in DOMAIN out2 <=> p \in 0 .. (c + 1) - 1 /\ ~Holds(cs, p)
      <3>1. p \in 0 .. (c + 1) - 1 <=> p \in 0 .. c - 1 \/ p = c
        OBVIOUS
      <3>2. p \in DOMAIN out2 <=> p \in DOMAIN out \/ p = c
        BY <1>3
      <3>3. p \in DOMAIN out <=> p \in 0 .. c - 1 /\ ~Holds(cs, p)
        BY DEF OutOK
      <3> QED BY <1>4, <3>1, <3>2, <3>3
    <2>2. \A p \in DOMAIN out2 : out2[p] # Unwritten
      BY <1>3 DEF OutOK
    <2> QED BY <2>1, <2>2 DEF OutOK
  <1>6. t \in Tokens /\ t.pos = c /\ t.len = 1 /\ t.dist = 0 /\ t.byte = byte
    BY DEF Tokens
  <1>7. TokenOK(cs, t, out2)
    BY <1>3, <1>6 DEF TokenOK
  <1>8. \A k \in 1 .. Len(ts) : TokenOK(cs, ts[k], out2)
    <2>1. ASSUME NEW k \in 1 .. Len(ts) PROVE TokenOK(cs, ts[k], out2)
      <3>1. ts[k] \in Tokens /\ TokenOK(cs, ts[k], out)
        BY DEF TokensOK
      <3> QED BY <1>3, <3>1, TokenStays
    <2> QED BY <2>1
  <1>9. TokensOK(cs, c + 1, Append(ts, t), out2)
    <2>1. TokensOK(cs, c + t.len, Append(ts, t), out2)
      BY <1>6, <1>7, <1>8, TokenAdded
    <2> QED BY <1>6, <2>1
  <1> QED BY <1>1, <1>5, <1>9

\* A reservation: claimed, not yet written.
LEMMA MatchClaimed ==
  ASSUME NEW cs \in [Lane -> Copies], NEW new \in [Lane -> Copies], NEW i \in Lane,
         NEW c \in Nat, NEW out, NEW ts,
         PlacesOK(cs, i, c), OutOK(cs, c, out), TokensOK(cs, c, ts, out), ~cs[i].pending,
         NEW len \in Nat, len > 0, \A l \in Lane \ {i} : new[l] = cs[l],
         new[i] = [pending |-> TRUE, length |-> len, out_pos |-> c],
         NEW t, t = [pos |-> c, len |-> len, dist |-> -1, byte |-> <<>>]
  PROVE  /\ PlacesOK(new, i + 1, c + len) /\ OutOK(new, c + len, out)
         /\ TokensOK(new, c + len, Append(ts, t), out)
  <1>0. new[i].pending /\ new[i].out_pos = c /\ new[i].length = len
    OBVIOUS
  <1>1. PlacesOK(new, i + 1, c + len)
    BY <1>0, PlacesReserve
  <1>2. CopyRange(new[i]) = c .. c + len - 1
    BY <1>0 DEF CopyRange
  <1>3. \A p : Holds(new, p) <=> Holds(cs, p) \/ p \in c .. c + len - 1
    <2>1. ASSUME NEW p PROVE Holds(new, p) <=> Holds(cs, p) \/ p \in CopyRange(new[i])
      <3>1. ASSUME NEW l \in Lane, new[l].pending, p \in CopyRange(new[l])
            PROVE  Holds(cs, p) \/ p \in CopyRange(new[i])
        BY <3>1 DEF Holds
      <3>2. ASSUME NEW l \in Lane, cs[l].pending, p \in CopyRange(cs[l])
            PROVE  Holds(new, p)
        <4>1. l # i
          BY <3>2
        <4>2. new[l] = cs[l]
          BY <4>1
        <4> QED BY <3>2, <4>2 DEF Holds
      <3>3. p \in CopyRange(new[i]) => Holds(new, p)
        BY <1>0 DEF Holds
      <3> QED BY <3>1, <3>2, <3>3 DEF Holds
    <2> QED BY <1>2, <2>1
  <1>4. \A p : Holds(cs, p) => p \in 0 .. c - 1
    <2>1. ASSUME NEW p, NEW l \in Lane, cs[l].pending, p \in CopyRange(cs[l]) PROVE p \in 0 .. c - 1
      <3>1. cs[l].out_pos + cs[l].length <= c /\ cs[l] \in Copies
        BY <2>1 DEF PlacesOK
      <3>2. p \in Nat /\ p < cs[l].out_pos + cs[l].length /\ cs[l].out_pos \in Nat /\ cs[l].length \in Nat
        BY <2>1, <3>1, CopyFields
      <3> QED BY <3>1, <3>2
    <2> QED BY <2>1 DEF Holds
  <1>5. OutOK(new, c + len, out)
    <2>1. ASSUME NEW p PROVE p \in DOMAIN out <=> p \in 0 .. (c + len) - 1 /\ ~Holds(new, p)
      <3>1. p \in DOMAIN out <=> p \in 0 .. c - 1 /\ ~Holds(cs, p)
        BY DEF OutOK
      <3>2. p \in 0 .. (c + len) - 1 <=> p \in 0 .. c - 1 \/ p \in c .. c + len - 1
        OBVIOUS
      <3>3. ~(p \in 0 .. c - 1 /\ p \in c .. c + len - 1)
        OBVIOUS
      <3> QED BY <1>3, <1>4, <3>1, <3>2, <3>3
    <2> QED BY <2>1 DEF OutOK
  <1>6. t \in Tokens /\ t.pos = c /\ t.len = len /\ t.dist = -1
    BY DEF Tokens
  <1>7. TokenOK(new, t, out)
    BY <1>0, <1>6 DEF TokenOK
  <1>8. \A k \in 1 .. Len(ts) : TokenOK(new, ts[k], out)
    <2>1. ASSUME NEW k \in 1 .. Len(ts) PROVE TokenOK(new, ts[k], out)
      <3>1. ts[k] \in Tokens /\ TokenOK(cs, ts[k], out)
        BY DEF TokensOK
      <3>2. \A l \in Lane : cs[l].pending => new[l] = cs[l]
        OBVIOUS
      <3> QED BY <3>1, <3>2, TokenStays
    <2> QED BY <2>1
  <1>9. TokensOK(new, c + len, Append(ts, t), out)
    <2>1. TokensOK(new, c + t.len, Append(ts, t), out)
      BY <1>6, <1>7, <1>8, TokenAdded
    <2> QED BY <1>6, <2>1
  <1> QED BY <1>1, <1>5, <1>9

\* The match at a lane's reservation is copied: everything before it is written by
\* then, and no other lane has a byte of it.
LEMMA MatchRetired ==
  ASSUME NEW cs \in [Lane -> Copies], NEW new \in [Lane -> Copies], NEW i \in Lane,
         NEW c \in Nat, NEW out, NEW ts,
         PlacesOK(cs, i, c), OutOK(cs, c, out), TokensOK(cs, c, ts, out), cs[i].pending,
         \A l \in Lane \ {i} : new[l] = cs[l], ~new[i].pending,
         NEW dist \in Nat \ {0}, dist <= cs[i].out_pos,
         NEW out2, out2 = CopyForward(out, cs[i].out_pos, dist, cs[i].length),
         NEW us, us = [k \in DOMAIN ts |-> IF ts[k].pos = cs[i].out_pos /\ ts[k].dist = -1
                                           THEN [ts[k] EXCEPT !.dist = dist] ELSE ts[k]]
  PROVE  PlacesOK(new, i + 1, c) /\ OutOK(new, c, out2) /\ TokensOK(new, c, us, out2)
  <1> DEFINE pos == cs[i].out_pos
             len == cs[i].length
             range == pos .. pos + len - 1
             src(p) == pos - dist + ((p - pos) % dist)
  <1>1. pos \in Nat /\ len \in Nat /\ len > 0 /\ pos + len <= c /\ CopyRange(cs[i]) = range
    <2>1. cs[i] \in Copies
      OBVIOUS
    <2> QED BY <2>1, CopyFields DEF PlacesOK, CopyRange
  <1>2. PlacesOK(new, i + 1, c)
    BY PlacesPass
  <1>3. \A l \in Lane \ {i} : cs[l].pending =>
          /\ cs[l].out_pos \in Nat /\ cs[l].length \in Nat /\ cs[l].length > 0
          /\ pos + len <= cs[l].out_pos
    <2>1. ASSUME NEW l \in Lane \ {i} PROVE Before(i, i, l)
      <3>1. i \in Int /\ l \in Int /\ i # l
        BY LaneAssumption DEF Lane
      <3> QED BY <3>1 DEF Before
    <2>2. ASSUME NEW l \in Lane \ {i}, cs[l].pending
          PROVE  cs[l].out_pos \in Nat /\ cs[l].length \in Nat /\ cs[l].length > 0
                 /\ pos + len <= cs[l].out_pos
      <3>1. cs[l] \in Copies
        OBVIOUS
      <3>2. cs[l].length > 0 /\ pos + len <= cs[l].out_pos
        BY <2>1, <2>2 DEF PlacesOK
      <3> QED BY <3>1, <3>2, CopyFields
    <2> QED BY <2>2
  <1> HIDE DEF pos, len
  <1>4. \A q \in 0 .. pos - 1 : q \in DOMAIN out
    <2>1. ASSUME NEW q \in 0 .. pos - 1, NEW l \in Lane, cs[l].pending, q \in CopyRange(cs[l])
          PROVE  FALSE
      <3>1. l # i
        BY <1>1, <2>1
      <3>2. cs[l] \in Copies
        OBVIOUS
      <3>3. pos + len <= cs[l].out_pos /\ cs[l].out_pos <= q /\ cs[l].out_pos \in Nat
        BY <1>3, <2>1, <3>1, <3>2, CopyFields
      <3> QED BY <1>1, <3>3
    <2>2. \A q \in 0 .. pos - 1 : ~Holds(cs, q)
      BY <2>1 DEF Holds
    <2>3. \A q \in 0 .. pos - 1 : q \in 0 .. c - 1
      BY <1>1
    <2> QED BY <2>2, <2>3 DEF OutOK
  <1>5. \A p \in range : src(p) \in 0 .. pos - 1 /\ src(p) \in DOMAIN out /\ ByteIn(out, src(p)) = out[src(p)]
    <2>1. ASSUME NEW p \in range PROVE src(p) \in 0 .. pos - 1
      <3>1. p - pos \in Nat
        BY <1>1
      <3>2. (p - pos) % dist \in 0 .. dist - 1
        BY <3>1, ModRange
      <3>3. dist <= pos
        BY DEF pos
      <3> QED BY SMTT(20), <1>1, <3>2, <3>3
    <2> HIDE DEF src
    <2> QED BY <1>4, <2>1 DEF ByteIn
  <1> DEFINE bytes == [p \in range |-> ByteIn(out, src(p))]
  <1>6. out2 = Write(out, bytes)
    <2>1. CopyForward(out, pos, dist, len) = CopyGather(out, pos, dist, len)
      BY <1>1, ForwardIsGather
    <2>2. out2 = CopyGather(out, pos, dist, len)
      BY <2>1 DEF pos, len
    <2> QED BY <2>2 DEF CopyGather
  <1>7. \A p \in range : p \notin DOMAIN out
    <2>1. \A p \in range : Holds(cs, p)
      BY <1>1 DEF Holds
    <2> QED BY <2>1 DEF OutOK
  <1>8. /\ DOMAIN out2 = DOMAIN out \cup range
        /\ \A p \in DOMAIN out : p \in DOMAIN out2 /\ out2[p] = out[p]
        /\ \A p \in range : p \in DOMAIN out2 /\ out2[p] = out[src(p)]
    <2>1. DOMAIN bytes = range /\ \A p \in range : bytes[p] = out[src(p)]
      BY <1>5
    <2> HIDE DEF bytes, range, src
    <2>2. /\ DOMAIN out2 = DOMAIN out \cup DOMAIN bytes
          /\ \A p \in DOMAIN bytes : out2[p] = bytes[p]
          /\ \A p \in DOMAIN out \ DOMAIN bytes : out2[p] = out[p]
      BY <1>6 DEF Write
    <2> QED BY <1>7, <2>1, <2>2
  <1>9. \A p : Holds(cs, p) <=> Holds(new, p) \/ p \in range
    <2>1. ASSUME NEW p PROVE Holds(cs, p) <=> Holds(new, p) \/ p \in CopyRange(cs[i])
      <3>1. ASSUME NEW l \in Lane, new[l].pending, p \in CopyRange(new[l])
            PROVE  Holds(cs, p)
        <4>1. l # i
          BY <3>1
        <4>2. new[l] = cs[l]
          BY <4>1
        <4> QED BY <3>1, <4>2 DEF Holds
      <3>2. ASSUME NEW l \in Lane, cs[l].pending, p \in CopyRange(cs[l])
            PROVE  Holds(new, p) \/ p \in CopyRange(cs[i])
        BY <3>2 DEF Holds
      <3>3. p \in CopyRange(cs[i]) => Holds(cs, p)
        BY DEF Holds
      <3> QED BY <3>1, <3>2, <3>3 DEF Holds
    <2> QED BY <1>1, <2>1
  <1>10. \A p \in range : ~Holds(new, p)
    <2>1. ASSUME NEW p \in range, NEW l \in Lane, new[l].pending, p \in CopyRange(new[l])
          PROVE  FALSE
      <3>1. l # i
        BY <2>1
      <3>2. new[l] = cs[l] /\ cs[l] \in Copies
        BY <3>1
      <3>3. pos + len <= cs[l].out_pos /\ cs[l].out_pos <= p /\ cs[l].out_pos \in Nat
        BY <1>3, <2>1, <3>1, <3>2, CopyFields
      <3> QED BY <1>1, <3>3
    <2> QED BY <2>1 DEF Holds
  <1>11. OutOK(new, c, out2)
    <2>1. ASSUME NEW p PROVE p \in DOMAIN out2 <=> p \in 0 .. c - 1 /\ ~Holds(new, p)
      <3>1. p \in DOMAIN out <=> p \in 0 .. c - 1 /\ ~Holds(cs, p)
        BY DEF OutOK
      <3>2. p \in range => p \in 0 .. c - 1
        BY <1>1
      <3>3. p \in DOMAIN out2 <=> p \in DOMAIN out \/ p \in range
        BY <1>8
      <3> HIDE DEF range
      <3> QED BY <1>9, <1>10, <3>1, <3>2, <3>3
    <2>2. ASSUME NEW p \in DOMAIN out2 PROVE out2[p] # Unwritten
      <3>1. \A q \in DOMAIN out : out[q] # Unwritten
        BY DEF OutOK
      <3>2. CASE p \in DOMAIN out
        BY <1>8, <3>1, <3>2
      <3>3. CASE p \in range
        <4>1. src(p) \in DOMAIN out
          BY <1>5, <3>3
        <4> HIDE DEF src, range
        <4> QED BY <1>8, <3>1, <3>3, <4>1
      <3> QED BY <1>8, <3>2, <3>3
    <2> QED BY <2>1, <2>2 DEF OutOK
  <1>12. ASSUME NEW t, t.pos = pos, t.len = len, t.dist = dist PROVE Matched(t, out2)
    <2>1. ASSUME NEW n \in 0 .. len - 1
          PROVE  /\ pos + n \in DOMAIN out2 /\ pos + n - dist \in DOMAIN out2
                 /\ out2[pos + n] = out2[pos + n - dist]
      <3>1. n \in Nat /\ pos + n \in range /\ (pos + n) - pos = n /\ dist <= pos
        BY <1>1 DEF pos
      <3>2. out2[pos + n] = out[src(pos + n)] /\ pos + n \in DOMAIN out2 /\ src(pos + n) = pos - dist + (n % dist)
        BY <1>8, <3>1
      <3>3. CASE n < dist
        <4>1. n % dist = n
          BY <3>1, <3>3, ModRange
        <4>2. pos - dist + n = pos + n - dist /\ pos + n - dist \in 0 .. pos - 1
          BY <1>1, <3>1, <3>3
        <4>3. pos + n - dist \in DOMAIN out
          BY <1>4, <4>2
        <4> HIDE DEF src, range
        <4> QED BY <1>8, <3>2, <4>1, <4>2, <4>3
      <3>4. CASE ~(n < dist)
        <4>1. n - dist \in Nat /\ pos + n - dist \in range /\ (pos + n - dist) - pos = n - dist
              /\ (n - dist) + dist = n
          BY SMTT(20), <1>1, <3>1, <3>4
        <4>2. n % dist = (n - dist) % dist
          BY <4>1, ModNext
        <4>3. src(pos + n - dist) = pos - dist + ((n - dist) % dist)
          BY <4>1
        <4>4. out2[pos + n - dist] = out[src(pos + n - dist)] /\ pos + n - dist \in DOMAIN out2
          BY <1>8, <4>1
        <4> HIDE DEF src, range
        <4> QED BY <3>2, <4>2, <4>3, <4>4
      <3> QED BY <3>3, <3>4
    <2> QED BY <1>12, <2>1 DEF Matched
  <1>13. ts \in Seq(Tokens) /\ DOMAIN ts = 1 .. Len(ts) /\ Len(ts) \in Nat
         /\ \A k \in 1 .. Len(ts) : ts[k] \in Tokens /\ TokenOK(cs, ts[k], out)
    BY DEF TokensOK
  <1>14. ASSUME NEW k \in 1 .. Len(ts)
         PROVE  us[k] \in Tokens /\ us[k].pos = ts[k].pos /\ us[k].len = ts[k].len
                /\ TokenOK(new, us[k], out2)
    <2>1. CASE ts[k].pos = pos /\ ts[k].dist = -1
      <3>1. PICK l \in Lane : cs[l].pending /\ cs[l].out_pos = pos /\ cs[l].length = ts[k].len
        BY <1>13, <2>1 DEF TokenOK
      <3>2. l = i
        BY <1>1, <1>3, <3>1
      <3>3. us[k] = [ts[k] EXCEPT !.dist = dist]
        BY <1>13, <2>1 DEF pos
      <3>4. us[k] \in Tokens /\ us[k].pos = pos /\ us[k].len = ts[k].len /\ us[k].dist = dist
        <4> DEFINE t == ts[k]
        <4>1. t \in Tokens /\ dist \in Int /\ t.pos = pos
          BY <1>13, <2>1
        <4> HIDE DEF t
        <4>2. [t EXCEPT !.dist = dist] \in Tokens
          BY <4>1 DEF Tokens
        <4>3. [t EXCEPT !.dist = dist].pos = pos /\ [t EXCEPT !.dist = dist].len = t.len
              /\ [t EXCEPT !.dist = dist].dist = dist
          BY <4>1 DEF Tokens
        <4>4. us[k] = [t EXCEPT !.dist = dist]
          BY <3>3 DEF t
        <4> QED BY <4>2, <4>3, <4>4 DEF t
      <3>5. us[k].len = len
        BY <3>1, <3>2, <3>4 DEF len
      <3>6. TokenOK(new, us[k], out2)
        <4>1. Matched(us[k], out2)
          BY <1>12, <3>4, <3>5
        <4>2. us[k].dist > 0 /\ us[k].dist # 0 /\ ~(us[k].dist < 0)
          BY <3>4
        <4> QED BY <4>1, <4>2 DEF TokenOK
      <3> QED BY <2>1, <3>4, <3>6
    <2>2. CASE ~(ts[k].pos = pos /\ ts[k].dist = -1)
      <3>1. us[k] = ts[k]
        BY <1>13, <2>2 DEF pos
      <3>2. ts[k].dist = -1 => \A l \in Lane : cs[l].pending /\ cs[l].out_pos = ts[k].pos => new[l] = cs[l]
        BY <2>2 DEF pos
      <3>3. TokenOK(new, ts[k], out2)
        BY <1>8, <1>13, <3>2, TokenStays
      <3> QED BY <1>13, <3>1, <3>3
    <2> QED BY <2>1, <2>2
  <1>15. us \in Seq(Tokens) /\ Len(us) = Len(ts) /\ (us = <<>> <=> ts = <<>>)
    <2>1. DOMAIN us = 1 .. Len(ts) /\ us = [k \in 1 .. Len(ts) |-> us[k]]
      BY <1>13
    <2>2. us \in [1 .. Len(ts) -> Tokens]
      BY <1>14, <2>1
    <2>3. us \in Seq(Tokens)
      BY <1>13, <2>2
    <2>4. Len(us) = Len(ts)
      BY <1>13, <2>1, <2>3
    <2>5. us = <<>> <=> Len(us) = 0
      BY <2>3
    <2>6. ts = <<>> <=> Len(ts) = 0
      BY <1>13
    <2> QED BY <2>3, <2>4, <2>5, <2>6
  <1>16. TokensOK(new, c, us, out2)
    <2>1. ASSUME NEW k \in 1 .. Len(us)
          PROVE  /\ us[k].pos = IF k = 1 THEN 0 ELSE us[k - 1].pos + us[k - 1].len
                 /\ us[k].pos + us[k].len <= c /\ TokenOK(new, us[k], out2)
      <3>1. k # 1 => k - 1 \in 1 .. Len(ts)
        BY <1>13, <1>15
      <3>2. /\ ts[k].pos = IF k = 1 THEN 0 ELSE ts[k - 1].pos + ts[k - 1].len
            /\ ts[k].pos + ts[k].len <= c
        BY <1>15 DEF TokensOK
      <3>3. k # 1 => us[k - 1].pos = ts[k - 1].pos /\ us[k - 1].len = ts[k - 1].len
        BY <1>14, <3>1
      <3>4. us[k].pos = ts[k].pos /\ us[k].len = ts[k].len /\ TokenOK(new, us[k], out2)
        BY <1>14, <1>15
      <3> QED BY <3>2, <3>3, <3>4
    <2>2. \A k, j \in 1 .. Len(us) : k < j => us[k].pos + us[k].len <= us[j].pos
      BY <1>14, <1>15 DEF TokensOK
    <2>3. c = IF us = <<>> THEN 0 ELSE us[Len(us)].pos + us[Len(us)].len
      <3>1. CASE ts = <<>>
        BY <1>15, <3>1 DEF TokensOK
      <3>2. CASE ts # <<>>
        <4>1. Len(ts) \in 1 .. Len(ts)
          BY <1>13, <3>2
        <4>2. c = ts[Len(ts)].pos + ts[Len(ts)].len
          BY <3>2 DEF TokensOK
        <4> QED BY <1>14, <1>15, <3>2, <4>1, <4>2
      <3> QED BY <3>1, <3>2
    <2> QED BY <1>15, <2>1, <2>2, <2>3 DEF TokensOK
  <1> QED BY <1>2, <1>11, <1>16

-----------------------------------------------------------------------------
(* The output of the sequential team. *)

HostCopies == [l \in Lane |-> hlanes[l].copy]
Claimed == hd.out_pos + (IF hd.stage = "bytes" THEN hidx ELSE 0)
FirstWords == \A l \in Lane : hlanes[l].words # <<>> /\ hlanes[l].words[1] = l

\* Only a block's symbols leave reservations; past the end of block they are retired,
\* in that round or in the drain behind it.
Retired(cs, stage, eob, i) ==
  /\ stage \notin {"symbols", "drain"} => \A l \in Lane : ~cs[l].pending
  /\ stage = "symbols" => \A l \in Lane : eob <= l /\ l < i => ~cs[l].pending
  /\ stage = "drain" => \A l \in Lane : cs[l].pending => i <= l /\ l < eob

HostOut ==
  hd.stage # "refused" =>
    /\ FirstWords /\ PlacesOK(HostCopies, hidx, Claimed) /\ OutOK(HostCopies, Claimed, hout)
    /\ TokensOK(HostCopies, Claimed, tokens, hout)
    /\ Retired(HostCopies, hd.stage, hd.eob, hidx)

LEMMA OutStarts == Init => HostOut
  <1> SUFFICES ASSUME Init PROVE HostOut
    OBVIOUS
  <1> USE DEF Init, Host!Init
  <1>1. hlanes = [l \in Lane |-> Primed(l)] /\ hidx = 0 /\ hout = <<>> /\ tokens = <<>>
    BY DEF Primed, Host!Primed, Lane, Host!Lane, NoCopy, Host!NoCopy
  <1>2. hd.stage = "header" /\ hd.out_pos = 0
    BY DEF Host!Driver0
  <1>3. \A l \in Lane : hlanes[l].words = <<l>> /\ ~HostCopies[l].pending
    BY <1>1 DEF Primed, NoCopy, HostCopies
  <1>4. FirstWords
    BY <1>3 DEF FirstWords
  <1>5. Claimed = 0
    BY <1>2 DEF Claimed
  <1>6. OutOK(HostCopies, Claimed, hout)
    BY <1>1, <1>5 DEF OutOK
  <1>7. TokensOK(HostCopies, Claimed, tokens, hout)
    BY <1>1, <1>5 DEF TokensOK
  <1> QED BY <1>2, <1>3, <1>4, <1>6, <1>7, PlacesNone DEF HostOut, Retired

\* A lane that is dealt a word keeps its first one and its reservation.
LEMMA EnsuredStarts ==
  ASSUME HostInv, NEW lane \in LaneStates, lane.words # <<>>
  PROVE  /\ Host!Ensured(lane).copy = lane.copy /\ Host!Ensured(lane).words # <<>>
         /\ Host!Ensured(lane).words[1] = lane.words[1]
  <1> DEFINE ens == Host!Ensured(lane)
  <1>1. lane.words \in Seq(Nat) /\ Len(lane.words) \in Nat /\ Len(lane.words) >= 1
    <2>1. lane.words \in Seq(Nat)
      BY DEF LaneStates
    <2> QED BY <2>1
  <1>2. ens = lane \/ ens = [lane EXCEPT !.words = Append(lane.words, hcursor),
                                         !.left = lane.left + Packet]
    BY DEF Host!Ensured, Host!RefillLane, LaneStates
  <1> HIDE DEF ens
  <1>3. CASE ens = lane
    BY <1>3 DEF ens
  <1>4. CASE ens = [lane EXCEPT !.words = Append(lane.words, hcursor),
                                !.left = lane.left + Packet]
    <2>1. ens.words = Append(lane.words, hcursor) /\ ens.copy = lane.copy
      BY <1>4 DEF LaneStates
    <2>2. Append(lane.words, hcursor)[1] = lane.words[1] /\ Append(lane.words, hcursor) # <<>>
      <3>1. hcursor \in Nat
        BY LaneAssumption DEF HostInv, HostTyped
      <3> QED BY <1>1, <3>1
    <2> QED BY <2>1, <2>2 DEF ens
  <1> QED BY <1>2, <1>3, <1>4

\* Whatever a lane's step did to the output, the round goes on, is wrapped or is over.
LEMMA AdvanceOut ==
  ASSUME HostInv, HostOut, InRound,
         NEW lane \in LaneStates, lane.words = hlanes[hidx].words,
         NEW e \in Drivers, e.stage = hd.stage, hd.stage # "symbols" => e = hd,
         NEW new, new = [HostCopies EXCEPT ![hidx] = lane.copy],
         NEW c \in Nat, c = e.out_pos + (IF hd.stage = "bytes" THEN hidx + 1 ELSE 0),
         PlacesOK(new, hidx + 1, c), OutOK(new, c, hout'), TokensOK(new, c, tokens', hout'),
         Retired(new, e.stage, e.eob, hidx + 1), Host!Advance(lane, e)
  PROVE  HostOut'
  <1>1. /\ hidx \in Lane /\ hlanes \in [Lane -> LaneStates] /\ hd \in Drivers /\ hidx \in Nat
        /\ NumStreams \in Nat
    BY LaneInRound
  <1>2. CASE Host!Fails("RefillPastEnd")
    <2>1. hd' = [hd EXCEPT !.stage = "refused"]
      BY <1>2 DEF Host!Fails, Host!Refused
    <2>2. hd'.stage = "refused"
      BY <1>1, <2>1 DEF Drivers
    <2> QED BY <2>2 DEF HostOut
  <1>3. CASE /\ hlanes' = [hlanes EXCEPT ![hidx] = Host!Ensured(lane)]
             /\ hidx' = IF hidx + 1 = Host!RoundLanes(hd) THEN 0 ELSE hidx + 1
             /\ hd' = IF hidx + 1 = Host!RoundLanes(hd) THEN Host!AfterRound(e) ELSE e
    <2> DEFINE ens == Host!Ensured(lane)
    <2>1. ens.copy = lane.copy /\ ens.words # <<>> /\ ens.words[1] = hidx
      <3>1. lane.words # <<>> /\ lane.words[1] = hidx /\ lane.words \in Seq(Nat)
        <4>1. hd.stage # "refused"
          BY DEF InRound
        <4> QED BY <1>1, <4>1 DEF HostOut, FirstWords, LaneStates
      <3> QED BY <3>1, EnsuredStarts
    <2> HIDE DEF ens
    <2>2. \A l \in Lane : hlanes'[l] = IF l = hidx THEN ens ELSE hlanes[l]
      BY <1>1, <1>3 DEF ens
    <2>3. HostCopies' = new
      BY <2>1, <2>2 DEF HostCopies
    <2>4. FirstWords'
      <3>1. FirstWords
        BY DEF HostOut, InRound
      <3> QED BY <2>1, <2>2, <3>1 DEF FirstWords
    <2>5. ASSUME PlacesOK(new, hidx', c), Retired(new, hd'.stage, hd'.eob, hidx'),
                 c = hd'.out_pos + (IF hd'.stage = "bytes" THEN hidx' ELSE 0)
          PROVE  HostOut'
      BY <2>3, <2>4, <2>5 DEF HostOut, Claimed
    <2>6. CASE ~(hidx + 1 = Host!RoundLanes(hd))
      <3>1. hd' = e /\ hidx' = hidx + 1
        BY <1>3, <2>6
      <3> QED BY <2>5, <3>1
    <2>7. CASE hidx + 1 = Host!RoundLanes(hd)
      <3>1. hd' = Host!AfterRound(e) /\ hidx' = 0
        BY <1>3, <2>7
      <3>2. ASSUME NEW f \in Drivers, f.out_pos = c, hd' = Host!NextBlock(f),
                   \A l \in Lane : ~new[l].pending
            PROVE  HostOut'
        <4>1. PICK s \in {"header", "ok", "refused"} : hd' = [f EXCEPT !.stage = s]
          BY <3>2 DEF Host!NextBlock
        <4>2. hd'.stage = s /\ hd'.out_pos = c
          BY <3>2, <4>1 DEF Drivers
        <4>3. PlacesOK(new, hidx', c)
          BY <3>2, PlacesNone
        <4> QED BY <2>5, <3>2, <4>2, <4>3 DEF Retired
      <3>3. CASE hd.stage = "bytes"
        <4> DEFINE n == Host!RoundLanes(hd)
                   f == [hd EXCEPT !.out_pos = @ + n, !.done = @ + n]
        <4>1. n = hidx + 1 /\ e = hd /\ c = hd.out_pos + n /\ hd.out_pos \in Nat /\ hd.done \in Nat
          BY <1>1, <2>7, <3>3 DEF Drivers
        <4>2. hd' = IF f.done < f.len THEN f ELSE Host!NextBlock(f)
          BY <3>1, <3>3, <4>1 DEF Host!AfterRound, Host!AfterBytes
        <4> HIDE DEF n
        <4>3. hd.out_pos + n \in Nat /\ hd.done + n \in Nat
          BY <1>1, <4>1
        <4>4. f \in Drivers /\ f.out_pos = c /\ f.stage = "bytes"
          BY <1>1, <3>3, <4>1, <4>3 DEF Drivers
        <4>5. \A l \in Lane : ~new[l].pending
          BY <3>3 DEF Retired
        <4> HIDE DEF f
        <4>6. CASE hd' = f
          <5>1. PlacesOK(new, hidx', c)
            BY <4>5, PlacesNone
          <5>2. c = hd'.out_pos + hidx'
            BY <3>1, <4>4, <4>6
          <5> QED BY <2>5, <4>4, <4>5, <4>6, <5>1, <5>2 DEF Retired
        <4>7. CASE hd' = Host!NextBlock(f)
          BY <3>2, <4>4, <4>5, <4>7
        <4> QED BY <4>2, <4>6, <4>7
      <3>4. CASE hd.stage = "symbols"
        <4>1. hidx + 1 = NumStreams /\ e.stage = "symbols" /\ c = e.out_pos /\ Host!NoLane = NumStreams
          BY <2>7, <3>4 DEF Host!RoundLanes, Host!NoLane, Drivers
        <4>2. PlacesOK(new, hidx', c)
          BY <3>1, <4>1, PlacesWrap
        <4>3. hd' = Host!AfterSymbols(e)
          BY <3>1, <4>1 DEF Host!AfterRound
        <4>4. \A l \in Lane : e.eob <= l => ~new[l].pending
          <5>1. \A l \in Lane : l < NumStreams
            BY <1>1 DEF Lane
          <5> QED BY <4>1, <5>1 DEF Retired
        <4>5. CASE e.eob = Host!NoLane
          <5>1. hd' = [e EXCEPT !.rounds = @ + 1] \/ hd' = [e EXCEPT !.stage = "refused"]
            <6>1. e.eob # 0
              BY <4>1, <4>5, LaneAssumption
            <6> QED BY <4>3, <4>5, <6>1 DEF Host!AfterSymbols, Host!Refused
          <5>2. hd'.stage \in {"symbols", "refused"} /\ hd'.out_pos = c /\ hd'.eob = NumStreams
            BY <4>1, <4>5, <5>1 DEF Drivers
          <5>3. Retired(new, hd'.stage, hd'.eob, hidx') \/ hd'.stage = "refused"
            <6>1. \A l \in Lane : ~(NumStreams <= l)
              BY <1>1 DEF Lane
            <6> QED BY <5>2, <6>1 DEF Retired
          <5>4. CASE hd'.stage = "refused"
            BY <5>4 DEF HostOut
          <5>5. CASE hd'.stage = "symbols" /\ Retired(new, hd'.stage, hd'.eob, hidx')
            <6>1. c = hd'.out_pos + (IF hd'.stage = "bytes" THEN hidx' ELSE 0)
              BY <5>2, <5>5
            <6> QED BY <2>5, <4>2, <5>5, <6>1
          <5> QED BY <5>2, <5>3, <5>4, <5>5
        <4>6. CASE e.eob # Host!NoLane /\ e.eob = 0
          <5>1. hd' = Host!NextBlock(e)
            BY <4>3, <4>6 DEF Host!AfterSymbols
          <5>2. \A l \in Lane : ~new[l].pending
            <6>1. \A l \in Lane : 0 <= l
              BY DEF Lane
            <6> QED BY <4>4, <4>6, <6>1
          <5> QED BY <3>2, <4>1, <5>1, <5>2
        <4>7. CASE e.eob # Host!NoLane /\ e.eob # 0
          <5>1. hd' = [e EXCEPT !.stage = "drain"]
            BY <4>3, <4>7 DEF Host!AfterSymbols
          <5>2. hd'.stage = "drain" /\ hd'.out_pos = c /\ hd'.eob = e.eob /\ e.eob \in Nat
            BY <4>1, <5>1 DEF Drivers
          <5>3. \A l \in Lane : new[l].pending => 0 <= l /\ l < e.eob
            <6>1. \A l \in Lane : l \in Nat
              BY DEF Lane
            <6> QED BY <4>4, <5>2, <6>1
          <5>4. Retired(new, hd'.stage, hd'.eob, hidx')
            BY <3>1, <5>2, <5>3 DEF Retired
          <5>5. c = hd'.out_pos + (IF hd'.stage = "bytes" THEN hidx' ELSE 0)
            BY <5>2
          <5> QED BY <2>5, <4>2, <5>4, <5>5
        <4> QED BY <4>5, <4>6, <4>7
      <3>5. CASE hd.stage = "drain"
        <4>1. hidx + 1 = hd.eob /\ e = hd /\ c = e.out_pos
          BY <2>7, <3>5 DEF Host!RoundLanes, Drivers
        <4>2. hd' = Host!NextBlock(e)
          BY <3>1, <3>5 DEF Host!AfterRound
        <4>3. \A l \in Lane : ~new[l].pending
          <5>1. \A l \in Lane : new[l].pending => hd.eob <= l /\ l < hd.eob
            BY <3>5, <4>1 DEF Retired
          <5>2. \A l \in Lane : l \in Int /\ hd.eob \in Int
            BY <1>1 DEF Lane, Drivers
          <5> QED BY <5>1, <5>2
        <4> QED BY <3>2, <4>1, <4>2, <4>3
      <3> QED BY <3>3, <3>4, <3>5 DEF InRound
    <2> QED BY <2>6, <2>7
  <1> QED BY <1>2, <1>3 DEF Host!Advance

\* The byte at a lane's bits is none that is missing.
LEMMA FreshByte ==
  ASSUME HostInv, FirstWords, NEW x \in Lane
  PROVE  Host!ByteAt(hlanes[x]) \in FreshBytes /\ Host!ByteAt(hlanes[x]) # Unwritten
  <1> DEFINE n == Len(hlanes[x].words)
  <1>1. hlanes[x] \in LaneStates /\ Packet \in Nat /\ x # NumStreams
    BY LaneAssumption DEF HostInv, HostTyped, Lane
  <1>2. n \in Nat /\ hlanes[x].left \in Nat
    BY <1>1 DEF LaneStates
  <1> HIDE DEF n
  <1>3. Packet * n - hlanes[x].left \in Int
    BY <1>1, <1>2
  <1>4. Host!ByteAt(hlanes[x]) = <<x, Packet * n - hlanes[x].left>>
    BY DEF FirstWords, Host!ByteAt, Host!Removed, n
  <1> QED BY <1>1, <1>3, <1>4 DEF FreshBytes, Unwritten, NoLane

LEMMA CopiesTyped == ASSUME HostInv PROVE HostCopies \in [Lane -> Copies]
  BY DEF HostInv, HostTyped, HostCopies, LaneStates

LEMMA RefusedOut == ASSUME HostInv, NEW rung, Host!Fails(rung) PROVE HostOut'
  <1>1. hd' = [hd EXCEPT !.stage = "refused"] /\ hd \in Drivers
    BY DEF Host!Fails, Host!Refused, HostInv, HostTyped
  <1>2. hd'.stage = "refused"
    BY <1>1 DEF Drivers
  <1> QED BY <1>2 DEF HostOut

\* Between the rounds nothing is reserved and no output is claimed.
LEMMA BetweenOut ==
  ASSUME HostInv, HostOut, hd.stage \in {"header", "length"},
         NEW lane \in LaneStates, lane.copy = hlanes[0].copy, lane.words = hlanes[0].words,
         hlanes' = [hlanes EXCEPT ![0] = lane] \/ hlanes' = [hlanes EXCEPT ![0] = Host!Ensured(lane)],
         hout' = hout, tokens' = tokens, hidx' = 0, hd'.out_pos = hd.out_pos,
         hd'.stage \in {"header", "length", "bytes", "symbols", "ok", "refused"},
         hd'.stage = "symbols" => hd'.eob = NumStreams
  PROVE  HostOut'
  <1>1. /\ hlanes \in [Lane -> LaneStates] /\ hd \in Drivers /\ NumStreams \in Nat /\ 0 \in Lane
        /\ hd.out_pos \in Nat /\ hidx = 0
    BY LaneAssumption DEF HostInv, HostTyped, HostPlace, Lane, Drivers
  <1>2. /\ FirstWords /\ OutOK(HostCopies, Claimed, hout)
        /\ TokensOK(HostCopies, Claimed, tokens, hout) /\ \A l \in Lane : ~HostCopies[l].pending
    BY DEF HostOut, Retired
  <1>3. lane.words # <<>> /\ lane.words[1] = 0
    BY <1>1, <1>2 DEF FirstWords
  <1>4. PICK ln : /\ ln.copy = hlanes[0].copy /\ ln.words # <<>> /\ ln.words[1] = 0
                  /\ hlanes' = [hlanes EXCEPT ![0] = ln]
    BY <1>3, EnsuredStarts
  <1>5. \A l \in Lane : hlanes'[l] = IF l = 0 THEN ln ELSE hlanes[l]
    BY <1>1, <1>4
  <1>6. HostCopies' = HostCopies
    BY <1>4, <1>5 DEF HostCopies
  <1>7. FirstWords'
    BY <1>2, <1>4, <1>5 DEF FirstWords
  <1>8. Claimed' = Claimed
    BY <1>1 DEF Claimed
  <1>9. Retired(HostCopies, hd'.stage, hd'.eob, hidx')
    BY <1>2 DEF Retired
  <1>10. PlacesOK(HostCopies, hidx', Claimed)
    BY <1>2, PlacesNone
  <1> QED BY <1>2, <1>6, <1>7, <1>8, <1>9, <1>10 DEF HostOut

LEMMA HeaderOut == ASSUME HostInv, HostOut, Host!Header PROVE HostOut'
  <1> DEFINE lane == hlanes[0]
             popped == Host!Remove(lane, HeaderBits)
             header == page'[Host!Bits(lane, "header")]
  <1>0. Host!HeaderBits = HeaderBits /\ HeaderBits = 3
    BY DEF Host!HeaderBits, HeaderBits
  <1>1. /\ hd \in Drivers /\ hlanes \in [Lane -> LaneStates] /\ lane \in LaneStates
        /\ hd.stage = "header" /\ lane.left \in Nat /\ Packet \in Nat
    <2>1. hd \in Drivers /\ hlanes \in [Lane -> LaneStates] /\ hd.stage = "header" /\ 0 \in Lane
          /\ Packet \in Nat
      BY LaneAssumption DEF HostInv, HostTyped, Host!Header, Lane
    <2>2. lane \in LaneStates
      BY <2>1
    <2> QED BY <2>1, <2>2 DEF LaneStates
  <1>2. HeaderBits <= lane.left
    <2>1. 0 \in Lane
      BY LaneAssumption DEF Lane
    <2>2. lane.left >= Packet \/ lane.left >= Packet - LenBits
      BY <1>1, <2>1 DEF HostInv, HostBits
    <2> QED BY <1>0, <1>1, <2>2, TeamAssumption
  <1>3. /\ popped \in LaneStates /\ popped.words = lane.words /\ popped.copy = lane.copy
    BY <1>0, <1>1, <1>2, Popped
  <1>4. page' \in Host!Reads(page, {Host!Bits(lane, "header")}, Host!Values)
    BY DEF Host!Header
  <1>5. header \in Headers
    <2>1. header \in Values["header"]
      BY <1>4, HostReads DEF HostInv, Tables
    <2> QED BY <2>1 DEF Values
  <1>6. CASE \E rung : Host!Fails(rung)
    BY <1>6, RefusedOut
  <1>7. CASE /\ hlanes' = [hlanes EXCEPT ![0] = Host!Ensured(popped)]
             /\ hd' = Host!AfterHeader([hd EXCEPT !.blocks = @ + 1], header)
             /\ hidx' = 0 /\ hout' = hout /\ tokens' = tokens
    <2> DEFINE e == [hd EXCEPT !.blocks = @ + 1]
    <2>1. e \in Drivers /\ e.out_pos = hd.out_pos
      BY <1>1 DEF Drivers
    <2> HIDE DEF e
    <2>2. header.type \in BlockTypes
      BY <1>5, TeamAssumption
    <2>3. PICK s \in {"refused", "length", "symbols"} :
            hd' = [e EXCEPT !.final = header.final, !.rounds = 0, !.eob = NumStreams, !.stage = s]
      BY <1>7, <2>2 DEF Host!AfterHeader, Host!NoLane, BlockTypes, e
    <2>4. hd'.stage = s /\ hd'.out_pos = hd.out_pos /\ hd'.eob = NumStreams
      BY <2>1, <2>3 DEF Drivers
    <2> HIDE DEF popped, lane
    <2> QED BY <1>1, <1>3, <1>7, <2>4, BetweenOut DEF lane
  <1> HIDE DEF popped, header
  <1> QED BY <1>0, <1>6, <1>7 DEF Host!Header, popped, header

LEMMA StoredLengthOut == ASSUME HostInv, HostOut, Host!StoredLength PROVE HostOut'
  <1> DEFINE lane == hlanes[0]
             popped == Host!Remove(lane, LenBits)
             len == page'[Host!Bits(lane, "length")]
  <1>1. /\ hd \in Drivers /\ hlanes \in [Lane -> LaneStates] /\ lane \in LaneStates
        /\ hd.stage = "length" /\ hidx = 0 /\ lane.left \in Nat /\ Packet \in Nat /\ LenBits \in Nat
        /\ lane.left >= Packet
    <2>1. hd \in Drivers /\ hlanes \in [Lane -> LaneStates] /\ hd.stage = "length" /\ 0 \in Lane
          /\ Packet \in Nat /\ LenBits \in Nat /\ hidx = 0
      BY LaneAssumption, TeamAssumption DEF HostInv, HostTyped, HostPlace, Host!StoredLength, Lane
    <2>2. lane \in LaneStates
      BY <2>1
    <2> QED BY <2>1, <2>2 DEF LaneStates, HostInv, HostBits
  <1>2. LenBits <= lane.left
    BY <1>1, TeamAssumption
  <1>3. /\ Host!PopRefuses(lane, LenBits) = "None" /\ popped \in LaneStates
        /\ popped.words = lane.words /\ popped.copy = lane.copy
    BY <1>1, <1>2, Popped
  <1>4. hlanes' = [hlanes EXCEPT ![0] = popped]
    BY <1>3 DEF Host!StoredLength
  <1>5. CASE \E rung : Host!Fails(rung)
    BY <1>5, RefusedOut
  <1>6. CASE hd' = Host!AfterLength(hd, len) /\ hidx' = hidx /\ hout' = hout /\ tokens' = tokens
    <2>1. PICK s \in {"header", "ok", "refused"} : Host!NextBlock(hd) = [hd EXCEPT !.stage = s]
      BY DEF Host!NextBlock
    <2>2. hd' = [hd EXCEPT !.stage = s] \/ hd' = [hd EXCEPT !.stage = "bytes", !.len = len, !.done = 0]
      BY <1>6, <2>1 DEF Host!AfterLength
    <2>3. hd'.out_pos = hd.out_pos /\ hd'.stage \in {"header", "ok", "refused", "bytes"}
      BY <1>1, <2>2 DEF Drivers
    <2> HIDE DEF popped, lane
    <2> QED BY <1>1, <1>3, <1>4, <1>6, <2>3, BetweenOut DEF lane
  <1> QED BY <1>5, <1>6 DEF Host!StoredLength

LEMMA StoredByteOut == ASSUME HostInv, HostOut, Host!StoredByte PROVE HostOut'
  <1> DEFINE lane == hlanes[hidx]
             popped == Host!Remove(lane, ByteBits)
             c == hd.out_pos + hidx
             byte == Host!ByteAt(lane)
             t == [pos |-> c, len |-> 1, dist |-> 0, byte |-> byte]
             new == [HostCopies EXCEPT ![hidx] = popped.copy]
  <1>1. InRound /\ hd.stage = "bytes"
    BY DEF Host!StoredByte, InRound
  <1>2. /\ ByteBits \in Nat /\ lane \in LaneStates /\ ByteBits <= lane.left /\ hd \in Drivers
        /\ hidx \in Lane /\ hidx \in Nat /\ hd.out_pos \in Nat
    BY <1>1, LaneInRound, TeamAssumption DEF Drivers
  <1>3. /\ Host!PopRefuses(lane, ByteBits) = "None" /\ popped \in LaneStates
        /\ popped.words = lane.words /\ popped.copy = lane.copy
    BY <1>2, Popped
  <1>4. /\ hout' = Write(hout, [p \in {c} |-> byte]) /\ tokens' = Append(tokens, t)
        /\ Host!Advance(popped, hd)
    BY <1>3 DEF Host!StoredByte, Write, Host!Write
  <1>5. /\ FirstWords /\ PlacesOK(HostCopies, hidx, c) /\ OutOK(HostCopies, c, hout)
        /\ TokensOK(HostCopies, c, tokens, hout) /\ \A l \in Lane : ~HostCopies[l].pending
    BY <1>1 DEF HostOut, Claimed, Retired
  <1>6. new = HostCopies
    BY <1>2, <1>3 DEF HostCopies
  <1>7. byte \in FreshBytes /\ byte # Unwritten
    BY <1>2, <1>5, FreshByte
  <1>8. c \in Nat /\ HostCopies \in [Lane -> Copies]
    BY <1>2, CopiesTyped
  <1> HIDE DEF c, byte
  <1>9. /\ PlacesOK(HostCopies, hidx + 1, c + 1) /\ OutOK(HostCopies, c + 1, hout')
        /\ TokensOK(HostCopies, c + 1, tokens', hout')
    BY <1>2, <1>4, <1>5, <1>7, <1>8, ByteClaimed
  <1>10. Retired(HostCopies, hd.stage, hd.eob, hidx + 1)
    BY <1>1, <1>5 DEF Retired
  <1>11. c + 1 = hd.out_pos + (IF hd.stage = "bytes" THEN hidx + 1 ELSE 0) /\ c + 1 \in Nat
    BY <1>1, <1>2 DEF c
  <1> HIDE DEF popped
  <1> QED BY <1>1, <1>2, <1>3, <1>4, <1>6, <1>9, <1>10, <1>11, AdvanceOut

LEMMA DrainIdleOut == ASSUME HostInv, HostOut, Host!DrainIdle PROVE HostOut'
  <1> DEFINE lane == hlanes[hidx]
             c == hd.out_pos
             new == [HostCopies EXCEPT ![hidx] = lane.copy]
  <1>1. InRound /\ hd.stage = "drain" /\ ~lane.copy.pending /\ hout' = hout /\ tokens' = tokens
        /\ Host!Advance(lane, hd)
    BY DEF Host!DrainIdle, InRound
  <1>2. lane \in LaneStates /\ hd \in Drivers /\ hidx \in Lane /\ hidx \in Nat /\ c \in Nat
    BY <1>1, LaneInRound DEF Drivers
  <1>3. /\ PlacesOK(HostCopies, hidx, c) /\ OutOK(HostCopies, c, hout)
        /\ TokensOK(HostCopies, c, tokens, hout)
        /\ \A l \in Lane : HostCopies[l].pending => hidx <= l /\ l < hd.eob
    BY <1>1, <1>2 DEF HostOut, Claimed, Retired
  <1>4. new = HostCopies /\ ~HostCopies[hidx].pending
    BY <1>1, <1>2 DEF HostCopies
  <1>5. PlacesOK(HostCopies, hidx + 1, c)
    <2>1. HostCopies \in [Lane -> Copies] /\ c <= c
      BY <1>2, CopiesTyped
    <2> QED BY <1>2, <1>3, <1>4, <2>1, PlacesPass
  <1>6. Retired(HostCopies, hd.stage, hd.eob, hidx + 1)
    <2>1. \A l \in Lane : HostCopies[l].pending => hidx + 1 <= l
      <3>1. \A l \in Lane : l \in Int
        BY DEF Lane
      <3> QED BY <1>2, <1>3, <1>4, <3>1
    <2> QED BY <1>1, <1>3, <2>1 DEF Retired
  <1>7. c = hd.out_pos + (IF hd.stage = "bytes" THEN hidx + 1 ELSE 0)
    BY <1>1, <1>2
  <1> QED BY <1>1, <1>2, <1>3, <1>4, <1>5, <1>6, <1>7, AdvanceOut

LEMMA RetireCopyOut == ASSUME HostInv, HostOut, Host!RetireCopy PROVE HostOut'
  <1> DEFINE lane == hlanes[hidx]
             sym == page'[Host!Bits(lane, "dist")]
             popped == Host!Remove(lane, sym.width)
             done == [popped EXCEPT !.copy.pending = FALSE]
             c == hd.out_pos
             new == [HostCopies EXCEPT ![hidx] = done.copy]
  <1>1. InRound /\ hd.stage \in {"symbols", "drain"} /\ lane.copy.pending
    BY DEF Host!RetireCopy, InRound
  <1>2. /\ lane \in LaneStates /\ hd \in Drivers /\ lane.left \in Nat /\ lane.left >= Packet
        /\ lane.copy \in Copies /\ hidx \in Lane /\ hidx \in Nat /\ c \in Nat /\ Packet \in Nat
    BY <1>1, LaneInRound, LaneAssumption DEF Drivers
  <1>3. sym \in Dists
    <2>1. page' \in Host!Reads(page, {Host!Bits(lane, "dist")}, Host!Values)
      BY DEF Host!RetireCopy
    <2>2. sym \in Values["dist"]
      BY <2>1, HostReads DEF HostInv, Tables
    <2> QED BY <2>2 DEF Values
  <1>4. sym.width \in Nat /\ sym.width <= lane.left /\ sym.value \in Nat \ {0}
    BY <1>2, <1>3, TeamAssumption
  <1>5. CASE \E rung : Host!RefusedStep(rung)
    BY <1>5, RefusedOut DEF Host!RefusedStep
  <1>6. CASE /\ sym.value <= lane.copy.out_pos
             /\ hout' = Host!CopyForward(hout, lane.copy.out_pos, sym.value, lane.copy.length)
             /\ tokens' = Host!WithDistance(lane.copy.out_pos, sym.value)
             /\ Host!Advance(done, hd)
    <2> HIDE DEF sym, lane
    <2>1. popped \in LaneStates /\ popped.words = lane.words /\ popped.copy = lane.copy
      BY <1>2, <1>4, Popped
    <2> HIDE DEF popped
    <2>2. done \in LaneStates /\ done.words = lane.words /\ ~done.copy.pending /\ done.copy \in Copies
      <3> DEFINE x == popped.copy
                 free == [x EXCEPT !.pending = FALSE]
      <3>1. free \in Copies /\ ~free.pending
        <4> HIDE DEF x
        <4>1. x \in Copies
          BY <1>2, <2>1 DEF x
        <4> QED BY <4>1 DEF Copies
      <3>2. done = [popped EXCEPT !.copy = free]
        BY <2>1 DEF LaneStates
      <3> HIDE DEF done, free
      <3>3. done.copy = free
        BY <3>2, <2>1 DEF LaneStates
      <3>4. done \in LaneStates /\ done.words = popped.words
        BY <3>1, <3>2, <2>1 DEF LaneStates
      <3> QED BY <3>1, <3>3, <3>4, <2>1
    <2> HIDE DEF done
    <2> DEFINE old == HostCopies[hidx]
    <2>3. old = lane.copy /\ HostCopies \in [Lane -> Copies] /\ new \in [Lane -> Copies]
          /\ ~new[hidx].pending /\ \A l \in Lane \ {hidx} : new[l] = HostCopies[l]
      <3>1. HostCopies \in [Lane -> Copies]
        BY CopiesTyped
      <3>2. old = lane.copy
        BY <1>2 DEF HostCopies, lane
      <3> QED BY <1>2, <2>2, <3>1, <3>2
    <2>4. /\ PlacesOK(HostCopies, hidx, c) /\ OutOK(HostCopies, c, hout)
          /\ TokensOK(HostCopies, c, tokens, hout) /\ Retired(HostCopies, hd.stage, hd.eob, hidx)
      BY <1>1, <1>2 DEF HostOut, Claimed
    <2>5. hout' = CopyForward(hout, old.out_pos, sym.value, old.length)
      BY <1>6, <2>3 DEF CopyForward, Host!CopyForward, ByteIn, Host!ByteIn, Write, Host!Write,
                        Unwritten, Host!Unwritten, NoLane, Host!NoLane
    <2>6. tokens' = [k \in DOMAIN tokens |->
                       IF tokens[k].pos = old.out_pos /\ tokens[k].dist = -1
                       THEN [tokens[k] EXCEPT !.dist = sym.value] ELSE tokens[k]]
      BY <1>6, <2>3 DEF Host!WithDistance
    <2> HIDE DEF new
    <2>7. /\ PlacesOK(new, hidx + 1, c) /\ OutOK(new, c, hout') /\ TokensOK(new, c, tokens', hout')
      BY <1>1, <1>2, <1>4, <1>6, <2>3, <2>4, <2>5, <2>6, MatchRetired DEF lane
    <2>8. Retired(new, hd.stage, hd.eob, hidx + 1)
      <3>1. \A l \in Lane : l \in Int
        BY DEF Lane
      <3>2. \A l \in Lane : new[l].pending => l # hidx /\ HostCopies[l].pending
        BY <2>3
      <3> QED BY <1>1, <1>2, <2>4, <3>1, <3>2 DEF Retired
    <2>9. c = hd.out_pos + (IF hd.stage = "bytes" THEN hidx + 1 ELSE 0)
      BY <1>1, <1>2
    <2> HIDE DEF c
    <2> QED BY <1>1, <1>2, <1>6, <2>2, <2>7, <2>8, <2>9, AdvanceOut DEF new, lane
  <1> QED BY <1>5, <1>6 DEF Host!RetireCopy

LEMMA SymbolOut == ASSUME HostInv, HostOut, Host!Symbol PROVE HostOut'
  <1> DEFINE lane == hlanes[hidx]
             sym == page'[Host!Bits(lane, "litlen")]
             rung == Host!StepWhy(lane, sym)
             eob == IF hd.eob = NumStreams /\ rung = "None" /\ sym.kind = "end" THEN hidx ELSE hd.eob
             e == [hd EXCEPT !.eob = eob]
             taken == Host!Remove(lane, sym.width)
             pos == hd.out_pos
             byte == Host!ByteAt(lane)
             claim == [pending |-> TRUE, length |-> sym.value, out_pos |-> pos]
             held == [taken EXCEPT !.copy = claim]
             Past(n) == [e EXCEPT !.out_pos = e.out_pos + n]
  <1>1. InRound /\ hd.stage = "symbols" /\ ~lane.copy.pending
    BY DEF Host!Symbol, InRound
  <1>2. /\ lane \in LaneStates /\ hd \in Drivers /\ lane.left \in Nat /\ lane.left >= Packet
        /\ lane.copy \in Copies /\ Packet \in Nat /\ pos \in Nat /\ NumStreams \in Nat
        /\ hidx \in Lane /\ hidx \in 0 .. NumStreams - 1 /\ hidx \in Nat
        /\ hd.eob \in 0 .. NumStreams /\ (hd.eob = NumStreams \/ hd.eob < hidx)
    <2>1. hd.stage = "symbols" => hd.eob = NumStreams \/ hd.eob < hidx
      BY DEF HostInv, HostPlace, NoLane
    <2> QED BY <1>1, <2>1, LaneInRound, LaneAssumption DEF Drivers, Lane
  <1>3. sym \in LitLens
    <2>1. page' \in Host!Reads(page, {Host!Bits(lane, "litlen")}, Host!Values)
      BY DEF Host!Symbol
    <2>2. sym \in Values["litlen"]
      BY <2>1, HostReads DEF HostInv, Tables
    <2> QED BY <2>2 DEF Values
  <1>4. /\ sym.width \in Nat /\ sym.width <= lane.left
        /\ sym.kind = "length" => sym.value \in Nat /\ sym.value > 0
    BY <1>2, <1>3, TeamAssumption
  <1>5. Host!NoLane = NumStreams
    BY DEF Host!NoLane
  <1>6. \/ eob < hidx /\ Host!Advance(lane, e) /\ hout' = hout /\ tokens' = tokens
        \/ eob = hidx /\ Host!Advance(taken, e) /\ hout' = hout /\ tokens' = tokens
        \/ \E why : Host!RefusedStep(why)
        \/ /\ eob > hidx /\ hout' = Host!Write(hout, [p \in {pos} |-> byte])
           /\ tokens' = Append(tokens, [pos |-> pos, len |-> 1, dist |-> 0, byte |-> byte])
           /\ Host!Advance(taken, Past(1))
        \/ /\ eob > hidx /\ sym.kind = "length"
           /\ tokens' = Append(tokens, [pos |-> pos, len |-> sym.value, dist |-> -1, byte |-> <<>>])
           /\ hout' = hout /\ Host!Advance(held, Past(sym.value))
    <2> DEFINE mine == [hd EXCEPT !.eob = IF @ = Host!NoLane /\ rung = "None" /\ sym.kind = "end"
                                          THEN hidx ELSE @]
    <2>1. mine = e /\ mine.eob = eob
      BY <1>2, <1>5 DEF Drivers
    <2> HIDE DEF e, eob, rung, taken, lane, sym
    <2> QED BY <2>1 DEF Host!Symbol, e, eob, rung, taken, lane, sym
  <1> HIDE DEF sym, lane
  <1>7. /\ taken \in LaneStates /\ taken.words = lane.words /\ taken.copy = lane.copy
    BY <1>2, <1>4, Popped
  <1> HIDE DEF rung, taken
  <1>8. eob \in 0 .. NumStreams /\ (eob = NumStreams \/ eob <= hidx)
        /\ (eob = hd.eob \/ eob = hidx)
    BY <1>2
  <1> HIDE DEF eob
  <1>9. e \in Drivers /\ e.stage = "symbols" /\ e.out_pos = pos /\ e.eob = eob
    BY <1>1, <1>2, <1>8 DEF Drivers
  <1> HIDE DEF e
  <1>10. /\ FirstWords /\ PlacesOK(HostCopies, hidx, pos) /\ OutOK(HostCopies, pos, hout)
         /\ TokensOK(HostCopies, pos, tokens, hout)
         /\ \A l \in Lane : hd.eob <= l /\ l < hidx => ~HostCopies[l].pending
    BY <1>1, <1>2 DEF HostOut, Claimed, Retired
  <1>11. HostCopies \in [Lane -> Copies] /\ HostCopies[hidx] = lane.copy
         /\ ~HostCopies[hidx].pending
    BY <1>1, <1>2, CopiesTyped DEF HostCopies, lane
  <1>12. \A l \in Lane : eob <= l /\ l < hidx + 1 => ~HostCopies[l].pending
    <2>1. \A l \in Lane : l \in Int
      BY DEF Lane
    <2> QED BY <1>2, <1>8, <1>10, <1>11, <2>1
  <1>13. ASSUME NEW ln \in LaneStates, ln.words = lane.words, ln.copy = lane.copy,
                Host!Advance(ln, e), hout' = hout, tokens' = tokens
         PROVE  HostOut'
    <2> DEFINE new == [HostCopies EXCEPT ![hidx] = ln.copy]
    <2>1. new = HostCopies
      BY <1>2, <1>11, <1>13
    <2> HIDE DEF new
    <2>2. PlacesOK(HostCopies, hidx + 1, pos)
      <3>1. pos <= pos /\ \A l \in Lane \ {hidx} : HostCopies[l] = HostCopies[l]
        BY <1>2
      <3> HIDE DEF pos
      <3> QED BY <1>2, <1>10, <1>11, <3>1, PlacesPass
    <2>3. Retired(new, e.stage, e.eob, hidx + 1)
      BY <1>9, <1>12, <2>1 DEF Retired
    <2>4. pos = e.out_pos + (IF hd.stage = "bytes" THEN hidx + 1 ELSE 0)
      BY <1>1, <1>2, <1>9
    <2>5. PlacesOK(new, hidx + 1, pos) /\ OutOK(new, pos, hout') /\ TokensOK(new, pos, tokens', hout')
      BY <1>10, <1>13, <2>1, <2>2
    <2> HIDE DEF pos
    <2> QED BY <1>1, <1>2, <1>9, <1>13, <2>3, <2>4, <2>5, AdvanceOut DEF new, lane
  <1>14. ASSUME eob > hidx, NEW n \in Nat
         PROVE  /\ Past(n) \in Drivers /\ Past(n).stage = "symbols" /\ Past(n).out_pos = pos + n
                /\ Past(n).eob = NumStreams
    <2>1. pos + n \in Nat /\ eob = NumStreams
      BY <1>2, <1>8, <1>14
    <2> QED BY <1>9, <2>1 DEF Drivers
  <1>15. \A cs : Retired(cs, "symbols", NumStreams, hidx + 1)
    <2>1. \A l \in Lane : ~(NumStreams <= l)
      BY <1>2 DEF Lane
    <2> QED BY <2>1 DEF Retired
  <1>16. ASSUME eob > hidx, NEW n \in Nat, NEW ln \in LaneStates, ln.words = lane.words,
                Host!Advance(ln, Past(n)),
                NEW new, new = [HostCopies EXCEPT ![hidx] = ln.copy],
                PlacesOK(new, hidx + 1, pos + n), OutOK(new, pos + n, hout'),
                TokensOK(new, pos + n, tokens', hout')
         PROVE  HostOut'
    <2> DEFINE f == Past(n)
               c == pos + n
    <2>1. f \in Drivers /\ f.stage = hd.stage /\ f.out_pos = c /\ f.eob = NumStreams /\ c \in Nat
      BY <1>1, <1>2, <1>14, <1>16
    <2>2. c = f.out_pos + (IF hd.stage = "bytes" THEN hidx + 1 ELSE 0)
      BY <1>1, <2>1
    <2>3. Retired(new, f.stage, f.eob, hidx + 1)
      BY <1>1, <1>15, <2>1
    <2>4. /\ Host!Advance(ln, f) /\ PlacesOK(new, hidx + 1, c) /\ OutOK(new, c, hout')
          /\ TokensOK(new, c, tokens', hout')
      BY <1>16
    <2> HIDE DEF f, c
    <2> QED BY <1>1, <1>16, <2>1, <2>2, <2>3, <2>4, AdvanceOut DEF lane
  <1> HIDE DEF Past
  <1>17. CASE /\ eob > hidx /\ hout' = Host!Write(hout, [p \in {pos} |-> byte])
              /\ tokens' = Append(tokens, [pos |-> pos, len |-> 1, dist |-> 0, byte |-> byte])
              /\ Host!Advance(taken, Past(1))
    <2> DEFINE t == [pos |-> pos, len |-> 1, dist |-> 0, byte |-> byte]
               new == [HostCopies EXCEPT ![hidx] = taken.copy]
    <2>1. byte \in FreshBytes /\ byte # Unwritten
      BY <1>2, <1>10, FreshByte DEF lane
    <2>2. hout' = Write(hout, [p \in {pos} |-> byte]) /\ tokens' = Append(tokens, t)
      BY <1>17 DEF Write, Host!Write
    <2> HIDE DEF byte, pos
    <2>3. /\ PlacesOK(HostCopies, hidx + 1, pos + 1) /\ OutOK(HostCopies, pos + 1, hout')
          /\ TokensOK(HostCopies, pos + 1, tokens', hout')
      BY <1>2, <1>10, <1>11, <2>1, <2>2, ByteClaimed
    <2>4. new = HostCopies
      BY <1>2, <1>7, <1>11
    <2> QED BY <1>7, <1>16, <1>17, <2>3, <2>4
  <1>18. CASE /\ eob > hidx /\ sym.kind = "length"
              /\ tokens' = Append(tokens, [pos |-> pos, len |-> sym.value, dist |-> -1, byte |-> <<>>])
              /\ hout' = hout /\ Host!Advance(held, Past(sym.value))
    <2> DEFINE t == [pos |-> pos, len |-> sym.value, dist |-> -1, byte |-> <<>>]
               new == [HostCopies EXCEPT ![hidx] = held.copy]
    <2>1. sym.value \in Nat /\ sym.value > 0
      BY <1>4, <1>18
    <2>2. held \in LaneStates /\ held.words = lane.words /\ held.copy = claim
      <3>1. claim \in Copies
        BY <1>2, <2>1 DEF Copies
      <3> HIDE DEF claim
      <3> QED BY <1>7, <3>1 DEF LaneStates
    <2> HIDE DEF held
    <2>3. new[hidx] = claim /\ claim \in Copies
      BY <1>2, <1>11, <2>1, <2>2 DEF Copies
    <2>4. new \in [Lane -> Copies] /\ \A l \in Lane \ {hidx} : new[l] = HostCopies[l]
      <3> HIDE DEF claim
      <3> QED BY <1>2, <1>11, <2>2, <2>3
    <2> HIDE DEF new
    <2>5. new[hidx] = [pending |-> TRUE, length |-> sym.value, out_pos |-> pos]
          /\ tokens' = Append(tokens, t)
      BY <1>18, <2>3
    <2> HIDE DEF pos, claim
    <2>6. /\ PlacesOK(new, hidx + 1, pos + sym.value) /\ OutOK(new, pos + sym.value, hout)
          /\ TokensOK(new, pos + sym.value, tokens', hout)
      BY <1>2, <1>10, <1>11, <2>1, <2>4, <2>5, MatchClaimed
    <2>7. new = [HostCopies EXCEPT ![hidx] = held.copy]
      BY DEF new
    <2> QED BY <1>16, <1>18, <2>1, <2>2, <2>6, <2>7
  <1>19. CASE \E why : Host!RefusedStep(why)
    BY <1>19, RefusedOut DEF Host!RefusedStep
  <1>20. CASE eob < hidx /\ Host!Advance(lane, e) /\ hout' = hout /\ tokens' = tokens
    BY <1>2, <1>13, <1>20
  <1>21. CASE eob = hidx /\ Host!Advance(taken, e) /\ hout' = hout /\ tokens' = tokens
    BY <1>7, <1>13, <1>21
  <1> QED BY <1>6, <1>17, <1>18, <1>19, <1>20, <1>21

LEMMA OutKept == ASSUME HostOut, UNCHANGED hostVars PROVE HostOut'
  <1>1. HostCopies' = HostCopies /\ Claimed' = Claimed /\ (FirstWords <=> FirstWords')
    BY DEF hostVars, HostCopies, Claimed, FirstWords
  <1>2. hd' = hd /\ hidx' = hidx /\ hout' = hout /\ tokens' = tokens
    BY DEF hostVars
  <1> QED BY <1>1, <1>2 DEF HostOut

LEMMA OutStep == ASSUME HostInv, HostOut, [Next]_vars PROVE HostOut'
  <1>1. CASE HostRound
    BY <1>1, HeaderOut, StoredLengthOut, StoredByteOut, RetireCopyOut, SymbolOut, DrainIdleOut
       DEF HostRound, Host!Step
  <1>2. CASE WarpRound
    BY <1>2, OutKept DEF WarpRound
  <1>3. CASE UNCHANGED vars
    BY <1>3, OutKept DEF vars
  <1> QED BY <1>1, <1>2, <1>3 DEF Next, Done

\* A page decoded to the end is its literals, stored bytes and matches expanded one after
\* the other: each match reads bytes that were written before it was retired, overlap
\* included, although it was retired a round after it claimed its place and literals of
\* later lanes were written meanwhile (GDeflateDecodePageRounds, GDeflateCopyMatch).
THEOREM OutputIsExpansionHolds == Spec => []OutputIsExpansion
  <1>1. HostInv /\ HostOut => OutputIsExpansion
    <2> SUFFICES ASSUME HostInv, HostOut, hd.stage = "ok"
                 PROVE  /\ \A i \in DOMAIN tokens :
                             /\ tokens[i].pos = IF i = 1 THEN 0 ELSE tokens[i - 1].pos + tokens[i - 1].len
                             /\ tokens[i].dist = 0 => hout[tokens[i].pos] = tokens[i].byte
                             /\ tokens[i].dist # 0 => \A n \in 0 .. tokens[i].len - 1 :
                                  hout[tokens[i].pos + n]
                                    = Host!ByteIn(hout, tokens[i].pos + n - tokens[i].dist)
                        /\ Unwritten \notin {hout[p] : p \in DOMAIN hout}
                        /\ tokens # <<>> =>
                             hd.out_pos = tokens[Len(tokens)].pos + tokens[Len(tokens)].len
      BY DEF OutputIsExpansion, Host!OutputIsExpansion, Unwritten, Host!Unwritten, NoLane, Host!NoLane
    <2>1. /\ OutOK(HostCopies, Claimed, hout) /\ TokensOK(HostCopies, Claimed, tokens, hout)
          /\ \A l \in Lane : ~HostCopies[l].pending
      BY DEF HostOut, Retired
    <2>2. Claimed = hd.out_pos
      BY DEF Claimed, HostInv, HostTyped, Drivers
    <2>3. tokens \in Seq(Tokens) /\ DOMAIN tokens = 1 .. Len(tokens)
      BY <2>1 DEF TokensOK
    <2>4. ASSUME NEW i \in 1 .. Len(tokens)
          PROVE  /\ tokens[i].pos = IF i = 1 THEN 0 ELSE tokens[i - 1].pos + tokens[i - 1].len
                 /\ tokens[i].dist = 0 => hout[tokens[i].pos] = tokens[i].byte
                 /\ tokens[i].dist # 0 => \A n \in 0 .. tokens[i].len - 1 :
                      hout[tokens[i].pos + n]
                        = Host!ByteIn(hout, tokens[i].pos + n - tokens[i].dist)
      <3>1. TokenOK(HostCopies, tokens[i], hout)
        BY <2>1 DEF TokensOK
      <3>2. tokens[i].dist \in Int
        <4>1. tokens[i] \in Tokens
          BY <2>3
        <4> QED BY <4>1 DEF Tokens
      <3>3. ~(tokens[i].dist < 0)
        BY <2>1, <3>1 DEF TokenOK
      <3>4. tokens[i].dist # 0 => tokens[i].dist > 0
        BY <3>2, <3>3
      <3>5. tokens[i].dist # 0 => Matched(tokens[i], hout)
        BY <3>1, <3>4 DEF TokenOK
      <3>6. tokens[i].dist = 0 => hout[tokens[i].pos] = tokens[i].byte
        BY <3>1 DEF TokenOK
      <3>7. tokens[i].pos = IF i = 1 THEN 0 ELSE tokens[i - 1].pos + tokens[i - 1].len
        BY <2>1 DEF TokensOK
      <3>8. tokens[i].dist # 0 => \A n \in 0 .. tokens[i].len - 1 :
              hout[tokens[i].pos + n] = Host!ByteIn(hout, tokens[i].pos + n - tokens[i].dist)
        BY <3>5 DEF Matched, Host!ByteIn
      <3> QED BY <3>6, <3>7, <3>8
    <2>5. Unwritten \notin {hout[p] : p \in DOMAIN hout}
      BY <2>1 DEF OutOK
    <2>6. tokens # <<>> => hd.out_pos = tokens[Len(tokens)].pos + tokens[Len(tokens)].len
      BY <2>1, <2>2 DEF TokensOK
    <2> QED BY <2>3, <2>4, <2>5, <2>6
  <1> QED BY <1>1, HostStarts, HostStep, OutStarts, OutStep, PTL DEF Spec

-----------------------------------------------------------------------------
(* A round of the warp beside the round of the sequential team. While the team    *)
(* decodes a round, r is where the warp stands, at the start of it; x is what a    *)
(* lane resolves of the round, and s the steps of the lanes.                      *)

Modes == {"idle", "byte", "copy", "literal", "end", "reserve"}
Round == [d |-> wd, lanes |-> wlanes, cursor |-> wcursor, out |-> wout]
Team == [page |-> page, lanes |-> hlanes, cursor |-> hcursor, out |-> hout]

Turns(r) == 0 .. RoundLanes(r.d) - 1
Owes(r, l) == l \in Turns(r) /\ r.lanes[l].copy.pending
KeyOf(r, l) == Bits(r.lanes[l], IF Owes(r, l) THEN "dist" ELSE "litlen")
Reader(r, l) ==
  /\ l \in Turns(r) /\ r.d.stage \in {"symbols", "drain"}
  /\ r.d.stage = "drain" => Owes(r, l)
ModeIn(r, l, sym, rung, eob) ==
  CASE r.d.stage = "bytes" -> IF l \in Turns(r) THEN "byte" ELSE "idle"
    [] r.d.stage # "bytes" /\ Owes(r, l) -> "copy"
    [] r.d.stage = "drain" /\ ~Owes(r, l) -> "idle"
    [] r.d.stage = "symbols" /\ ~Owes(r, l) ->
         CASE l > eob -> "idle"
           [] l = eob -> "end"
           [] l < eob -> IF rung # "None" \/ sym.kind = "literal" THEN "literal" ELSE "reserve"

NoSym == [kind |-> "bad", width |-> 0, value |-> 0]
Resolved(q, r, l, x, eob) ==
  /\ x = [mode |-> x.mode, sym |-> x.sym, rung |-> x.rung, pos |-> x.pos]
  /\ Reader(r, l) => /\ KeyOf(r, l) \in DOMAIN q /\ x.sym = q[KeyOf(r, l)]
                     /\ x.rung = StepWhy(r.lanes[l], x.sym)
  /\ ~Reader(r, l) => x.sym = NoSym /\ x.rung = "None"
  /\ x.mode = ModeIn(r, l, x.sym, x.rung, eob)
IsEnd(r, l, x) == Reader(r, l) /\ ~Owes(r, l) /\ x.rung = "None" /\ x.sym.kind = "end"
\* eob is the first of the lanes below i that met the end of the block.
EndAt(r, s, i, eob) ==
  /\ eob \in 0 .. NumStreams
  /\ \A l \in 0 .. i - 1 : IsEnd(r, l, s[l]) => eob <= l
  /\ eob # NoLane => eob \in 0 .. i - 1 /\ IsEnd(r, eob, s[eob])
Claim(x) == CASE x.mode = "literal" -> 1
              [] x.mode = "reserve" /\ x.rung = "None" -> x.sym.value
              [] OTHER -> 0
PosAt(r, s, i) == IF i = 0 THEN r.d.out_pos ELSE s[i - 1].pos + Claim(s[i - 1])

\* What a lane refuses on, and otherwise is, writes and puts in place.
WhyOf(r, l, x) ==
  CASE x.mode = "idle" -> "None"
    [] x.mode = "byte" -> PopRefuses(r.lanes[l], ByteBits)
    [] x.mode \notin {"idle", "byte"} /\ x.rung # "None" -> x.rung
    [] x.mode = "copy" /\ x.rung = "None" ->
         IF x.sym.value > r.lanes[l].copy.out_pos THEN "MatchBeforeOutput" ELSE "None"
    [] x.mode = "literal" /\ x.rung = "None" ->
         IF LiteralFits(x.pos) THEN "None" ELSE "LiteralPastCap"
    [] x.mode = "reserve" /\ x.rung = "None" ->
         IF ReserveFits(x.pos, x.sym.value) THEN "None" ELSE "MatchPastCap"
    [] x.mode = "end" /\ x.rung = "None" -> "None"
WidthOf(x) == CASE x.mode = "idle" -> 0
                [] x.mode = "byte" -> ByteBits
                [] OTHER -> x.sym.width
CopyOf(r, l, x) ==
  CASE x.mode = "copy" -> [r.lanes[l].copy EXCEPT !.pending = FALSE]
    [] x.mode = "reserve" -> [pending |-> TRUE, length |-> x.sym.value, out_pos |-> x.pos]
    [] OTHER -> r.lanes[l].copy
LaneOf(r, l, x) == [Remove(r.lanes[l], WidthOf(x)) EXCEPT !.copy = CopyOf(r, l, x)]
WrittenOf(r, l, x) == CASE x.mode = "literal" -> {x.pos}
                        [] x.mode = "byte" -> {r.d.out_pos + l}
                        [] OTHER -> {}
CopiedOf(r, l, x) == IF x.mode = "copy" THEN CopyRange(r.lanes[l].copy) ELSE {}
Lanes(r, s) == [l \in Lane |-> LaneOf(r, l, s[l])]

\* What the team's output says of it.
Source(c, dist, p) == c.out_pos - dist + ((p - c.out_pos) % dist)
Gathered(out, c, dist) ==
  \A p \in CopyRange(c) : /\ p \in DOMAIN out /\ Source(c, dist, p) \in DOMAIN out
                          /\ out[p] = out[Source(c, dist, p)]
Wrote(r, l, x, out) ==
  \A p \in WrittenOf(r, l, x) : p \in DOMAIN out /\ out[p] = ByteAt(r.lanes[l])
Copied(r, l, x, out) == x.mode = "copy" => Gathered(out, r.lanes[l].copy, x.sym.value)
Under(low, high) == \A p \in DOMAIN low : p \in DOMAIN high /\ high[p] = low[p]

\* The words dealt to the first n lanes, from the cursor c.
Takers(ls, n) == {l \in 0 .. n - 1 : NeedsRefill(ls[l])}
Dealt(x, c) == IF NeedsRefill(x) THEN RefillLane(x, c) ELSE x
DealtTo(ls, n, c, rest) ==
  [l \in Lane |-> IF l < n THEN Dealt(ls[l], c + Rank(Takers(ls, n), l)) ELSE rest[l]]

\* The team has stepped the first i lanes of the round, and come to the driver e.
ComeTo(r, s, i, eob) ==
  IF r.d.stage = "symbols" THEN [r.d EXCEPT !.eob = eob, !.out_pos = PosAt(r, s, i)] ELSE r.d
SoFar(r, h, s, i, e) ==
  /\ \A l \in 0 .. i - 1 :
       /\ Resolved(h.page, r, l, s[l], e.eob) /\ s[l].pos = PosAt(r, s, l)
       /\ WhyOf(r, l, s[l]) = "None" /\ Wrote(r, l, s[l], h.out) /\ Copied(r, l, s[l], h.out)
  /\ e = ComeTo(r, s, i, e.eob)
  /\ r.d.stage = "symbols" => EndAt(r, s, i, e.eob)
  /\ h.lanes = DealtTo(Lanes(r, s), i, r.cursor, r.lanes)
  /\ h.cursor = r.cursor + Cardinality(Takers(Lanes(r, s), i))
  /\ Under(r.out, h.out)
  /\ \A p \in DOMAIN h.out : \/ p \in DOMAIN r.out
                             \/ \E l \in 0 .. i - 1 : p \in WrittenOf(r, l, s[l]) \cup CopiedOf(r, l, s[l])

\* The whole round, or the lane that refused it.
RoundDone(r, h, s, e, d, why) ==
  /\ SoFar(r, h, s, RoundLanes(r.d), e) /\ d = AfterRound(e)
  /\ why = RefuseAs("None", AfterRoundWhy(e))
StopsAt(ls, i, c, laneWhy, why) ==
  /\ c + Cardinality(Takers(ls, i)) <= WordCount
  /\ \/ why # "None" /\ laneWhy = why
     \/ /\ laneWhy = "None" /\ NeedsRefill(ls[i]) /\ why = "RefillPastEnd"
        /\ c + Cardinality(Takers(ls, i)) >= WordCount
StoppedAt(r, h, s, i, eob, d, why) ==
  /\ i \in Lane /\ i < RoundLanes(r.d) /\ d.stage = "refused"
  /\ \A l \in 0 .. i : Resolved(h.page, r, l, s[l], eob) /\ s[l].pos = PosAt(r, s, l)
  /\ r.d.stage = "symbols" => EndAt(r, s, i + 1, eob)
  /\ \A l \in 0 .. i - 1 : WhyOf(r, l, s[l]) = "None"
  /\ StopsAt(Lanes(r, s), i, r.cursor, WhyOf(r, i, s[i]), why)

\* A header or a stored length the team has read.
HeaderDone(r, h, d, why) ==
  LET lane == r.lanes[0]
      popped == Remove(lane, HeaderBits)
      short == PopRefuses(lane, HeaderBits)
      rung == IF short = "None" /\ NeedsRefill(popped) /\ r.cursor >= WordCount
              THEN "RefillPastEnd" ELSE short
      header == h.page[Bits(lane, "header")]
  IN /\ Bits(lane, "header") \in DOMAIN h.page /\ h.out = r.out
     /\ \/ rung # "None" /\ d.stage = "refused" /\ why = rung
        \/ /\ rung = "None" /\ h.lanes = [r.lanes EXCEPT ![0] = Dealt(popped, r.cursor)]
           /\ h.cursor = IF NeedsRefill(popped) THEN r.cursor + 1 ELSE r.cursor
           /\ d = AfterHeader([r.d EXCEPT !.blocks = @ + 1], header)
           /\ why = RefuseAs("None", AfterHeaderWhy(header))
LengthDone(r, h, d, why) ==
  LET lane == r.lanes[0]
      short == PopRefuses(lane, LenBits)
      len == h.page[Bits(lane, "length")]
      rung == StoredWhy(r.d, len, Reachable(r.cursor, BufferedBits(r.lanes)))
  IN /\ Bits(lane, "length") \in DOMAIN h.page /\ h.out = r.out
     /\ \/ short # "None" /\ d.stage = "refused" /\ why = short
        \/ short = "None" /\ rung # "None" /\ d.stage = "refused" /\ why = rung
        \/ /\ short = "None" /\ rung = "None" /\ h.cursor = r.cursor
           /\ h.lanes = [r.lanes EXCEPT ![0] = Remove(lane, LenBits)]
           /\ d = AfterLength(r.d, len)
           /\ why = IF len = 0 THEN RefuseAs("None", NextBlockWhy(r.d)) ELSE "None"

-----------------------------------------------------------------------------
(* The warp in its round. *)

InTodo(l) == phase = "commit" /\ l \in todo
LaneNow(l) == IF InTodo(l) THEN LaneOf(Round, l, step[l]) ELSE wlanes[l]
LanesNow == [l \in Lane |-> LaneNow(l)]
WhyNow(l) == IF InTodo(l) THEN WhyOf(Round, l, step[l]) ELSE wwhy[l]
Waits(l) == step[l].mode = "copy" /\ (phase = "commit" \/ l \in todo)
StillPuts(l) == (IF InTodo(l) THEN WrittenOf(Round, l, step[l]) ELSE {})
                  \cup (IF Waits(l) THEN CopyRange(wlanes[l].copy) ELSE {})

RoundAgrees ==
  /\ \A l \in Lane : WhyNow(l) = "None"
  /\ hlanes = DealtTo(LanesNow, RoundLanes(wd), wcursor, LanesNow)
  /\ hcursor = wcursor + Cardinality(Takers(LanesNow, RoundLanes(wd)))
  /\ hd = AfterRound(wd) /\ hwhy = RefuseAs("None", AfterRoundWhy(wd))
  /\ Under(wout, hout)
  /\ \A p \in DOMAIN hout : p \in DOMAIN wout \/ \E l \in Lane : p \in StillPuts(l)
  /\ \A l \in Lane : /\ InTodo(l) => Wrote(Round, l, step[l], hout)
                     /\ Copied(Round, l, step[l], hout)
StopAgrees(i) ==
  /\ i < RoundLanes(wd) /\ hd.stage = "refused"
  /\ \A l \in 0 .. i - 1 : WhyNow(l) = "None"
  /\ StopsAt(LanesNow, i, wcursor, WhyNow(i), hwhy)

WarpCopies == [l \in Lane |-> wlanes[l].copy]
WarpRests ==
  /\ wd \in Drivers
  /\ wwhy = [l \in Lane |-> "None"]
  /\ PlacesOK(WarpCopies, 0, wd.out_pos) /\ OutOK(WarpCopies, wd.out_pos, wout)
  /\ Retired(WarpCopies, wd.stage, wd.eob, 0)
  /\ wd.out_pos <= Cap
  /\ wd.stage = "bytes" => wd.done < wd.len /\ wd.out_pos + wd.len <= Cap + wd.done
  /\ wd.stage = "symbols" => wd.eob = NoLane
  /\ wd.stage = "drain" => wd.eob \in 1 .. NumStreams - 1

IsFcn(f) == f = [p \in DOMAIN f |-> f[p]]
WarpTyped ==
  /\ wd.stage # "refused" =>
       /\ wlanes \in [Lane -> LaneStates] /\ wcursor \in Nat /\ wwhy = [l \in Lane |-> wwhy[l]]
       /\ \A l \in Lane : wlanes[l].words # <<>> /\ wlanes[l].words[1] = l
  /\ IsFcn(wout) /\ IsFcn(hout)
WarpBounded ==
  /\ DOMAIN wout \subseteq 0 .. Cap - 1
  /\ \A l \in Lane : wlanes[l].copy.pending => wlanes[l].copy.out_pos + wlanes[l].copy.length <= Cap

\* What lane l resolved, and the reservation it holds.
StepOK(l) ==
  LET t == step[l]
      c == wlanes[l].copy
  IN
  /\ t.mode \in Modes /\ t.pos \in Nat /\ t.sym.width \in Nat
  /\ t.mode = "copy" => t.sym.value \in Nat \ {0}
  /\ t.mode = "reserve" => t.rung = "None" /\ t.sym.value \in Nat \ {0}
  /\ t.mode = "end" => t.rung = "None"
  /\ t.mode = "byte" => wd.stage = "bytes" /\ wd.out_pos + l < Cap
  /\ InTodo(l) => (t.mode = "copy" <=> c.pending)
  /\ t.rung = "None" /\ InTodo(l) /\ t.mode \notin {"idle", "byte"} => t.sym.width <= wlanes[l].left
  /\ t.mode = "copy" => c.length > 0 /\ c.out_pos + c.length <= step[0].pos
                        /\ c.out_pos + c.length <= Cap
CopiesInOrder ==
  \A l, k \in Lane : l < k /\ step[l].mode = "copy" /\ step[k].mode = "copy" =>
                       wlanes[l].copy.out_pos + wlanes[l].copy.length <= wlanes[k].copy.out_pos
\* While no lane has refused, what is below the round is written or waits to be copied.
NoHole ==
  /\ \A p \in DOMAIN wout : wout[p] # Unwritten
  /\ \A l \in Lane : ~InTodo(l) /\ step[l].mode = "copy" =>
                       step[l].sym.value <= wlanes[l].copy.out_pos
  /\ \A p \in 0 .. step[0].pos - 1 :
       p \in DOMAIN wout \/ \E l \in Lane : Waits(l) /\ p \in CopyRange(wlanes[l].copy)
WarpSteps ==
  /\ wd \in Drivers /\ wd.stage \in {"bytes", "symbols", "drain"} /\ todo \subseteq Lane
  /\ RoundLanes(wd) \in 1 .. NumStreams
  /\ \A l \in Lane : StepOK(l) /\ (InTodo(l) => wwhy[l] = "None")
  /\ CopiesInOrder
  /\ phase = "copy" => \A l \in todo : step[l].mode = "copy" /\ wwhy[l] = "None"
  /\ ~Refuses(wwhy) => NoHole

Agree ==
  /\ wd.stage = hd.stage /\ wwhy[0] = hwhy
  /\ hd.stage # "refused" =>
       wd = hd /\ wlanes = hlanes /\ wcursor = hcursor /\ wout = hout
Between == hidx = 0 \/ Ended(hd)
Told == 
  \/ wd.stage = "header" /\ HeaderDone(Round, Team, hd, hwhy)
  \/ wd.stage = "length" /\ LengthDone(Round, Team, hd, hwhy)
  \/ /\ wd.stage \in {"bytes", "symbols", "drain"}
     /\ \/ \E s, e : RoundDone(Round, Team, s, e, hd, hwhy)
        \/ \E s, i, eob : StoppedAt(Round, Team, s, i, eob, hd, hwhy)

TeamsInv ==
  /\ turn \in {"host", "warp"} /\ phase \in {"between", "commit", "copy"}
  /\ WarpTyped /\ WarpBounded
  /\ phase = "between" => IF wd.stage = "refused" THEN \A l \in Lane : wwhy[l] # "None" ELSE WarpRests
  /\ phase # "between" => turn = "warp" /\ WarpSteps /\ (RoundAgrees \/ \E i \in Lane : StopAgrees(i))
  /\ turn = "host" => /\ phase = "between"
                      /\ IF Between THEN Agree
                         ELSE /\ hwhy = "None" /\ wd.stage \in {"bytes", "symbols", "drain"}
                              /\ \E s : SoFar(Round, Team, s, hidx, hd)
  /\ turn = "warp" => Between
  /\ turn = "warp" /\ phase = "between" => Told

-----------------------------------------------------------------------------
(* The ballot of takers. *)

LEMMA TakersCount ==
  ASSUME NEW ls, NEW n \in Nat
  PROVE  IsFiniteSet(Takers(ls, n)) /\ Cardinality(Takers(ls, n)) \in Nat
  <1>1. IsFiniteSet(0 .. n - 1)
    BY FS_Interval
  <1>2. Takers(ls, n) \subseteq 0 .. n - 1
    BY DEF Takers
  <1> QED BY <1>1, <1>2, FS_Subset, FS_CardinalityType

LEMMA TakersNext ==
  ASSUME NEW ls, NEW i \in Nat
  PROVE  /\ NeedsRefill(ls[i]) => Cardinality(Takers(ls, i + 1)) = Cardinality(Takers(ls, i)) + 1
         /\ ~NeedsRefill(ls[i]) => Cardinality(Takers(ls, i + 1)) = Cardinality(Takers(ls, i))
  <1>1. 0 .. (i + 1) - 1 = (0 .. i - 1) \cup {i} /\ i \notin 0 .. i - 1
    OBVIOUS
  <1>2. NeedsRefill(ls[i]) => Takers(ls, i + 1) = Takers(ls, i) \cup {i}
    BY <1>1 DEF Takers
  <1>3. ~NeedsRefill(ls[i]) => Takers(ls, i + 1) = Takers(ls, i)
    BY <1>1 DEF Takers
  <1>4. IsFiniteSet(Takers(ls, i)) /\ i \notin Takers(ls, i)
    BY <1>1, TakersCount DEF Takers
  <1>5. Cardinality(Takers(ls, i) \cup {i}) = Cardinality(Takers(ls, i)) + 1
    BY <1>4, FS_AddElement
  <1> QED BY <1>2, <1>3, <1>5

\* A lane's rank among the takers is how many of the lanes below it take.
LEMMA RankIs ==
  ASSUME NEW ls, NEW n \in Nat, NEW l \in 0 .. n - 1
  PROVE  Rank(Takers(ls, n), l) = Cardinality(Takers(ls, l))
  <1>1. {k \in Takers(ls, n) : k < l} = Takers(ls, l)
    BY DEF Takers
  <1> QED BY <1>1 DEF Rank

LEMMA TakersGrow ==
  ASSUME NEW ls, NEW n \in Nat, NEW l \in Nat, l <= n
  PROVE  Cardinality(Takers(ls, l)) <= Cardinality(Takers(ls, n))
  <1>1. Takers(ls, l) \subseteq Takers(ls, n)
    BY DEF Takers
  <1> QED BY <1>1, TakersCount, FS_Subset

LEMMA TakersSame ==
  ASSUME NEW ls, NEW ks, NEW n, \A l \in 0 .. n - 1 : ls[l] = ks[l]
  PROVE  Takers(ls, n) = Takers(ks, n)
  BY DEF Takers

\* A taker's word lies below the cursor its round ends at.
LEMMA TakerBelow ==
  ASSUME NEW ls, NEW n \in Nat, NEW l \in 0 .. n - 1, NeedsRefill(ls[l])
  PROVE  Cardinality(Takers(ls, l)) + 1 <= Cardinality(Takers(ls, n))
  <1>1. l \in Nat /\ l + 1 \in Nat /\ l + 1 <= n
    OBVIOUS
  <1> QED BY <1>1, TakersNext, TakersGrow

\* The words of a round, dealt lane by lane.
LEMMA DealtIs ==
  ASSUME NEW ls, NEW n \in Nat, NEW c \in Nat, NEW rest, NEW l \in Lane
  PROVE  DealtTo(ls, n, c, rest)[l]
           = IF l < n THEN Dealt(ls[l], c + Cardinality(Takers(ls, l))) ELSE rest[l]
  <1>1. l < n => l \in 0 .. n - 1
    BY DEF Lane
  <1> QED BY <1>1, RankIs DEF DealtTo

-----------------------------------------------------------------------------
(* One more lane of the round. *)

\* Bits read stay read, and a lane below the end of the block does not see where it is.
LEMMA ResolvedKept ==
  ASSUME NEW p, NEW q, \A k \in DOMAIN p : k \in DOMAIN q /\ q[k] = p[k],
         NEW r, NEW l \in Int, NEW x, NEW f \in Int, NEW g \in Int, Resolved(p, r, l, x, f),
         f = g \/ (l < f /\ l < g)
  PROVE  Resolved(q, r, l, x, g)
  <1>1. ModeIn(r, l, x.sym, x.rung, g) = ModeIn(r, l, x.sym, x.rung, f)
    BY DEF ModeIn
  <1> QED BY <1>1 DEF Resolved

\* Lane i resolves x, of the page q; eob is the first end of the block so far, and t the
\* steps with it.
NextLane(r, h, s, i, e, q, eob, x, t) ==
  /\ i \in Lane /\ SoFar(r, h, s, i, e)
  /\ \A k \in DOMAIN h.page : k \in DOMAIN q /\ q[k] = h.page[k]
  /\ eob \in 0 .. NumStreams /\ e.eob \in 0 .. NumStreams
  /\ Resolved(q, r, i, x, eob) /\ x.pos = PosAt(r, s, i)
  /\ eob = IF r.d.stage = "symbols" /\ e.eob = NoLane /\ IsEnd(r, i, x) THEN i ELSE e.eob
  /\ t = [l \in Lane |-> IF l = i THEN x ELSE s[l]]
Grown(r, s, i, q, eob, x, t) ==
  /\ \A l \in 0 .. i - 1 : t[l] = s[l]
  /\ t[i] = x /\ PosAt(r, t, i) = PosAt(r, s, i)
  /\ \A l \in 0 .. i : Resolved(q, r, l, t[l], eob) /\ t[l].pos = PosAt(r, t, l)
  /\ \A l \in 0 .. i - 1 : WhyOf(r, l, t[l]) = "None"
  /\ r.d.stage = "symbols" => EndAt(r, t, i + 1, eob)

LEMMA Extended ==
  ASSUME NEW r, NEW h, NEW s, NEW i, NEW e, NEW q, NEW eob, NEW x, NEW t,
         NextLane(r, h, s, i, e, q, eob, x, t)
  PROVE  Grown(r, s, i, q, eob, x, t)
  <1>0. /\ i \in Lane /\ SoFar(r, h, s, i, e)
        /\ \A k \in DOMAIN h.page : k \in DOMAIN q /\ q[k] = h.page[k]
        /\ eob \in 0 .. NumStreams /\ e.eob \in 0 .. NumStreams
        /\ Resolved(q, r, i, x, eob) /\ x.pos = PosAt(r, s, i)
        /\ eob = IF r.d.stage = "symbols" /\ e.eob = NoLane /\ IsEnd(r, i, x) THEN i ELSE e.eob
        /\ t = [l \in Lane |-> IF l = i THEN x ELSE s[l]]
    BY Zenon DEF NextLane
  <1>1. i \in Nat /\ i < NumStreams /\ NumStreams \in Nat /\ NoLane = NumStreams
    BY <1>0, LaneAssumption DEF Lane, NoLane
  <1>2. \A l \in 0 .. i - 1 : t[l] = s[l] /\ l \in Lane
    BY <1>0, <1>1 DEF Lane
  <1>3. t[i] = x
    BY <1>0
  <1>4. \A l \in 0 .. i : PosAt(r, t, l) = PosAt(r, s, l)
    <2>1. ASSUME NEW l \in 0 .. i, l # 0 PROVE t[l - 1] = s[l - 1]
      BY <1>0, <1>1, <1>2, <2>1
    <2> QED BY <1>0, <2>1 DEF PosAt
  <1>5. ASSUME NEW l \in 0 .. i
        PROVE  Resolved(q, r, l, t[l], eob) /\ t[l].pos = PosAt(r, t, l)
    <2>1. CASE l = i
      BY <1>0, <1>3, <1>4, <2>1
    <2>2. CASE l # i
      <3>1. l \in 0 .. i - 1
        BY <1>0, <1>1, <2>2
      <3>2. Resolved(h.page, r, l, s[l], e.eob) /\ s[l].pos = PosAt(r, s, l)
        BY <1>0, <3>1 DEF SoFar
      <3>3. e.eob = eob \/ (l < e.eob /\ l < eob)
        BY <1>0, <1>1, <3>1
      <3>4. Resolved(q, r, l, s[l], eob)
        <4>1. l \in Int /\ e.eob \in Int /\ eob \in Int
          BY <1>0, <1>1
        <4> QED BY <1>0, <3>2, <3>3, <4>1, ResolvedKept
      <3> QED BY <1>0, <1>2, <1>4, <3>1, <3>2, <3>4
    <2> QED BY <1>0, <2>1, <2>2
  <1>6. \A l \in 0 .. i - 1 : WhyOf(r, l, t[l]) = "None"
    BY <1>0, <1>2 DEF SoFar
  <1>7. ASSUME r.d.stage = "symbols" PROVE EndAt(r, t, i + 1, eob)
    <2>1. EndAt(r, s, i, e.eob)
      BY <1>0, <1>7 DEF SoFar
    <2>2. \A l \in 0 .. (i + 1) - 1 : l \in 0 .. i - 1 \/ l = i
      BY <1>0, <1>1
    <2>3. CASE e.eob = NoLane /\ IsEnd(r, i, x)
      <3>1. eob = i /\ IsEnd(r, eob, t[eob]) /\ eob \in 0 .. (i + 1) - 1
        BY <1>0, <1>1, <1>3, <1>7, <2>3
      <3>2. \A l \in 0 .. i - 1 : ~IsEnd(r, l, s[l])
        BY <1>0, <1>1, <2>1, <2>3 DEF EndAt
      <3>3. \A l \in 0 .. (i + 1) - 1 : IsEnd(r, l, t[l]) => eob <= l
        BY <1>0, <1>1, <1>2, <2>2, <3>1, <3>2
      <3> QED BY <1>0, <3>1, <3>3 DEF EndAt
    <2>4. CASE ~(e.eob = NoLane /\ IsEnd(r, i, x))
      <3>1. eob = e.eob
        BY <1>0, <2>4
      <3>2. \A l \in 0 .. (i + 1) - 1 : IsEnd(r, l, t[l]) => eob <= l
        <4>1. \A l \in 0 .. i - 1 : IsEnd(r, l, t[l]) => eob <= l
          BY <1>0, <1>2, <2>1, <3>1 DEF EndAt
        <4>2. IsEnd(r, i, t[i]) => eob <= i
          BY <1>0, <1>1, <1>3, <2>1, <2>4, <3>1 DEF EndAt
        <4> QED BY <1>0, <2>2, <4>1, <4>2
      <3>3. eob # NoLane => eob \in 0 .. (i + 1) - 1 /\ IsEnd(r, eob, t[eob])
        <4>1. eob # NoLane => eob \in 0 .. i - 1 /\ IsEnd(r, eob, s[eob])
          BY <1>0, <2>1, <3>1 DEF EndAt
        <4> QED BY <1>0, <1>1, <1>2, <4>1
      <3> QED BY <1>0, <3>2, <3>3 DEF EndAt
    <2> QED BY <1>0, <2>3, <2>4
  <1>8. PosAt(r, t, i) = PosAt(r, s, i)
    BY <1>0, <1>1, <1>4
  <1> QED BY Zenon, <1>2, <1>3, <1>5, <1>6, <1>7, <1>8 DEF Grown

LEMMA LanesSame ==
  ASSUME NEW r, NEW s, NEW t, NEW n \in Nat, n <= NumStreams, \A l \in 0 .. n - 1 : t[l] = s[l]
  PROVE  /\ \A l \in 0 .. n - 1 : Lanes(r, t)[l] = Lanes(r, s)[l]
         /\ \A l \in 0 .. n : Takers(Lanes(r, t), l) = Takers(Lanes(r, s), l)
  <1>1. \A l \in 0 .. n - 1 : l \in Lane
    BY LaneAssumption DEF Lane
  <1>2. \A l \in 0 .. n - 1 : Lanes(r, t)[l] = Lanes(r, s)[l]
    BY <1>1 DEF Lanes
  <1>3. ASSUME NEW l \in 0 .. n PROVE Takers(Lanes(r, t), l) = Takers(Lanes(r, s), l)
    <2>1. \A k \in 0 .. l - 1 : k \in 0 .. n - 1
      OBVIOUS
    <2> QED BY <1>2, <2>1, TakersSame
  <1> QED BY <1>2, <1>3

LEMMA UnderWrote ==
  ASSUME NEW out, NEW out2, Under(out, out2), NEW r, NEW l, NEW x,
         Wrote(r, l, x, out), Copied(r, l, x, out)
  PROVE  Wrote(r, l, x, out2) /\ Copied(r, l, x, out2)
  <1>1. Wrote(r, l, x, out2)
    BY DEF Under, Wrote
  <1>2. Copied(r, l, x, out2)
    BY DEF Under, Copied, Gathered
  <1> QED BY <1>1, <1>2

\* The step consumes the lane's bits, deals it a word and puts its bytes in the output.
Stepped(r, h, i, x, h2) ==
  /\ WhyOf(r, i, x) = "None" /\ Wrote(r, i, x, h2.out) /\ Copied(r, i, x, h2.out)
  /\ Under(h.out, h2.out)
  /\ \A p \in DOMAIN h2.out :
       p \in DOMAIN h.out \/ p \in WrittenOf(r, i, x) \cup CopiedOf(r, i, x)
  /\ h2.lanes = [h.lanes EXCEPT ![i] = Dealt(LaneOf(r, i, x), h.cursor)]
  /\ h2.cursor = IF NeedsRefill(LaneOf(r, i, x)) THEN h.cursor + 1 ELSE h.cursor

LEMMA DealtNext ==
  ASSUME NEW ls, NEW ks, NEW i \in Nat, i \in Lane, NEW c \in Nat, NEW rest, NEW cur, NEW new,
         \A l \in 0 .. i - 1 : ls[l] = ks[l], cur = c + Cardinality(Takers(ks, i)),
         NEW old, old = DealtTo(ks, i, c, rest), new = [old EXCEPT ![i] = Dealt(ls[i], cur)]
  PROVE  new = DealtTo(ls, i + 1, c, rest)
  <1>0. i + 1 \in Nat
    OBVIOUS
  <1>1. cur = c + Cardinality(Takers(ls, i))
    BY <1>0, TakersSame
  <1>2. ASSUME NEW l \in Lane PROVE new[l] = DealtTo(ls, i + 1, c, rest)[l]
    <2>0. l \in Nat
      BY DEF Lane
    <2>1. DealtTo(ls, i + 1, c, rest)[l]
            = IF l < i + 1 THEN Dealt(ls[l], c + Cardinality(Takers(ls, l))) ELSE rest[l]
      BY <1>0, DealtIs
    <2>2. old[l] = IF l < i THEN Dealt(ks[l], c + Cardinality(Takers(ks, l))) ELSE rest[l]
      <3>1. old[l] = IF l < i THEN Dealt(ks[l], c + Rank(Takers(ks, i), l)) ELSE rest[l]
        BY DEF DealtTo
      <3>2. l < i => l \in 0 .. i - 1
        BY <2>0
      <3>3. l < i => Rank(Takers(ks, i), l) = Cardinality(Takers(ks, l))
        BY <3>2, RankIs
      <3> QED BY <3>1, <3>3
    <2>3. DOMAIN old = Lane
      BY DEF DealtTo
    <2>4. new[l] = IF l = i THEN Dealt(ls[i], cur) ELSE old[l]
      BY <2>3
    <2>5. l < i => ls[l] = ks[l] /\ Takers(ls, l) = Takers(ks, l)
      <3>1. ASSUME l < i PROVE \A k \in 0 .. l - 1 : ls[k] = ks[k]
        BY <1>0, <2>0, <3>1
      <3>2. l < i => l \in 0 .. i - 1
        BY <1>0, <2>0
      <3> QED BY <3>1, <3>2, TakersSame
    <2>6. CASE l = i
      <3>1. l < i + 1
        BY <1>0, <2>6
      <3> QED BY <1>1, <2>1, <2>4, <2>6, <3>1
    <2>7. CASE l < i
      <3>1. l < i + 1 /\ l # i
        BY <1>0, <2>0, <2>7
      <3> QED BY <2>1, <2>2, <2>4, <2>5, <2>7, <3>1
    <2>8. CASE l > i
      <3>1. ~(l < i + 1) /\ ~(l < i) /\ l # i
        BY <1>0, <2>0, <2>8
      <3> QED BY <2>1, <2>2, <2>4, <3>1
    <2> QED BY <1>0, <2>0, <2>6, <2>7, <2>8
  <1> DEFINE f == DealtTo(ls, i + 1, c, rest)
  <1>3. f = [l \in Lane |-> f[l]]
    BY DEF DealtTo
  <1>4. new = [l \in Lane |-> new[l]]
    BY DEF DealtTo
  <1> HIDE DEF f
  <1> QED BY <1>2, <1>3, <1>4 DEF f

\* The lane's step, its word and what it put in the output make the round one longer.
LEMMA Advanced ==
  ASSUME NEW r, NEW h, NEW s, NEW i, NEW e, NEW h2, NEW eob, NEW x, NEW t,
         NextLane(r, h, s, i, e, h2.page, eob, x, t), r.cursor \in Nat, Stepped(r, h, i, x, h2),
         NEW e2, e2 = ComeTo(r, t, i + 1, eob), e2.eob = eob
  PROVE  SoFar(r, h2, t, i + 1, e2)
  <1>0. i \in Nat /\ i < NumStreams /\ NumStreams \in Nat /\ i + 1 \in Nat /\ i \in Lane
        /\ SoFar(r, h, s, i, e)
    <2>1. i \in Lane /\ SoFar(r, h, s, i, e)
      BY DEF NextLane
    <2> QED BY <2>1, LaneAssumption DEF Lane
  <1>a. /\ WhyOf(r, i, x) = "None" /\ Wrote(r, i, x, h2.out) /\ Copied(r, i, x, h2.out)
        /\ Under(h.out, h2.out)
        /\ \A p \in DOMAIN h2.out :
             p \in DOMAIN h.out \/ p \in WrittenOf(r, i, x) \cup CopiedOf(r, i, x)
        /\ h2.cursor = IF NeedsRefill(LaneOf(r, i, x)) THEN h.cursor + 1 ELSE h.cursor
    BY DEF Stepped
  <1>1. /\ \A l \in 0 .. i - 1 : t[l] = s[l]
        /\ t[i] = x /\ PosAt(r, t, i) = PosAt(r, s, i)
        /\ \A l \in 0 .. i : Resolved(h2.page, r, l, t[l], eob) /\ t[l].pos = PosAt(r, t, l)
        /\ \A l \in 0 .. i - 1 : WhyOf(r, l, t[l]) = "None"
        /\ r.d.stage = "symbols" => EndAt(r, t, i + 1, eob)
    <2>1. Grown(r, s, i, h2.page, eob, x, t)
      BY Extended
    <2> QED BY Zenon, <2>1 DEF Grown
  <1>2. \A l \in 0 .. (i + 1) - 1 : l \in 0 .. i /\ (l \in 0 .. i - 1 \/ l = i)
    BY <1>0
  <1>3. ASSUME NEW l \in 0 .. (i + 1) - 1
        PROVE  /\ Resolved(h2.page, r, l, t[l], e2.eob) /\ t[l].pos = PosAt(r, t, l)
               /\ WhyOf(r, l, t[l]) = "None"
               /\ Wrote(r, l, t[l], h2.out) /\ Copied(r, l, t[l], h2.out)
    <2>1. CASE l = i
      BY <1>a, <1>1, <1>2, <2>1
    <2>2. CASE l \in 0 .. i - 1
      <3>1. Wrote(r, l, s[l], h.out) /\ Copied(r, l, s[l], h.out)
        BY <1>0, <2>2 DEF SoFar
      <3>2. Wrote(r, l, s[l], h2.out) /\ Copied(r, l, s[l], h2.out)
        BY <1>a, <3>1, UnderWrote
      <3> QED BY <1>1, <1>2, <2>2, <3>2
    <2> QED BY <1>2, <2>1, <2>2
  <1>4. /\ \A l \in 0 .. i - 1 : Lanes(r, t)[l] = Lanes(r, s)[l]
        /\ \A l \in 0 .. i : Takers(Lanes(r, t), l) = Takers(Lanes(r, s), l)
    <2>1. i <= NumStreams
      BY <1>0
    <2> QED BY SMTT(20), <1>0, <1>1, <2>1, LanesSame
  <1>5. Lanes(r, t)[i] = LaneOf(r, i, x) /\ Takers(Lanes(r, t), i) = Takers(Lanes(r, s), i)
    BY <1>0, <1>1, <1>4 DEF Lanes
  <1>6. h.cursor = r.cursor + Cardinality(Takers(Lanes(r, t), i))
    BY <1>0, <1>5 DEF SoFar
  <1>7. h2.cursor = r.cursor + Cardinality(Takers(Lanes(r, t), i + 1))
    <2>1. Cardinality(Takers(Lanes(r, t), i)) \in Nat
      BY <1>0, TakersCount
    <2>2. CASE NeedsRefill(LaneOf(r, i, x))
      <3>1. Cardinality(Takers(Lanes(r, t), i + 1)) = Cardinality(Takers(Lanes(r, t), i)) + 1
        BY <1>0, <1>5, <2>2, TakersNext
      <3>2. h2.cursor = h.cursor + 1
        BY Zenon, <2>2 DEF Stepped
      <3> QED BY <1>6, <2>1, <3>1, <3>2
    <2>3. CASE ~NeedsRefill(LaneOf(r, i, x))
      <3>1. Cardinality(Takers(Lanes(r, t), i + 1)) = Cardinality(Takers(Lanes(r, t), i))
        BY <1>0, <1>5, <2>3, TakersNext
      <3>2. h2.cursor = h.cursor
        BY Zenon, <2>3 DEF Stepped
      <3> QED BY <1>6, <3>1, <3>2
    <2> QED BY <2>2, <2>3
  <1>8. h.lanes = DealtTo(Lanes(r, s), i, r.cursor, r.lanes)
    BY <1>0 DEF SoFar
  <1>10. h2.lanes = DealtTo(Lanes(r, t), i + 1, r.cursor, r.lanes)
    <2> DEFINE ls == Lanes(r, t)
               ks == Lanes(r, s)
    <2>1. h2.lanes = [h.lanes EXCEPT ![i] = Dealt(ls[i], h.cursor)]
      BY <1>5 DEF Stepped
    <2>2. h.cursor = r.cursor + Cardinality(Takers(ks, i))
      BY <1>0 DEF SoFar
    <2>3. \A l \in 0 .. i - 1 : ls[l] = ks[l]
      BY <1>4
    <2>4. i \in Nat /\ i \in Lane /\ r.cursor \in Nat
      BY <1>0
    <2>5. h.lanes = DealtTo(ks, i, r.cursor, r.lanes)
      BY <1>8
    <2> HIDE DEF ls, ks
    <2>6. h2.lanes = DealtTo(ls, i + 1, r.cursor, r.lanes)
      BY <2>1, <2>2, <2>3, <2>4, <2>5, DealtNext
    <2> QED BY <2>6 DEF ls
  <1>11. Under(r.out, h2.out)
    <2>1. Under(r.out, h.out)
      BY <1>0 DEF SoFar
    <2> QED BY <1>a, <2>1 DEF Under
  <1>12. ASSUME NEW p \in DOMAIN h2.out
         PROVE  \/ p \in DOMAIN r.out
                \/ \E l \in 0 .. (i + 1) - 1 : p \in WrittenOf(r, l, t[l]) \cup CopiedOf(r, l, t[l])
    <2>1. i \in 0 .. (i + 1) - 1 /\ \A l \in 0 .. i - 1 : l \in 0 .. (i + 1) - 1
      BY <1>0
    <2>2. CASE p \in WrittenOf(r, i, x) \cup CopiedOf(r, i, x)
      BY <1>1, <2>1, <2>2
    <2>3. CASE p \in DOMAIN h.out
      <3>1. \/ p \in DOMAIN r.out
            \/ \E l \in 0 .. i - 1 : p \in WrittenOf(r, l, s[l]) \cup CopiedOf(r, l, s[l])
        BY <1>0, <2>3 DEF SoFar
      <3> QED BY <1>1, <2>1, <3>1
    <2> QED BY <1>a, <2>2, <2>3
  <1>13. e2 = ComeTo(r, t, i + 1, e2.eob) /\ (r.d.stage = "symbols" => EndAt(r, t, i + 1, e2.eob))
    BY <1>1
  <1> QED BY Zenon, <1>3, <1>7, <1>10, <1>11, <1>12, <1>13 DEF SoFar

-----------------------------------------------------------------------------
(* The sequential team steps lane hidx of the round. *)

InRounds == {"bytes", "symbols", "drain"}
TeamAt(s) ==
  /\ SoFar(Round, Team, s, hidx, hd) /\ hwhy = "None"
  /\ hidx \in Lane /\ hidx < RoundLanes(wd)
  /\ wd \in Drivers /\ wd.stage \in InRounds /\ hd.stage = wd.stage
  /\ wd.stage # "symbols" => hd = wd
  /\ wcursor \in Nat /\ wlanes \in [Lane -> LaneStates]

LEMMA HasTurn ==
  ASSUME NEW s, TeamAt(s) PROVE hidx \in Turns(Round) /\ RoundLanes(wd) \in Int
  <1>1. wd \in Drivers /\ NumStreams \in Int
    BY LaneAssumption DEF TeamAt
  <1>2. wd.len \in Int /\ wd.done \in Int /\ wd.eob \in Int
    BY <1>1 DEF Drivers
  <1>3. RoundLanes(wd) \in Int
    BY <1>1, <1>2 DEF TeamAt, InRounds, RoundLanes
  <1>4. hidx \in Nat /\ hidx < RoundLanes(wd) /\ Round.d = wd
    BY DEF TeamAt, Lane, Round
  <1> QED BY <1>3, <1>4 DEF Turns

\* The lane the team steps is as the warp's still is.
LEMMA LaneAsItWas ==
  ASSUME NEW s, TeamAt(s)
  PROVE  /\ hlanes[hidx] = wlanes[hidx]
         /\ hcursor = wcursor + Cardinality(Takers(Lanes(Round, s), hidx))
  <1>1. Team.lanes = hlanes /\ Team.cursor = hcursor /\ Round.lanes = wlanes /\ Round.cursor = wcursor
    BY DEF Team, Round
  <1>2. hidx \in Nat /\ hidx \in Lane
    BY DEF TeamAt, Lane
  <1>3. /\ hlanes = DealtTo(Lanes(Round, s), hidx, wcursor, wlanes)
        /\ hcursor = wcursor + Cardinality(Takers(Lanes(Round, s), hidx))
    BY <1>1 DEF TeamAt, SoFar
  <1>4. DealtTo(Lanes(Round, s), hidx, wcursor, wlanes)[hidx] = wlanes[hidx]
    BY <1>2 DEF DealtTo
  <1> QED BY <1>3, <1>4

LEMMA TeamStops ==
  ASSUME HostInv, NEW s, TeamAt(s), NEW eob, NEW x, NEW t,
         NextLane(Round, Team, s, hidx, hd, page', eob, x, t), hd'.stage = "refused",
         \/ hwhy' # "None" /\ WhyOf(Round, hidx, x) = hwhy'
         \/ /\ WhyOf(Round, hidx, x) = "None" /\ NeedsRefill(LaneOf(Round, hidx, x))
            /\ hwhy' = "RefillPastEnd" /\ hcursor >= WordCount
  PROVE  StoppedAt(Round, Team', t, hidx, eob, hd', hwhy')
  <1>1. Grown(Round, s, hidx, page', eob, x, t)
    BY Extended
  <1>2. hidx \in Lane /\ hidx \in Nat /\ hidx < NumStreams /\ NumStreams \in Nat /\ hidx < RoundLanes(Round.d)
    <2>1. hidx \in Lane /\ hidx < RoundLanes(Round.d)
      BY DEF TeamAt, Round
    <2> QED BY <2>1, LaneAssumption DEF Lane
  <1>3. Takers(Lanes(Round, t), hidx) = Takers(Lanes(Round, s), hidx)
    <2>1. \A l \in 0 .. hidx - 1 : t[l] = s[l]
      BY <1>1 DEF Grown
    <2>2. \A l \in 0 .. hidx - 1 : l \in Lane
      BY <1>2 DEF Lane
    <2>3. \A l \in 0 .. hidx - 1 : Lanes(Round, t)[l] = Lanes(Round, s)[l]
      BY <2>1, <2>2 DEF Lanes
    <2> QED BY <2>3, TakersSame
  <1>4. hcursor = Round.cursor + Cardinality(Takers(Lanes(Round, t), hidx)) /\ hcursor <= WordCount
    <2>1. hcursor \in 0 .. WordCount /\ Round.cursor = wcursor
      BY DEF HostInv, HostTyped, Round
    <2> QED BY <1>3, <2>1, LaneAsItWas, LaneAssumption
  <1>5. t[hidx] = x /\ Lanes(Round, t)[hidx] = LaneOf(Round, hidx, x)
    BY <1>1, <1>2 DEF Grown, Lanes
  <1>6. StopsAt(Lanes(Round, t), hidx, Round.cursor, WhyOf(Round, hidx, t[hidx]), hwhy')
    BY <1>4, <1>5 DEF StopsAt
  <1>7. Team'.page = page'
    BY DEF Team
  <1> QED BY <1>1, <1>2, <1>6, <1>7 DEF StoppedAt, Grown

\* What the team's step of the round comes to.
RoundMoves ==
  \/ \E t, eob : StoppedAt(Round, Team', t, hidx, eob, hd', hwhy')
  \/ \E t, e : hidx' = 0 /\ RoundDone(Round, Team', t, e, hd', hwhy')
  \/ \E t : /\ hidx' # 0 /\ hd'.stage = wd.stage /\ hwhy' = "None"
            /\ SoFar(Round, Team', t, hidx', hd')

LEMMA RoundLanesSame ==
  ASSUME NEW s, TeamAt(s) PROVE Host!RoundLanes(hd) = RoundLanes(wd)
  <1>1. CASE wd.stage = "symbols"
    <2>1. hd.stage = "symbols"
      BY <1>1 DEF TeamAt
    <2> QED BY <1>1, <2>1 DEF Host!RoundLanes, RoundLanes
  <1>2. CASE wd.stage # "symbols"
    <2>1. hd = wd
      BY <1>2 DEF TeamAt
    <2> QED BY <2>1 DEF Host!RoundLanes, RoundLanes
  <1> QED BY <1>1, <1>2

LEMMA AfterRoundSame ==
  ASSUME NEW e
  PROVE  Host!AfterRound(e) = AfterRound(e) /\ Host!AfterRoundWhy(e) = AfterRoundWhy(e)
  <1>1. /\ Host!RoundLanes(e) = RoundLanes(e)
        /\ \A f : Host!NextBlock(f) = NextBlock(f) /\ Host!Refused(f) = Refused(f)
    BY DEF Host!RoundLanes, RoundLanes, Host!NextBlock, NextBlock, Host!Refused, Refused,
           Host!BlockFuel, BlockFuel, Host!MaxLaneBits, MaxLaneBits, Host!MinMatchLen, MinMatchLen
  <1>2. Host!AfterBytes(e) = AfterBytes(e)
    BY Zenon, <1>1 DEF Host!AfterBytes, AfterBytes
  <1>3. Host!AfterSymbols(e) = AfterSymbols(e)
    BY Zenon, <1>1 DEF Host!AfterSymbols, AfterSymbols, Host!NoLane, NoLane, Host!RoundFuel, RoundFuel
  <1>4. Host!AfterRound(e) = AfterRound(e)
    BY Zenon, <1>1, <1>2, <1>3 DEF Host!AfterRound, AfterRound
  <1>5. Host!AfterRoundWhy(e) = AfterRoundWhy(e)
    BY Zenon, <1>4 DEF Host!AfterRoundWhy, AfterRoundWhy, Host!NoLane, NoLane
  <1> QED BY <1>4, <1>5

\* A lane's step that refuses nothing: the word it is due may still be past the page's end.
LEMMA TeamAdvances ==
  ASSUME HostInv, NEW s, TeamAt(s), NEW eob, NEW x, NEW t,
         NextLane(Round, Team, s, hidx, hd, page', eob, x, t),
         WhyOf(Round, hidx, x) = "None", Wrote(Round, hidx, x, hout'), Copied(Round, hidx, x, hout'),
         Under(hout, hout'),
         \A p \in DOMAIN hout' :
           p \in DOMAIN hout \/ p \in WrittenOf(Round, hidx, x) \cup CopiedOf(Round, hidx, x),
         NEW e, e = ComeTo(Round, t, hidx + 1, eob), e.eob = eob, e.stage = wd.stage,
         Host!Advance(LaneOf(Round, hidx, x), e)
  PROVE  RoundMoves
  <1> DEFINE lane == LaneOf(Round, hidx, x)
  <1>1. Host!NeedsRefill(lane) <=> NeedsRefill(lane)
    BY DEF Host!NeedsRefill, NeedsRefill
  <1>2. CASE Host!Starved(lane) /\ Host!Fails("RefillPastEnd")
    <2>1. hwhy' = "RefillPastEnd"
      BY <1>2 DEF TeamAt, Host!Fails, Host!RefuseAs
    <2>2. hd'.stage = "refused"
      <3>1. hd' = [hd EXCEPT !.stage = "refused"] /\ hd \in Drivers
        BY <1>2 DEF Host!Fails, Host!Refused, HostInv, HostTyped
      <3> QED BY <3>1 DEF Drivers
    <2>3. NeedsRefill(lane) /\ hcursor >= WordCount
      BY Zenon, <1>1, <1>2 DEF Host!Starved
    <2> HIDE DEF lane
    <2>4. StoppedAt(Round, Team', t, hidx, eob, hd', hwhy')
      BY <2>1, <2>2, <2>3, TeamStops DEF lane
    <2> QED BY Zenon, <2>4 DEF RoundMoves
  <1>3. CASE /\ hlanes' = [hlanes EXCEPT ![hidx] = Host!Ensured(lane)]
             /\ hcursor' = Host!NextCursor(lane)
             /\ hidx' = IF hidx + 1 = Host!RoundLanes(hd) THEN 0 ELSE hidx + 1
             /\ hd' = IF hidx + 1 = Host!RoundLanes(hd) THEN Host!AfterRound(e) ELSE e
             /\ hwhy' = IF hidx + 1 = Host!RoundLanes(hd)
                        THEN Host!RefuseAs(hwhy, Host!AfterRoundWhy(e)) ELSE hwhy
    <2>1. Host!Ensured(lane) = Dealt(lane, hcursor)
      <3>1. \A w : Host!RefillLane(lane, w) = RefillLane(lane, w)
        BY DEF Host!RefillLane, RefillLane
      <3> HIDE DEF lane
      <3> QED BY Zenon, <1>1, <3>1 DEF Host!Ensured, Dealt
    <2>2. hcursor' = IF NeedsRefill(lane) THEN hcursor + 1 ELSE hcursor
      <3> HIDE DEF lane
      <3> QED BY Zenon, <1>1, <1>3 DEF Host!NextCursor
    <2>3. /\ Team'.page = page' /\ Team'.lanes = hlanes' /\ Team'.cursor = hcursor' /\ Team'.out = hout'
          /\ Team.lanes = hlanes /\ Team.cursor = hcursor /\ Team.out = hout
      BY DEF Team
    <2>4. Stepped(Round, Team, hidx, x, Team')
      <3>1. hlanes' = [hlanes EXCEPT ![hidx] = Dealt(lane, hcursor)]
        BY <1>3, <2>1
      <3> QED BY Zenon, <2>2, <2>3, <3>1 DEF Stepped
    <2>5. NextLane(Round, Team, s, hidx, hd, Team'.page, eob, x, t)
      BY <2>3
    <2>6. Round.cursor \in Nat /\ hidx \in Nat /\ hidx + 1 # 0
      <3>1. Round.cursor \in Nat /\ hidx \in Lane
        BY DEF TeamAt, Round
      <3> QED BY <3>1 DEF Lane
    <2>7. SoFar(Round, Team', t, hidx + 1, e)
      BY <2>4, <2>5, <2>6, Advanced
    <2>8. hwhy = "None" /\ Host!RoundLanes(hd) = RoundLanes(wd) /\ Round.d = wd
      BY RoundLanesSame DEF TeamAt, Round
    <2>9. CASE hidx + 1 = RoundLanes(wd)
      <3>1. hidx' = 0 /\ hd' = AfterRound(e) /\ hwhy' = RefuseAs("None", AfterRoundWhy(e))
        BY <1>3, <2>8, <2>9, AfterRoundSame DEF Host!RefuseAs, RefuseAs
      <3>2. RoundDone(Round, Team', t, e, hd', hwhy')
        BY <2>7, <2>8, <2>9, <3>1 DEF RoundDone
      <3> QED BY Zenon, <3>1, <3>2 DEF RoundMoves
    <2>10. CASE hidx + 1 # RoundLanes(wd)
      <3>1. hidx' = hidx + 1 /\ hd' = e /\ hwhy' = "None"
        BY <1>3, <2>8, <2>10
      <3>2. hidx' # 0 /\ hd'.stage = wd.stage
        BY <2>6, <3>1
      <3> QED BY Zenon, <2>7, <3>1, <3>2 DEF RoundMoves
    <2> QED BY <2>9, <2>10
  <1> QED BY Zenon, <1>2, <1>3 DEF Host!Advance

LEMMA RefusedIs ==
  ASSUME HostInv, hwhy = "None", NEW rung, Host!Fails(rung)
  PROVE  hd'.stage = "refused" /\ hwhy' = rung /\ hidx' = hidx
  <1>1. hd' = [hd EXCEPT !.stage = "refused"] /\ hd \in Drivers
    BY DEF Host!Fails, Host!Refused, HostInv, HostTyped
  <1>2. hwhy' = rung /\ hidx' = hidx
    BY DEF Host!Fails, Host!RefuseAs
  <1> QED BY <1>1, <1>2 DEF Drivers

LEMMA CopyKept ==
  ASSUME NEW lane \in LaneStates, NEW w
  PROVE  /\ [Remove(lane, w) EXCEPT !.copy = lane.copy] = Remove(lane, w)
         /\ Host!Remove(lane, w) = Remove(lane, w)
  BY DEF LaneStates, Remove, Host!Remove

LEMMA StoredByteMoves ==
  ASSUME HostInv, HostOut, NEW s, TeamAt(s), Host!StoredByte
  PROVE  RoundMoves
  <1> DEFINE lane == wlanes[hidx]
             c == wd.out_pos + hidx
             x == [mode |-> "byte", sym |-> NoSym, rung |-> "None", pos |-> PosAt(Round, s, hidx)]
             t == [l \in Lane |-> IF l = hidx THEN x ELSE s[l]]
  <1>1. /\ hd.stage = "bytes" /\ wd.stage = "bytes" /\ hd = wd /\ hlanes[hidx] = lane /\ page' = page
        /\ hidx \in Lane /\ hidx < RoundLanes(wd)
    BY LaneAsItWas DEF TeamAt, Host!StoredByte
  <1>2. /\ ByteBits \in Nat /\ lane \in LaneStates /\ ByteBits <= lane.left /\ hd \in Drivers
        /\ hidx \in Lane /\ hidx \in Nat /\ hd.out_pos \in Nat
    BY <1>1, LaneInRound, TeamAssumption DEF Drivers, InRound
  <1>3. PopRefuses(lane, ByteBits) = "None" /\ Host!PopRefuses(lane, ByteBits) = "None"
    BY <1>2 DEF PopRefuses, Host!PopRefuses, LaneStates
  <1>4. /\ hout' = Write(hout, [p \in {c} |-> ByteAt(lane)])
        /\ Host!Advance(Remove(lane, ByteBits), hd)
    <2>1. /\ hout' = Host!Write(hout, [p \in {c} |-> Host!ByteAt(lane)])
          /\ Host!Advance(Host!Remove(lane, ByteBits), hd)
      BY <1>1, <1>3 DEF Host!StoredByte
    <2>2. Host!ByteAt(lane) = ByteAt(lane)
      BY DEF Host!ByteAt, ByteAt, Host!Removed, Removed
    <2>3. \A b : Host!Write(hout, b) = Write(hout, b)
      BY DEF Host!Write, Write
    <2> QED BY <1>2, <2>1, <2>2, <2>3, CopyKept
  <1>5. c \in Nat /\ OutOK(HostCopies, c, hout)
    BY <1>1, <1>2 DEF HostOut, Claimed
  <1>6. /\ x.mode = "byte" /\ x.sym = NoSym /\ x.rung = "None" /\ x.pos = PosAt(Round, s, hidx)
        /\ x = [mode |-> x.mode, sym |-> x.sym, rung |-> x.rung, pos |-> x.pos]
    OBVIOUS
  <1>7. Round.d = wd /\ Round.lanes = wlanes /\ Team.page = page
    BY DEF Round, Team
  <1> HIDE DEF x, c
  <1>8. Resolved(page', Round, hidx, x, hd.eob)
    <2>1. hidx \in Turns(Round)
      BY <1>7, HasTurn
    <2>2. ~Reader(Round, hidx)
      BY <1>1, <1>7 DEF Reader
    <2>3. ModeIn(Round, hidx, x.sym, x.rung, hd.eob) = "byte"
      BY <1>1, <1>7, <2>1 DEF ModeIn
    <2> QED BY <1>6, <2>2, <2>3 DEF Resolved
  <1>9. NextLane(Round, Team, s, hidx, hd, page', hd.eob, x, t)
    <2>1. hd.eob \in 0 .. NumStreams
      BY <1>2 DEF Drivers
    <2>2. SoFar(Round, Team, s, hidx, hd)
      BY DEF TeamAt
    <2>3. \A k \in DOMAIN Team.page : k \in DOMAIN page' /\ page'[k] = Team.page[k]
      BY <1>1, <1>7
    <2>4. Round.d.stage # "symbols"
      BY <1>1, <1>7
    <2> HIDE DEF t
    <2> QED BY <1>1, <1>6, <1>8, <2>1, <2>2, <2>3, <2>4 DEF NextLane, t
  <1>10. WhyOf(Round, hidx, x) = "None" /\ WrittenOf(Round, hidx, x) = {c}
         /\ LaneOf(Round, hidx, x) = Remove(lane, ByteBits)
    <2>1. WhyOf(Round, hidx, x) = "None"
      BY <1>3, <1>6, <1>7 DEF WhyOf
    <2>2. WrittenOf(Round, hidx, x) = {c}
      BY <1>6, <1>7 DEF WrittenOf, c
    <2>3. WidthOf(x) = ByteBits /\ CopyOf(Round, hidx, x) = lane.copy
      BY <1>6, <1>7 DEF WidthOf, CopyOf
    <2>4. LaneOf(Round, hidx, x) = Remove(lane, ByteBits)
      BY <1>2, <1>7, <2>3, CopyKept DEF LaneOf
    <2> QED BY <2>1, <2>2, <2>4
  <1>11. /\ Under(hout, hout') /\ DOMAIN hout' = DOMAIN hout \cup {c}
         /\ c \in DOMAIN hout' /\ hout'[c] = ByteAt(lane)
    <2> DEFINE bytes == [p \in {c} |-> ByteAt(lane)]
    <2>1. DOMAIN bytes = {c} /\ bytes[c] = ByteAt(lane) /\ hout' = Write(hout, bytes)
      BY <1>4
    <2>2. c \notin DOMAIN hout
      <3>1. c \notin 0 .. c - 1
        BY <1>5
      <3> QED BY <1>5, <3>1 DEF OutOK
    <2> HIDE DEF bytes, lane
    <2>3. /\ DOMAIN hout' = DOMAIN hout \cup {c} /\ hout'[c] = bytes[c]
          /\ \A p \in DOMAIN hout \ {c} : hout'[p] = hout[p]
      BY <2>1 DEF Write
    <2> QED BY <2>1, <2>2, <2>3 DEF Under
  <1>12. Wrote(Round, hidx, x, hout') /\ Copied(Round, hidx, x, hout')
    BY <1>6, <1>7, <1>10, <1>11 DEF Wrote, Copied
  <1>13. hd = ComeTo(Round, t, hidx + 1, hd.eob) /\ hd.stage = wd.stage
    BY <1>1, <1>7 DEF ComeTo
  <1> HIDE DEF t
  <1> QED BY <1>4, <1>9, <1>10, <1>11, <1>12, <1>13, TeamAdvances

\* A match in its place: what it reads was written, what it writes was not.
LEMMA MatchBytes ==
  ASSUME NEW cs \in [Lane -> Copies], NEW i \in Lane, NEW c \in Nat, NEW out,
         PlacesOK(cs, i, c), OutOK(cs, c, out), cs[i].pending,
         NEW dist \in Nat \ {0}, dist <= cs[i].out_pos,
         NEW out2, out2 = CopyForward(out, cs[i].out_pos, dist, cs[i].length)
  PROVE  /\ \A p \in DOMAIN out2 : p \in DOMAIN out \/ p \in CopyRange(cs[i])
         /\ \A p \in DOMAIN out : p \in DOMAIN out2 /\ out2[p] = out[p]
         /\ \A p \in CopyRange(cs[i]) :
              /\ Source(cs[i], dist, p) \in 0 .. cs[i].out_pos - 1 /\ p \notin DOMAIN out
              /\ Source(cs[i], dist, p) \in DOMAIN out
              /\ p \in DOMAIN out2 /\ out2[p] = out[Source(cs[i], dist, p)]
  <1> DEFINE pos == cs[i].out_pos
             len == cs[i].length
             range == pos .. pos + len - 1
             src(p) == pos - dist + ((p - pos) % dist)
  <1>1. pos \in Nat /\ len \in Nat /\ len > 0 /\ pos + len <= c /\ CopyRange(cs[i]) = range
    <2>1. cs[i] \in Copies
      OBVIOUS
    <2> QED BY <2>1, CopyFields DEF PlacesOK, CopyRange
  <1>3. \A l \in Lane \ {i} : cs[l].pending =>
          /\ cs[l].out_pos \in Nat /\ cs[l].length \in Nat /\ cs[l].length > 0
          /\ pos + len <= cs[l].out_pos
    <2>1. ASSUME NEW l \in Lane \ {i} PROVE Before(i, i, l)
      <3>1. i \in Int /\ l \in Int /\ i # l
        BY LaneAssumption DEF Lane
      <3> QED BY <3>1 DEF Before
    <2>2. ASSUME NEW l \in Lane \ {i}, cs[l].pending
          PROVE  cs[l].out_pos \in Nat /\ cs[l].length \in Nat /\ cs[l].length > 0
                 /\ pos + len <= cs[l].out_pos
      <3>1. cs[l] \in Copies
        OBVIOUS
      <3>2. cs[l].length > 0 /\ pos + len <= cs[l].out_pos
        BY <2>1, <2>2 DEF PlacesOK
      <3> QED BY <3>1, <3>2, CopyFields
    <2> QED BY <2>2
  <1> HIDE DEF pos, len
  <1>4. \A q \in 0 .. pos - 1 : q \in DOMAIN out
    <2>1. ASSUME NEW q \in 0 .. pos - 1, NEW l \in Lane, cs[l].pending, q \in CopyRange(cs[l])
          PROVE  FALSE
      <3>1. l # i
        BY <1>1, <2>1
      <3>2. cs[l] \in Copies
        OBVIOUS
      <3>3. pos + len <= cs[l].out_pos /\ cs[l].out_pos <= q /\ cs[l].out_pos \in Nat
        BY <1>3, <2>1, <3>1, <3>2, CopyFields
      <3> QED BY <1>1, <3>3
    <2>2. \A q \in 0 .. pos - 1 : ~Holds(cs, q)
      BY <2>1 DEF Holds
    <2>3. \A q \in 0 .. pos - 1 : q \in 0 .. c - 1
      BY <1>1
    <2> QED BY <2>2, <2>3 DEF OutOK
  <1>5. \A p \in range : src(p) \in 0 .. pos - 1 /\ src(p) \in DOMAIN out /\ ByteIn(out, src(p)) = out[src(p)]
    <2>1. ASSUME NEW p \in range PROVE src(p) \in 0 .. pos - 1
      <3>1. p - pos \in Nat
        BY <1>1
      <3>2. (p - pos) % dist \in 0 .. dist - 1
        BY <3>1, ModRange
      <3>3. dist <= pos
        BY DEF pos
      <3> QED BY <1>1, <3>2, <3>3
    <2> HIDE DEF src
    <2> QED BY <1>4, <2>1 DEF ByteIn
  <1> DEFINE bytes == [p \in range |-> ByteIn(out, src(p))]
  <1>6. out2 = Write(out, bytes)
    <2>1. CopyForward(out, pos, dist, len) = CopyGather(out, pos, dist, len)
      BY <1>1, ForwardIsGather
    <2>2. out2 = CopyGather(out, pos, dist, len)
      BY <2>1 DEF pos, len
    <2> QED BY <2>2 DEF CopyGather
  <1>7. \A p \in range : p \notin DOMAIN out
    <2>1. \A p \in range : Holds(cs, p)
      BY <1>1 DEF Holds
    <2> QED BY <2>1 DEF OutOK
  <1>8. /\ DOMAIN out2 = DOMAIN out \cup range
        /\ \A p \in DOMAIN out : p \in DOMAIN out2 /\ out2[p] = out[p]
        /\ \A p \in range : p \in DOMAIN out2 /\ out2[p] = out[src(p)]
    <2>1. DOMAIN bytes = range /\ \A p \in range : bytes[p] = out[src(p)]
      BY <1>5
    <2> HIDE DEF bytes, range, src
    <2>2. /\ DOMAIN out2 = DOMAIN out \cup DOMAIN bytes
          /\ \A p \in DOMAIN bytes : out2[p] = bytes[p]
          /\ \A p \in DOMAIN out \ DOMAIN bytes : out2[p] = out[p]
      BY <1>6 DEF Write
    <2> QED BY <1>7, <2>1, <2>2
  <1>9. \A p \in range : Source(cs[i], dist, p) = src(p)
    BY DEF Source, pos
  <1> HIDE DEF range, src
  <1>10. \A p \in DOMAIN out2 : p \in DOMAIN out \/ p \in CopyRange(cs[i])
    BY <1>1, <1>8
  <1>11. \A p \in DOMAIN out : p \in DOMAIN out2 /\ out2[p] = out[p]
    BY <1>8
  <1>12. ASSUME NEW p \in CopyRange(cs[i])
         PROVE  /\ Source(cs[i], dist, p) \in 0 .. cs[i].out_pos - 1 /\ p \notin DOMAIN out
                /\ Source(cs[i], dist, p) \in DOMAIN out
                /\ p \in DOMAIN out2 /\ out2[p] = out[Source(cs[i], dist, p)]
    <2>1. p \in range /\ Source(cs[i], dist, p) = src(p)
      BY <1>1, <1>9
    <2>2. src(p) \in 0 .. pos - 1 /\ src(p) \in DOMAIN out /\ p \notin DOMAIN out
          /\ p \in DOMAIN out2 /\ out2[p] = out[src(p)]
      BY <1>5, <1>7, <1>8, <2>1
    <2> QED BY Zenon, <2>1, <2>2 DEF pos
  <1> QED BY <1>10, <1>11, <1>12

LEMMA ReadKeeps ==
  ASSUME NEW q, NEW keys, NEW values, NEW r \in Reads(q, keys, values)
  PROVE  /\ \A k \in DOMAIN q : k \in DOMAIN r /\ r[k] = q[k]
         /\ keys \subseteq DOMAIN r /\ DOMAIN r = DOMAIN q \cup keys
  <1> DEFINE fresh == keys \ DOMAIN q
             choice == UNION {values[k[3]] : k \in fresh}
             picks == {p \in [fresh -> choice] : \A k \in fresh : p[k] \in values[k[3]]}
  <1>1. PICK pick \in picks :
          r = [k \in DOMAIN q \cup fresh |-> IF k \in fresh THEN pick[k] ELSE q[k]]
    BY DEF Reads
  <1>2. DOMAIN r = DOMAIN q \cup fresh
    BY <1>1
  <1> QED BY <1>1, <1>2

LEMMA TeamReads ==
  ASSUME NEW key, page' \in Host!Reads(page, {key}, Host!Values)
  PROVE  /\ \A k \in DOMAIN page : k \in DOMAIN page' /\ page'[k] = page[k]
         /\ key \in DOMAIN page'
  <1> DEFINE these == {key}
  <1>1. Host!Reads(page, these, Host!Values) = Reads(page, these, Host!Values)
    BY DEF Host!Reads, Reads
  <1>2. page' \in Reads(page, these, Host!Values) /\ key \in these
    BY Zenon, <1>1
  <1> HIDE DEF these
  <1>3. (\A k \in DOMAIN page : k \in DOMAIN page' /\ page'[k] = page[k]) /\ these \subseteq DOMAIN page'
    BY <1>2, ReadKeeps
  <1> QED BY <1>2, <1>3

\* What the lane the team steps resolves.
StepOf(s, sym, rung, eob) ==
  [mode |-> ModeIn(Round, hidx, sym, rung, eob), sym |-> sym, rung |-> rung,
   pos |-> PosAt(Round, s, hidx)]
WithStep(s, x) == [l \in Lane |-> IF l = hidx THEN x ELSE s[l]]

LEMMA ReaderNext ==
  ASSUME NEW s, TeamAt(s), hd.eob \in 0 .. NumStreams, wd.stage \in {"symbols", "drain"},
         NEW lane, lane = wlanes[hidx], wd.stage = "drain" => lane.copy.pending,
         NEW table, table = IF lane.copy.pending THEN "dist" ELSE "litlen",
         page' \in Host!Reads(page, {Host!Bits(lane, table)}, Host!Values),
         NEW sym, sym = page'[Bits(lane, table)], NEW rung, rung = StepWhy(lane, sym),
         NEW eob, eob = IF /\ wd.stage = "symbols" /\ hd.eob = NoLane /\ ~lane.copy.pending
                           /\ rung = "None" /\ sym.kind = "end"
                        THEN hidx ELSE hd.eob
  PROVE  NextLane(Round, Team, s, hidx, hd, page', eob, StepOf(s, sym, rung, eob),
                  WithStep(s, StepOf(s, sym, rung, eob)))
  <1> DEFINE x == StepOf(s, sym, rung, eob)
  <1>1. Round.d = wd /\ Round.lanes = wlanes /\ Team.page = page /\ hidx \in Lane
        /\ hidx \in 0 .. NumStreams - 1 /\ SoFar(Round, Team, s, hidx, hd) /\ NumStreams \in Nat
    BY LaneAssumption DEF Round, Team, TeamAt, Lane
  <1>2. /\ x.mode = ModeIn(Round, hidx, sym, rung, eob) /\ x.sym = sym /\ x.rung = rung
        /\ x.pos = PosAt(Round, s, hidx)
        /\ x = [mode |-> x.mode, sym |-> x.sym, rung |-> x.rung, pos |-> x.pos]
    BY DEF StepOf
  <1> HIDE DEF x
  <1>3. hidx \in Turns(Round) /\ (Owes(Round, hidx) <=> lane.copy.pending) /\ Reader(Round, hidx)
    BY <1>1, HasTurn DEF Owes, Reader
  <1>4. KeyOf(Round, hidx) = Bits(lane, table)
    BY Zenon, <1>1, <1>3 DEF KeyOf
  <1>5. /\ \A k \in DOMAIN page : k \in DOMAIN page' /\ page'[k] = page[k]
        /\ Bits(lane, table) \in DOMAIN page'
    <2>1. Host!Bits(lane, table) = Bits(lane, table)
      BY DEF Host!Bits, Bits, Host!Removed, Removed
    <2>2. page' \in Host!Reads(page, {Bits(lane, table)}, Host!Values)
      BY Zenon, <2>1
    <2> QED BY <2>2, TeamReads
  <1>6. Resolved(page', Round, hidx, x, eob)
    BY <1>1, <1>2, <1>3, <1>4, <1>5 DEF Resolved
  <1>7. IsEnd(Round, hidx, x) <=> ~lane.copy.pending /\ rung = "None" /\ sym.kind = "end"
    BY <1>2, <1>3 DEF IsEnd
  <1>8. eob = IF Round.d.stage = "symbols" /\ hd.eob = NoLane /\ IsEnd(Round, hidx, x)
              THEN hidx ELSE hd.eob
    BY Zenon, <1>1, <1>7
  <1>9. eob \in 0 .. NumStreams
    BY <1>1
  <1> QED BY <1>1, <1>2, <1>5, <1>6, <1>8, <1>9 DEF NextLane, WithStep, x

\* The driver the team's next lane starts from.
LEMMA ComesTo ==
  ASSUME NEW s, TeamAt(s), hd \in Drivers, wd.stage = "symbols", NEW x, NEW eob
  PROVE  /\ PosAt(Round, s, hidx) = hd.out_pos
         /\ x.pos = PosAt(Round, s, hidx) =>
              ComeTo(Round, WithStep(s, x), hidx + 1, eob)
                = [hd EXCEPT !.eob = eob, !.out_pos = hd.out_pos + Claim(x)]
  <1>1. Round.d = wd /\ hidx \in Lane /\ hidx \in Nat /\ wd \in Drivers
        /\ hd = ComeTo(Round, s, hidx, hd.eob)
    BY DEF Round, TeamAt, Lane, SoFar
  <1>2. hd = [wd EXCEPT !.eob = hd.eob, !.out_pos = PosAt(Round, s, hidx)]
    BY <1>1 DEF ComeTo
  <1>3. PosAt(Round, s, hidx) = hd.out_pos
    BY <1>1, <1>2 DEF Drivers
  <1>4. ASSUME x.pos = PosAt(Round, s, hidx)
        PROVE  ComeTo(Round, WithStep(s, x), hidx + 1, eob)
                 = [hd EXCEPT !.eob = eob, !.out_pos = hd.out_pos + Claim(x)]
    <2>1. WithStep(s, x)[hidx] = x
      BY <1>1 DEF WithStep
    <2>2. hidx + 1 # 0 /\ (hidx + 1) - 1 = hidx
      BY <1>1
    <2>3. PosAt(Round, WithStep(s, x), hidx + 1) = hd.out_pos + Claim(x)
      BY <1>3, <1>4, <2>1, <2>2 DEF PosAt
    <2>4. ComeTo(Round, WithStep(s, x), hidx + 1, eob)
            = [wd EXCEPT !.eob = eob, !.out_pos = hd.out_pos + Claim(x)]
      BY <1>1, <2>3 DEF ComeTo
    <2> DEFINE c == hd.out_pos + Claim(x)
    <2>5. [wd EXCEPT !.eob = eob, !.out_pos = c] = [hd EXCEPT !.eob = eob, !.out_pos = c]
      <3> HIDE DEF c
      <3> QED BY <1>1, <1>2 DEF Drivers
    <2> QED BY <2>4, <2>5
  <1> QED BY <1>3, <1>4

\* A refused step, without a word: the rung is the lane's own.
LEMMA TeamRefuses ==
  ASSUME HostInv, NEW s, TeamAt(s), NEW eob, NEW x, NEW t,
         NextLane(Round, Team, s, hidx, hd, page', eob, x, t),
         NEW rung, rung # "None", Host!RefusedStep(rung), WhyOf(Round, hidx, x) = rung
  PROVE  RoundMoves
  <1>1. hwhy = "None" /\ Host!Fails(rung)
    BY DEF TeamAt, Host!RefusedStep
  <1>2. hd'.stage = "refused" /\ hwhy' = rung
    BY <1>1, RefusedIs
  <1>3. StoppedAt(Round, Team', t, hidx, eob, hd', hwhy')
    BY <1>2, TeamStops
  <1> QED BY Zenon, <1>3 DEF RoundMoves

LEMMA RetireCopyMoves ==
  ASSUME HostInv, HostOut, NEW s, TeamAt(s), Host!RetireCopy
  PROVE  RoundMoves
  <1> DEFINE lane == wlanes[hidx]
             sym == page'[Bits(lane, "dist")]
             rung == StepWhy(lane, sym)
             x == StepOf(s, sym, rung, hd.eob)
             t == WithStep(s, x)
             free == [lane.copy EXCEPT !.pending = FALSE]
             c == hd.out_pos
  <1>1. /\ InRound /\ hd.stage \in {"symbols", "drain"} /\ wd.stage = hd.stage
        /\ hlanes[hidx] = lane /\ lane.copy.pending
        /\ page' \in Host!Reads(page, {Host!Bits(lane, "dist")}, Host!Values)
    BY LaneAsItWas DEF TeamAt, Host!RetireCopy, InRound
  <1>2. /\ lane \in LaneStates /\ hd \in Drivers /\ lane.left \in Nat /\ lane.left >= Packet
        /\ lane.copy \in Copies /\ hidx \in Lane /\ hidx \in Nat /\ c \in Nat /\ Packet \in Nat
        /\ hd.eob \in 0 .. NumStreams
    BY <1>1, LaneInRound, LaneAssumption DEF Drivers
  <1>0. Host!Bits(lane, "dist") = Bits(lane, "dist")
    BY DEF Host!Bits, Bits, Host!Removed, Removed
  <1>3. sym \in Dists
    <2>1. page'[Host!Bits(lane, "dist")] \in Values["dist"]
      BY <1>1, HostReads DEF HostInv, Tables
    <2> QED BY <1>0, <2>1 DEF Values
  <1>4. sym.width \in Nat /\ sym.width <= lane.left /\ sym.value \in Nat \ {0}
    BY <1>2, <1>3, TeamAssumption
  <1>5. NextLane(Round, Team, s, hidx, hd, page', hd.eob, x, t)
    <2> HIDE DEF lane, sym, rung
    <2> QED BY <1>1, <1>2, ReaderNext DEF lane, sym, rung
  <1> HIDE DEF t
  <1>6. x.mode = "copy" /\ x.sym = sym /\ x.rung = rung /\ x.pos = PosAt(Round, s, hidx)
    <2>1. Round.d = wd /\ Round.lanes = wlanes /\ hidx \in Turns(Round)
      BY HasTurn DEF Round
    <2>2. Owes(Round, hidx) /\ Round.d.stage # "bytes"
      BY <1>1, <2>1 DEF Owes
    <2>3. ModeIn(Round, hidx, sym, rung, hd.eob) = "copy"
      BY <2>2 DEF ModeIn
    <2> HIDE DEF sym, rung
    <2> QED BY <2>3 DEF StepOf
  <1>7. Round.lanes = wlanes
    BY DEF Round
  <1>8. Host!StepWhy(lane, sym) = rung
    BY DEF Host!StepWhy, StepWhy, Host!PopRefuses, PopRefuses
  <1> HIDE DEF x, sym
  <1>9. \/ rung # "None" /\ Host!RefusedStep(rung)
        \/ rung = "None" /\ sym.value > lane.copy.out_pos /\ Host!RefusedStep("MatchBeforeOutput")
        \/ /\ rung = "None" /\ sym.value <= lane.copy.out_pos
           /\ hout' = Host!CopyForward(hout, lane.copy.out_pos, sym.value, lane.copy.length)
           /\ Host!Advance([Host!Remove(lane, sym.width) EXCEPT !.copy.pending = FALSE], hd)
    <2>1. sym = page'[Host!Bits(hlanes[hidx], "dist")]
      BY <1>0, <1>1 DEF sym
    <2>2. hlanes[hidx] = lane
      BY <1>1
    <2> HIDE DEF rung, lane
    <2> QED BY <1>8, <2>1, <2>2 DEF Host!RetireCopy
  <1> HIDE DEF rung
  <1>10. CASE rung # "None" /\ Host!RefusedStep(rung)
    <2>1. WhyOf(Round, hidx, x) = rung
      BY <1>6, <1>10 DEF WhyOf
    <2> QED BY <1>5, <1>10, <2>1, TeamRefuses
  <1>11. CASE rung = "None" /\ sym.value > lane.copy.out_pos /\ Host!RefusedStep("MatchBeforeOutput")
    <2>1. WhyOf(Round, hidx, x) = "MatchBeforeOutput"
      BY <1>6, <1>7, <1>11 DEF WhyOf
    <2> QED BY <1>5, <1>11, <2>1, TeamRefuses
  <1>12. CASE /\ rung = "None" /\ sym.value <= lane.copy.out_pos
              /\ hout' = Host!CopyForward(hout, lane.copy.out_pos, sym.value, lane.copy.length)
              /\ Host!Advance([Host!Remove(lane, sym.width) EXCEPT !.copy.pending = FALSE], hd)
    <2>1. WhyOf(Round, hidx, x) = "None"
      <3>1. ~(sym.value > lane.copy.out_pos)
        BY <1>2, <1>4, <1>12, CopyFields
      <3> QED BY <1>6, <1>7, <1>12, <3>1 DEF WhyOf
    <2>2. LaneOf(Round, hidx, x) = [Host!Remove(lane, sym.width) EXCEPT !.copy.pending = FALSE]
      <3>1. LaneOf(Round, hidx, x) = [Remove(lane, sym.width) EXCEPT !.copy = free]
        BY <1>6, <1>7 DEF LaneOf, CopyOf, WidthOf
      <3>2. Host!Remove(lane, sym.width) = Remove(lane, sym.width)
            /\ Remove(lane, sym.width) = [lane EXCEPT !.left = lane.left - sym.width]
        BY DEF Host!Remove, Remove
      <3> DEFINE y == [lane EXCEPT !.left = lane.left - sym.width]
      <3>3. y.copy = lane.copy /\ [y EXCEPT !.copy = free] = [y EXCEPT !.copy.pending = FALSE]
        BY <1>2 DEF LaneStates
      <3> QED BY <3>1, <3>2, <3>3
    <2>3. lane.copy = HostCopies[hidx] /\ HostCopies \in [Lane -> Copies]
      BY <1>1, <1>2, CopiesTyped DEF HostCopies
    <2>4. PlacesOK(HostCopies, hidx, c) /\ OutOK(HostCopies, c, hout)
      BY <1>1, <1>2 DEF HostOut, Claimed
    <2> HIDE DEF lane
    <2>5. hout' = CopyForward(hout, HostCopies[hidx].out_pos, sym.value, HostCopies[hidx].length)
      BY <1>12, <2>3 DEF CopyForward, Host!CopyForward, ByteIn, Host!ByteIn, Write, Host!Write,
                        Unwritten, Host!Unwritten, NoLane, Host!NoLane
    <2>6. /\ \A p \in DOMAIN hout' : p \in DOMAIN hout \/ p \in CopyRange(lane.copy)
          /\ \A p \in DOMAIN hout : p \in DOMAIN hout' /\ hout'[p] = hout[p]
          /\ \A p \in CopyRange(lane.copy) :
               /\ Source(lane.copy, sym.value, p) \in DOMAIN hout
               /\ p \in DOMAIN hout' /\ hout'[p] = hout[Source(lane.copy, sym.value, p)]
      <3> DEFINE old == HostCopies[hidx]
      <3>1. old.pending /\ sym.value <= old.out_pos /\ old = lane.copy
        BY <1>1, <1>12, <2>3 DEF lane
      <3>2. /\ \A p \in DOMAIN hout' : p \in DOMAIN hout \/ p \in CopyRange(old)
            /\ \A p \in DOMAIN hout : p \in DOMAIN hout' /\ hout'[p] = hout[p]
            /\ \A p \in CopyRange(old) :
                 /\ Source(old, sym.value, p) \in DOMAIN hout
                 /\ p \in DOMAIN hout' /\ hout'[p] = hout[Source(old, sym.value, p)]
        <4> HIDE DEF c
        <4> QED BY <1>2, <1>4, <2>3, <2>4, <2>5, <3>1, MatchBytes
      <3> HIDE DEF old
      <3> QED BY <3>1, <3>2
    <2>7. Under(hout, hout') /\ Gathered(hout', lane.copy, sym.value)
      BY <2>6 DEF Under, Gathered
    <2>8. Copied(Round, hidx, x, hout') /\ Wrote(Round, hidx, x, hout')
          /\ CopiedOf(Round, hidx, x) = CopyRange(lane.copy)
      BY <1>6, <1>7, <2>7 DEF Copied, Wrote, WrittenOf, CopiedOf, lane
    <2>9. \A p \in DOMAIN hout' : p \in DOMAIN hout \/ p \in WrittenOf(Round, hidx, x) \cup CopiedOf(Round, hidx, x)
      BY <2>6, <2>8
    <2>10. hd = ComeTo(Round, t, hidx + 1, hd.eob)
      <3>1. CASE wd.stage = "symbols"
        <4>1. hd.out_pos + Claim(x) = hd.out_pos
          BY <1>2, <1>6 DEF Claim
        <4>2. ComeTo(Round, t, hidx + 1, hd.eob) = [hd EXCEPT !.eob = hd.eob, !.out_pos = hd.out_pos + Claim(x)]
          <5>1. hd \in Drivers /\ x.pos = PosAt(Round, s, hidx)
            BY <1>2, <1>6
          <5> HIDE DEF c
          <5> QED BY <3>1, <5>1, ComesTo DEF t
        <4> QED BY <1>2, <4>1, <4>2 DEF Drivers
      <3>2. CASE wd.stage # "symbols"
        BY <3>2 DEF TeamAt, ComeTo, Round
      <3> QED BY <3>1, <3>2
    <2>11. Host!Advance(LaneOf(Round, hidx, x), hd) /\ hd.stage = wd.stage
      BY <1>1, <1>12, <2>2
    <2> QED BY <1>5, <2>1, <2>7, <2>8, <2>9, <2>10, <2>11, TeamAdvances
  <1> QED BY <1>9, <1>10, <1>11, <1>12

\* A byte written at the claim.
LEMMA ByteMoves ==
  ASSUME NEW cs, NEW c \in Nat, OutOK(cs, c, hout), NEW byte,
         hout' = Host!Write(hout, [p \in {c} |-> byte])
  PROVE  /\ Under(hout, hout') /\ c \in DOMAIN hout' /\ hout'[c] = byte
         /\ \A p \in DOMAIN hout' : p \in DOMAIN hout \/ p \in {c}
  <1> DEFINE bytes == [p \in {c} |-> byte]
  <1>1. DOMAIN bytes = {c} /\ bytes[c] = byte /\ hout' = Write(hout, bytes)
    BY DEF Host!Write, Write
  <1>2. c \notin DOMAIN hout
    <2>1. c \notin 0 .. c - 1
      OBVIOUS
    <2> QED BY <2>1 DEF OutOK
  <1> HIDE DEF bytes
  <1>3. /\ DOMAIN hout' = DOMAIN hout \cup {c} /\ hout'[c] = bytes[c]
        /\ \A p \in DOMAIN hout \ {c} : hout'[p] = hout[p]
    BY <1>1 DEF Write
  <1> QED BY <1>1, <1>2, <1>3 DEF Under

\* A step that writes nothing.
LEMMA NothingMoves ==
  ASSUME hout' = hout, NEW x, x.mode \notin {"literal", "byte", "copy"}
  PROVE  /\ Wrote(Round, hidx, x, hout') /\ Copied(Round, hidx, x, hout') /\ Under(hout, hout')
         /\ \A p \in DOMAIN hout' :
              p \in DOMAIN hout \/ p \in WrittenOf(Round, hidx, x) \cup CopiedOf(Round, hidx, x)
  BY DEF Wrote, WrittenOf, Copied, Under

LEMMA KeptWhole ==
  ASSUME NEW lane \in LaneStates
  PROVE  [Remove(lane, 0) EXCEPT !.copy = lane.copy] = lane
  <1>1. lane.left \in Nat /\ lane = [words |-> lane.words, left |-> lane.left, copy |-> lane.copy]
    BY DEF LaneStates
  <1>2. lane.left - 0 = lane.left
    BY <1>1
  <1> QED BY <1>1, <1>2 DEF Remove

LEMMA SymbolMoves ==
  ASSUME HostInv, HostOut, NEW s, TeamAt(s), Host!Symbol
  PROVE  RoundMoves
  <1> DEFINE lane == wlanes[hidx]
             sym == page'[Bits(lane, "litlen")]
             rung == StepWhy(lane, sym)
             eob == IF hd.eob = NoLane /\ rung = "None" /\ sym.kind = "end" THEN hidx ELSE hd.eob
             x == StepOf(s, sym, rung, eob)
             t == WithStep(s, x)
             e == [hd EXCEPT !.eob = eob]
             taken == Remove(lane, sym.width)
             pos == hd.out_pos
             claim == [pending |-> TRUE, length |-> sym.value, out_pos |-> pos]
             Past(n) == [e EXCEPT !.out_pos = e.out_pos + n]
  <1>1. /\ InRound /\ hd.stage = "symbols" /\ wd.stage = "symbols"
        /\ hlanes[hidx] = lane /\ ~lane.copy.pending
        /\ page' \in Host!Reads(page, {Host!Bits(lane, "litlen")}, Host!Values)
    BY LaneAsItWas DEF TeamAt, Host!Symbol, InRound
  <1>2. /\ lane \in LaneStates /\ hd \in Drivers /\ lane.left \in Nat /\ lane.left >= Packet
        /\ lane.copy \in Copies /\ Packet \in Nat /\ pos \in Nat /\ NumStreams \in Nat
        /\ hidx \in Lane /\ hidx \in 0 .. NumStreams - 1 /\ hidx \in Nat
        /\ hd.eob \in 0 .. NumStreams /\ (hd.eob = NumStreams \/ hd.eob < hidx)
    <2>1. hd.stage = "symbols" => hd.eob = NumStreams \/ hd.eob < hidx
      BY DEF HostInv, HostPlace, NoLane
    <2> QED BY <1>1, <2>1, LaneInRound, LaneAssumption DEF Drivers, Lane
  <1>0. Host!Bits(lane, "litlen") = Bits(lane, "litlen") /\ Host!ByteAt(lane) = ByteAt(lane)
    BY DEF Host!Bits, Bits, Host!Removed, Removed, Host!ByteAt, ByteAt
  <1>3. sym \in LitLens
    <2>1. page'[Host!Bits(lane, "litlen")] \in Values["litlen"]
      BY <1>1, HostReads DEF HostInv, Tables
    <2> QED BY <1>0, <2>1 DEF Values
  <1>4. sym.width \in Nat /\ (sym.kind = "length" => sym.value \in Nat /\ sym.value > 0)
    BY <1>2, <1>3, TeamAssumption
  <1>5. Host!NoLane = NumStreams /\ NoLane = NumStreams /\ Round.d = wd /\ Round.lanes = wlanes
    BY DEF Host!NoLane, NoLane, Round
  <1>6. NextLane(Round, Team, s, hidx, hd, page', eob, x, t)
    <2>1. eob = IF wd.stage = "symbols" /\ hd.eob = NoLane /\ ~lane.copy.pending
                   /\ rung = "None" /\ sym.kind = "end" THEN hidx ELSE hd.eob
      BY <1>1
    <2> HIDE DEF lane, sym, rung, eob
    <2> QED BY <1>1, <1>2, <2>1, ReaderNext DEF lane, sym, rung
  <1>7. x.mode = ModeIn(Round, hidx, sym, rung, eob) /\ x.sym = sym /\ x.rung = rung /\ x.pos = pos
    <2>1. PosAt(Round, s, hidx) = pos
      BY <1>1, <1>2, ComesTo
    <2> HIDE DEF sym, rung, eob
    <2> QED BY <2>1 DEF StepOf
  <1>8. Host!StepWhy(lane, sym) = rung
    BY DEF Host!StepWhy, StepWhy, Host!PopRefuses, PopRefuses
  <1>9. Host!Remove(lane, sym.width) = taken
    BY DEF Host!Remove, Remove
  <1>10. \/ eob < hidx /\ Host!Advance(lane, e) /\ hout' = hout
         \/ eob = hidx /\ Host!Advance(taken, e) /\ hout' = hout
         \/ eob > hidx /\ rung # "None" /\ Host!RefusedStep(rung)
         \/ /\ eob > hidx /\ rung = "None" /\ sym.kind = "literal"
            /\ ~LiteralFits(pos) /\ Host!RefusedStep("LiteralPastCap")
         \/ /\ eob > hidx /\ rung = "None" /\ sym.kind = "literal" /\ LiteralFits(pos)
            /\ hout' = Host!Write(hout, [p \in {pos} |-> ByteAt(lane)])
            /\ Host!Advance(taken, Past(1))
         \/ /\ eob > hidx /\ rung = "None" /\ sym.kind = "length"
            /\ ~ReserveFits(pos, sym.value) /\ Host!RefusedStep("MatchPastCap")
         \/ /\ eob > hidx /\ rung = "None" /\ sym.kind = "length" /\ ReserveFits(pos, sym.value)
            /\ hout' = hout /\ Host!Advance([taken EXCEPT !.copy = claim], Past(sym.value))
    <2> DEFINE mine == [hd EXCEPT !.eob = IF @ = Host!NoLane /\ rung = "None" /\ sym.kind = "end"
                                          THEN hidx ELSE @]
    <2>1. mine = e /\ mine.eob = eob
      BY <1>2, <1>5 DEF Drivers
    <2>2. sym = page'[Host!Bits(hlanes[hidx], "litlen")] /\ hlanes[hidx] = lane
      BY <1>0, <1>1
    <2>3. /\ Host!LiteralFits(pos) <=> LiteralFits(pos)
          /\ Host!ReserveFits(pos, sym.value) <=> ReserveFits(pos, sym.value)
      BY DEF Host!LiteralFits, LiteralFits, Host!ReserveFits, ReserveFits
    <2> HIDE DEF e, eob, rung, taken, lane, sym
    <2> QED BY <1>0, <1>8, <1>9, <2>1, <2>2, <2>3 DEF Host!Symbol
  <1>11. eob \in Int /\ (eob = NumStreams \/ eob <= hidx) /\ (eob = hidx => rung = "None")
         /\ (eob = NumStreams => hd.eob = NumStreams)
    BY <1>2, <1>5
  <1>12. ModeIn(Round, hidx, sym, rung, eob)
           = IF eob < hidx THEN "idle" ELSE IF eob = hidx THEN "end"
             ELSE IF rung # "None" \/ sym.kind = "literal" THEN "literal" ELSE "reserve"
    <2>1. ~Owes(Round, hidx) /\ Round.d.stage = "symbols"
      BY <1>1, <1>5 DEF Owes
    <2>2. (hidx > eob <=> eob < hidx) /\ (hidx < eob <=> ~(eob < hidx) /\ eob # hidx)
      BY <1>2, <1>11
    <2> HIDE DEF sym, rung, eob
    <2> QED BY Zenon, <2>1, <2>2 DEF ModeIn
  <1>13. /\ e = [hd EXCEPT !.eob = eob, !.out_pos = hd.out_pos + 0] /\ e.eob = eob /\ e.stage = wd.stage
         /\ \A n : /\ Past(n) = [hd EXCEPT !.eob = eob, !.out_pos = hd.out_pos + n]
                   /\ Past(n).eob = eob /\ Past(n).stage = wd.stage
    <2>1. hd.out_pos + 0 = hd.out_pos
      BY <1>2
    <2> HIDE DEF eob
    <2> QED BY <1>1, <1>2, <2>1 DEF Drivers
  <1>14. ComeTo(Round, t, hidx + 1, eob) = [hd EXCEPT !.eob = eob, !.out_pos = hd.out_pos + Claim(x)]
    <2>1. x.pos = PosAt(Round, s, hidx)
      BY <1>1, <1>2, <1>7, ComesTo
    <2>2. hd \in Drivers /\ wd.stage = "symbols"
      BY <1>1, <1>2
    <2> HIDE DEF pos, x, eob
    <2> QED BY <2>1, <2>2, ComesTo
  <1> HIDE DEF t, x, e, eob, rung, Past, sym
  <1>15. \A w : LaneOf(Round, hidx, x) = [Remove(lane, WidthOf(x)) EXCEPT !.copy = CopyOf(Round, hidx, x)]
    BY <1>5 DEF LaneOf
  <1>16. CASE eob < hidx /\ Host!Advance(lane, e) /\ hout' = hout
    <2>1. x.mode = "idle" /\ WhyOf(Round, hidx, x) = "None" /\ Claim(x) = 0
      BY <1>7, <1>12, <1>16 DEF WhyOf, Claim
    <2>2. LaneOf(Round, hidx, x) = lane
      <3>1. WidthOf(x) = 0 /\ CopyOf(Round, hidx, x) = lane.copy
        BY <1>5, <2>1 DEF WidthOf, CopyOf
      <3>2. [Remove(lane, 0) EXCEPT !.copy = lane.copy] = lane
        BY <1>2, KeptWhole
      <3> QED BY <1>15, <3>1, <3>2
    <2>3. e = ComeTo(Round, t, hidx + 1, eob)
      BY <1>13, <1>14, <2>1
    <2>4. hout' = hout /\ x.mode \notin {"literal", "byte", "copy"}
      BY <1>16, <2>1
    <2>5. Host!Advance(LaneOf(Round, hidx, x), e) /\ e.eob = eob /\ e.stage = wd.stage
      BY <1>13, <1>16, <2>2
    <2> HIDE DEF lane, taken, pos
    <2> QED BY <1>6, <2>1, <2>3, <2>4, <2>5, NothingMoves, TeamAdvances
  <1>17. CASE eob = hidx /\ Host!Advance(taken, e) /\ hout' = hout
    <2>1. x.mode = "end" /\ WhyOf(Round, hidx, x) = "None" /\ Claim(x) = 0
      BY <1>2, <1>7, <1>11, <1>12, <1>17 DEF WhyOf, Claim
    <2>2. LaneOf(Round, hidx, x) = taken
      <3>1. WidthOf(x) = sym.width /\ CopyOf(Round, hidx, x) = lane.copy
        BY <1>5, <1>7, <2>1 DEF WidthOf, CopyOf
      <3> QED BY <1>2, <1>15, <3>1, CopyKept
    <2>3. e = ComeTo(Round, t, hidx + 1, eob)
      BY <1>13, <1>14, <2>1
    <2>4. hout' = hout /\ x.mode \notin {"literal", "byte", "copy"}
      BY <1>17, <2>1
    <2>5. Host!Advance(LaneOf(Round, hidx, x), e) /\ e.eob = eob /\ e.stage = wd.stage
      BY <1>13, <1>17, <2>2
    <2> HIDE DEF lane, taken, pos
    <2> QED BY <1>6, <2>1, <2>3, <2>4, <2>5, NothingMoves, TeamAdvances
  <1>18. CASE eob > hidx /\ rung # "None" /\ Host!RefusedStep(rung)
    <2>1. WhyOf(Round, hidx, x) = rung
      BY <1>2, <1>7, <1>11, <1>12, <1>18 DEF WhyOf
    <2> QED BY <1>6, <1>18, <2>1, TeamRefuses
  <1>19. CASE /\ eob > hidx /\ rung = "None" /\ sym.kind = "literal"
              /\ ~LiteralFits(pos) /\ Host!RefusedStep("LiteralPastCap")
    <2>1. WhyOf(Round, hidx, x) = "LiteralPastCap"
      <3>1. x.mode = "literal"
        BY <1>2, <1>7, <1>11, <1>12, <1>19
      <3> QED BY <1>7, <1>19, <3>1 DEF WhyOf
    <2> QED BY <1>6, <1>19, <2>1, TeamRefuses
  <1>20. CASE /\ eob > hidx /\ rung = "None" /\ sym.kind = "length"
              /\ ~ReserveFits(pos, sym.value) /\ Host!RefusedStep("MatchPastCap")
    <2>1. WhyOf(Round, hidx, x) = "MatchPastCap"
      <3>1. x.mode = "reserve"
        BY <1>2, <1>7, <1>11, <1>12, <1>20
      <3> QED BY <1>7, <1>20, <3>1 DEF WhyOf
    <2> QED BY <1>6, <1>20, <2>1, TeamRefuses
  <1>21. CASE /\ eob > hidx /\ rung = "None" /\ sym.kind = "literal" /\ LiteralFits(pos)
              /\ hout' = Host!Write(hout, [p \in {pos} |-> ByteAt(lane)])
              /\ Host!Advance(taken, Past(1))
    <2>1. x.mode = "literal"
      BY <1>2, <1>7, <1>11, <1>12, <1>21
    <2>2. WhyOf(Round, hidx, x) = "None" /\ Claim(x) = 1
      BY <1>7, <1>21, <2>1 DEF WhyOf, Claim
    <2>3. LaneOf(Round, hidx, x) = taken
      <3>1. WidthOf(x) = sym.width /\ CopyOf(Round, hidx, x) = lane.copy
        BY <1>5, <1>7, <2>1 DEF WidthOf, CopyOf
      <3> QED BY <1>2, <1>15, <3>1, CopyKept
    <2>4. Past(1) = ComeTo(Round, t, hidx + 1, eob)
      BY <1>13, <1>14, <2>2
    <2>5. OutOK(HostCopies, pos, hout)
      BY <1>1, <1>2 DEF HostOut, Claimed
    <2>6. /\ Under(hout, hout') /\ pos \in DOMAIN hout' /\ hout'[pos] = ByteAt(lane)
          /\ \A p \in DOMAIN hout' : p \in DOMAIN hout \/ p \in {pos}
      <3> HIDE DEF lane, pos
      <3> QED BY <1>2, <1>21, <2>5, ByteMoves
    <2>7. WrittenOf(Round, hidx, x) = {pos}
      BY <1>7, <2>1 DEF WrittenOf
    <2>8. Wrote(Round, hidx, x, hout') /\ Copied(Round, hidx, x, hout')
      BY <1>5, <2>1, <2>6, <2>7 DEF Wrote, Copied
    <2>9. \A p \in DOMAIN hout' : p \in DOMAIN hout \/ p \in WrittenOf(Round, hidx, x) \cup CopiedOf(Round, hidx, x)
      BY <2>6, <2>7
    <2>10. Host!Advance(LaneOf(Round, hidx, x), Past(1)) /\ Past(1).eob = eob /\ Past(1).stage = wd.stage
      BY <1>13, <1>21, <2>3
    <2> HIDE DEF lane, taken, pos
    <2> QED BY <1>6, <2>2, <2>4, <2>6, <2>8, <2>9, <2>10, TeamAdvances
  <1>22. CASE /\ eob > hidx /\ rung = "None" /\ sym.kind = "length" /\ ReserveFits(pos, sym.value)
              /\ hout' = hout /\ Host!Advance([taken EXCEPT !.copy = claim], Past(sym.value))
    <2>1. x.mode = "reserve"
      BY <1>2, <1>7, <1>11, <1>12, <1>22
    <2>2. WhyOf(Round, hidx, x) = "None" /\ Claim(x) = sym.value
      BY <1>7, <1>22, <2>1 DEF WhyOf, Claim
    <2>3. LaneOf(Round, hidx, x) = [taken EXCEPT !.copy = claim]
      <3>1. WidthOf(x) = sym.width /\ CopyOf(Round, hidx, x) = claim
        BY <1>5, <1>7, <2>1 DEF WidthOf, CopyOf
      <3> QED BY <1>15, <3>1
    <2>4. Past(sym.value) = ComeTo(Round, t, hidx + 1, eob)
      BY <1>13, <1>14, <2>2
    <2>5. /\ Host!Advance(LaneOf(Round, hidx, x), Past(sym.value))
          /\ Past(sym.value).eob = eob /\ Past(sym.value).stage = wd.stage
      BY <1>13, <1>22, <2>3
    <2>6. hout' = hout /\ x.mode \notin {"literal", "byte", "copy"}
      BY <1>22, <2>1
    <2> HIDE DEF lane, taken, pos, claim
    <2> QED BY <1>6, <2>2, <2>4, <2>5, <2>6, NothingMoves, TeamAdvances
  <1> QED BY <1>10, <1>16, <1>17, <1>18, <1>19, <1>20, <1>21, <1>22

LEMMA DrainIdleMoves ==
  ASSUME HostInv, NEW s, TeamAt(s), Host!DrainIdle
  PROVE  RoundMoves
  <1> DEFINE lane == wlanes[hidx]
             x == [mode |-> "idle", sym |-> NoSym, rung |-> "None", pos |-> PosAt(Round, s, hidx)]
             t == WithStep(s, x)
  <1>1. /\ hd.stage = "drain" /\ wd.stage = "drain" /\ hd = wd /\ hlanes[hidx] = lane /\ page' = page
        /\ ~lane.copy.pending /\ Host!Advance(lane, hd) /\ hout' = hout /\ InRound
    BY LaneAsItWas DEF TeamAt, Host!DrainIdle, InRound
  <1>2. lane \in LaneStates /\ hd \in Drivers /\ hidx \in Lane /\ hd.eob \in 0 .. NumStreams
    BY <1>1, LaneInRound DEF Drivers
  <1>3. Round.d = wd /\ Round.lanes = wlanes /\ Team.page = page
    BY DEF Round, Team
  <1>4. /\ x.mode = "idle" /\ x.sym = NoSym /\ x.rung = "None" /\ x.pos = PosAt(Round, s, hidx)
        /\ x = [mode |-> x.mode, sym |-> x.sym, rung |-> x.rung, pos |-> x.pos]
    OBVIOUS
  <1> HIDE DEF x
  <1>5. ~Owes(Round, hidx) /\ ~Reader(Round, hidx)
    BY <1>1, <1>3 DEF Owes, Reader
  <1>6. Resolved(page', Round, hidx, x, hd.eob)
    <2>1. ModeIn(Round, hidx, x.sym, x.rung, hd.eob) = "idle"
      BY <1>1, <1>3, <1>5 DEF ModeIn
    <2> QED BY <1>4, <1>5, <2>1 DEF Resolved
  <1>7. NextLane(Round, Team, s, hidx, hd, page', hd.eob, x, t)
    <2>1. SoFar(Round, Team, s, hidx, hd) /\ Round.d.stage # "symbols"
      BY <1>1, <1>3 DEF TeamAt
    <2>2. \A k \in DOMAIN Team.page : k \in DOMAIN page' /\ page'[k] = Team.page[k]
      BY <1>1, <1>3
    <2> HIDE DEF t
    <2> QED BY <1>2, <1>4, <1>6, <2>1, <2>2 DEF NextLane, t, WithStep
  <1>8. WhyOf(Round, hidx, x) = "None" /\ LaneOf(Round, hidx, x) = lane
    <2>1. WhyOf(Round, hidx, x) = "None" /\ WidthOf(x) = 0 /\ CopyOf(Round, hidx, x) = lane.copy
      BY <1>3, <1>4 DEF WhyOf, WidthOf, CopyOf
    <2>2. [Remove(lane, 0) EXCEPT !.copy = lane.copy] = lane
      BY <1>2, KeptWhole
    <2> QED BY <1>3, <2>1, <2>2 DEF LaneOf
  <1>9. hd = ComeTo(Round, t, hidx + 1, hd.eob)
    BY <1>1, <1>3 DEF ComeTo
  <1> HIDE DEF t, lane
  <1> QED BY <1>1, <1>4, <1>7, <1>8, <1>9, NothingMoves, TeamAdvances

-----------------------------------------------------------------------------
(* The sequential team's turn. *)

LEMMA TeamReadsBits ==
  ASSUME NEW lane, NEW table, page' \in Host!Reads(page, {Host!Bits(lane, table)}, Host!Values)
  PROVE  Host!Bits(lane, table) = Bits(lane, table) /\ Bits(lane, table) \in DOMAIN page'
  <1>1. Host!Bits(lane, table) = Bits(lane, table)
    BY DEF Host!Bits, Bits, Host!Removed, Removed
  <1>2. page' \in Host!Reads(page, {Bits(lane, table)}, Host!Values)
    BY Zenon, <1>1
  <1> QED BY <1>1, <1>2, TeamReads

\* Both teams rest at the same place.
Together ==
  /\ hd = wd /\ hlanes = wlanes /\ hcursor = wcursor /\ hout = wout /\ hwhy = "None"
  /\ hidx = 0 /\ wd \in Drivers /\ wlanes \in [Lane -> LaneStates] /\ wcursor \in Nat

LEMMA HostTogether ==
  ASSUME HostInv, TeamsInv, turn = "host", Between, ~Ended(hd)
  PROVE  Together
  <1>1. hidx = 0 /\ Agree /\ phase = "between" /\ WarpTyped
    BY DEF TeamsInv, Between
  <1>2. hd.stage # "refused"
    BY DEF Ended
  <1>3. wd = hd /\ wlanes = hlanes /\ wcursor = hcursor /\ wout = hout /\ wwhy[0] = hwhy
    BY <1>1, <1>2 DEF Agree
  <1>4. WarpRests
    BY <1>1, <1>2, <1>3 DEF TeamsInv
  <1>5. wwhy[0] = "None"
    BY <1>4, LaneAssumption DEF WarpRests, Lane
  <1>6. wlanes \in [Lane -> LaneStates] /\ wcursor \in Nat
    BY <1>1, <1>2, <1>3 DEF WarpTyped
  <1> QED BY <1>1, <1>3, <1>4, <1>5, <1>6 DEF Together, WarpRests

LEMMA HeaderMoves ==
  ASSUME HostInv, Together, Host!Header
  PROVE  HeaderDone(Round, Team', hd', hwhy') /\ wd.stage = "header"
  <1> DEFINE lane == wlanes[0]
             popped == Remove(lane, HeaderBits)
             short == PopRefuses(lane, HeaderBits)
             rung == IF short = "None" /\ NeedsRefill(popped) /\ wcursor >= WordCount
                     THEN "RefillPastEnd" ELSE short
             header == page'[Bits(lane, "header")]
  <1>1. /\ Round.d = wd /\ Round.lanes = wlanes /\ Round.cursor = wcursor /\ Round.out = wout
        /\ Team'.page = page' /\ Team'.lanes = hlanes' /\ Team'.cursor = hcursor' /\ Team'.out = hout'
    BY DEF Round, Team
  <1>2. /\ hlanes[0] = lane /\ hlanes = wlanes /\ hcursor = wcursor /\ hd = wd /\ hwhy = "None"
        /\ hout = wout /\ wd.stage = "header" /\ hout' = hout
        /\ page' \in Host!Reads(page, {Host!Bits(lane, "header")}, Host!Values)
    BY DEF Together, Host!Header
  <1>3. Host!Bits(lane, "header") = Bits(lane, "header") /\ Bits(lane, "header") \in DOMAIN page'
    BY <1>2, TeamReadsBits
  <1>4. /\ Host!HeaderBits = HeaderBits /\ Host!Remove(lane, HeaderBits) = popped
        /\ Host!PopRefuses(lane, HeaderBits) = short
        /\ (Host!NeedsRefill(popped) <=> NeedsRefill(popped))
        /\ (\A w : Host!RefillLane(popped, w) = RefillLane(popped, w))
        /\ (\A r : Host!RefuseAs("None", r) = r /\ RefuseAs("None", r) = r)
    BY DEF Host!HeaderBits, HeaderBits, Host!Remove, Remove, Host!PopRefuses, PopRefuses,
           Host!NeedsRefill, NeedsRefill, Host!RefillLane, RefillLane, Host!RefuseAs, RefuseAs
  <1>5. /\ \A d : Host!AfterHeader(d, header) = AfterHeader(d, header)
        /\ Host!AfterHeaderWhy(header) = AfterHeaderWhy(header)
    BY DEF Host!AfterHeader, AfterHeader, Host!AfterHeaderWhy, AfterHeaderWhy, Host!NoLane, NoLane
  <1>6. Host!Starved(popped) <=> NeedsRefill(popped) /\ wcursor >= WordCount
    BY Zenon, <1>2, <1>4 DEF Host!Starved
  <1>7. Host!Ensured(popped) = Dealt(popped, wcursor)
        /\ Host!NextCursor(popped) = IF NeedsRefill(popped) THEN wcursor + 1 ELSE wcursor
    BY Zenon, <1>2, <1>4 DEF Host!Ensured, Dealt, Host!NextCursor
  <1>8. \/ rung # "None" /\ Host!Fails(rung)
        \/ /\ rung = "None"
           /\ hlanes' = [wlanes EXCEPT ![0] = Dealt(popped, wcursor)]
           /\ hcursor' = IF NeedsRefill(popped) THEN wcursor + 1 ELSE wcursor
           /\ hd' = AfterHeader([wd EXCEPT !.blocks = @ + 1], header)
           /\ hwhy' = RefuseAs("None", AfterHeaderWhy(header))
    <2>1. rung = IF Host!PopRefuses(lane, Host!HeaderBits) = "None" /\ Host!Starved(Host!Remove(lane, Host!HeaderBits))
                 THEN "RefillPastEnd" ELSE Host!PopRefuses(lane, Host!HeaderBits)
      BY <1>4, <1>6
    <2>2. header = page'[Host!Bits(hlanes[0], "header")] /\ hlanes[0] = lane
      BY <1>2, <1>3
    <2> HIDE DEF lane, popped, short, rung, header
    <2> QED BY <1>2, <1>4, <1>5, <1>7, <2>1, <2>2 DEF Host!Header
  <1> HIDE DEF popped, short, rung, header
  <1>9. CASE rung # "None" /\ Host!Fails(rung)
    <2>1. hd'.stage = "refused" /\ hwhy' = rung
      BY <1>2, <1>9, RefusedIs
    <2> QED BY <1>1, <1>2, <1>3, <1>9, <2>1 DEF HeaderDone, rung, short, popped
  <1>10. CASE ~(rung # "None" /\ Host!Fails(rung))
    <2>1. /\ rung = "None"
          /\ hlanes' = [wlanes EXCEPT ![0] = Dealt(popped, wcursor)]
          /\ hcursor' = IF NeedsRefill(popped) THEN wcursor + 1 ELSE wcursor
          /\ hd' = AfterHeader([wd EXCEPT !.blocks = @ + 1], header)
          /\ hwhy' = RefuseAs("None", AfterHeaderWhy(header))
      BY <1>8, <1>10
    <2> QED BY <1>1, <1>2, <1>3, <2>1 DEF HeaderDone, rung, short, popped, header
  <1> QED BY <1>2, <1>9, <1>10

LEMMA BufferedSame == Host!BufferedBits(wlanes) = BufferedBits(wlanes)
  BY DEF Host!BufferedBits, BufferedBits

LEMMA LengthMoves ==
  ASSUME HostInv, Together, Host!StoredLength
  PROVE  LengthDone(Round, Team', hd', hwhy') /\ wd.stage = "length"
  <1> DEFINE lane == wlanes[0]
             short == PopRefuses(lane, LenBits)
             len == page'[Bits(lane, "length")]
             rung == StoredWhy(wd, len, Reachable(wcursor, BufferedBits(wlanes)))
  <1>1. /\ Round.d = wd /\ Round.lanes = wlanes /\ Round.cursor = wcursor /\ Round.out = wout
        /\ Team'.page = page' /\ Team'.lanes = hlanes' /\ Team'.cursor = hcursor' /\ Team'.out = hout'
    BY DEF Round, Team
  <1>2. /\ hlanes[0] = lane /\ hlanes = wlanes /\ hcursor = wcursor /\ hd = wd /\ hwhy = "None"
        /\ hout = wout /\ wd.stage = "length" /\ hout' = hout
        /\ page' \in Host!Reads(page, {Host!Bits(lane, "length")}, Host!Values)
    BY DEF Together, Host!StoredLength
  <1>3. Host!Bits(lane, "length") = Bits(lane, "length") /\ Bits(lane, "length") \in DOMAIN page'
    BY <1>2, TeamReadsBits
  <1>4. /\ Host!Remove(lane, LenBits) = Remove(lane, LenBits)
        /\ Host!PopRefuses(lane, LenBits) = short
        /\ (\A r : Host!RefuseAs("None", r) = r /\ RefuseAs("None", r) = r)
    BY DEF Host!Remove, Remove, Host!PopRefuses, PopRefuses, Host!RefuseAs, RefuseAs
  <1>5. /\ Host!NextBlock(wd) = NextBlock(wd) /\ Host!NextBlockWhy(wd) = NextBlockWhy(wd)
        /\ Host!AfterLength(wd, len) = AfterLength(wd, len)
    <2>1. Host!NextBlock(wd) = NextBlock(wd)
      BY DEF Host!NextBlock, NextBlock, Host!BlockFuel, BlockFuel, Host!MaxLaneBits, MaxLaneBits,
             Host!MinMatchLen, MinMatchLen
    <2> HIDE DEF len
    <2> QED BY Zenon, <2>1 DEF Host!NextBlockWhy, NextBlockWhy, Host!AfterLength, AfterLength
  <1>6. Host!StoredWhy(wd, len, Host!Reachable(wcursor, Host!BufferedBits(wlanes))) = rung
    <2>1. \A n : Host!Reachable(wcursor, n) = Reachable(wcursor, n)
      BY DEF Host!Reachable, Reachable
    <2>2. \A n : Host!StoredWhy(wd, len, n) = StoredWhy(wd, len, n)
      BY DEF Host!StoredWhy, StoredWhy
    <2> QED BY <2>1, <2>2, BufferedSame
  <1>7. \/ short # "None" /\ Host!Fails(short)
        \/ /\ short = "None" /\ rung # "None" /\ Host!Fails(rung)
        \/ /\ short = "None" /\ rung = "None" /\ hcursor' = wcursor
           /\ hlanes' = [wlanes EXCEPT ![0] = Remove(lane, LenBits)]
           /\ hd' = AfterLength(wd, len)
           /\ hwhy' = IF len = 0 THEN RefuseAs("None", NextBlockWhy(wd)) ELSE "None"
    <2>1. len = page'[Host!Bits(hlanes[0], "length")] /\ hlanes[0] = lane
      BY <1>2, <1>3
    <2> HIDE DEF lane, short, rung, len
    <2> QED BY <1>2, <1>4, <1>5, <1>6, <2>1 DEF Host!StoredLength
  <1> HIDE DEF short, rung, len
  <1>8. CASE short # "None" /\ Host!Fails(short)
    <2>1. hd'.stage = "refused" /\ hwhy' = short
      BY <1>2, <1>8, RefusedIs
    <2> QED BY <1>1, <1>2, <1>3, <1>8, <2>1 DEF LengthDone, short
  <1>9. CASE short = "None" /\ rung # "None" /\ Host!Fails(rung)
    <2>1. hd'.stage = "refused" /\ hwhy' = rung
      BY <1>2, <1>9, RefusedIs
    <2> QED BY <1>1, <1>2, <1>3, <1>9, <2>1 DEF LengthDone, short, rung, len
  <1>10. CASE /\ short = "None" /\ rung = "None" /\ hcursor' = wcursor
              /\ hlanes' = [wlanes EXCEPT ![0] = Remove(lane, LenBits)]
              /\ hd' = AfterLength(wd, len)
              /\ hwhy' = IF len = 0 THEN RefuseAs("None", NextBlockWhy(wd)) ELSE "None"
    BY <1>1, <1>2, <1>3, <1>10 DEF LengthDone, short, rung, len
  <1> QED BY <1>2, <1>7, <1>8, <1>9, <1>10

LEMMA RoundBegins ==
  ASSUME HostInv, TeamsInv, turn = "host", hd.stage \in InRounds
  PROVE  \E s : TeamAt(s)
  <1>1. /\ hidx \in Lane /\ hd \in Drivers /\ hidx \in Nat /\ NumStreams \in Nat
        /\ hlanes \in [Lane -> LaneStates]
    BY LaneInRound DEF InRound, InRounds
  <1>2. ~Ended(hd)
    BY DEF Ended, InRounds
  <1>3. Round.d = wd /\ Round.lanes = wlanes /\ Round.cursor = wcursor /\ Round.out = wout
        /\ Team.page = page /\ Team.lanes = hlanes /\ Team.cursor = hcursor /\ Team.out = hout
    BY DEF Round, Team
  <1>4. wcursor \in Nat /\ wlanes \in [Lane -> LaneStates]
    <2>1. wd.stage # "refused"
      BY DEF TeamsInv, Agree, InRounds
    <2> QED BY <2>1 DEF TeamsInv, WarpTyped
  <1>5. ASSUME NEW s, SoFar(Round, Team, s, hidx, hd), hwhy = "None", wd \in Drivers, wd.stage \in InRounds
        PROVE  TeamAt(s)
    <2>1. hd = ComeTo(Round, s, hidx, hd.eob)
      BY <1>5 DEF SoFar
    <2>2. hd.stage = wd.stage /\ (wd.stage # "symbols" => hd = wd)
      BY <1>3, <1>5, <2>1 DEF ComeTo, Drivers
    <2>3. hidx < RoundLanes(wd)
      <3>1. CASE wd.stage = "symbols"
        BY <1>1, <3>1 DEF RoundLanes, Lane
      <3>2. CASE wd.stage = "bytes"
        BY <1>1, <2>2, <3>2 DEF RoundLanes, HostInv, HostPlace
      <3>3. CASE wd.stage = "drain"
        BY <1>1, <2>2, <3>3 DEF RoundLanes, HostInv, HostPlace
      <3> QED BY <1>5, <3>1, <3>2, <3>3 DEF InRounds
    <2> QED BY <1>1, <1>4, <1>5, <2>2, <2>3 DEF TeamAt
  <1>6. CASE ~Between
    <2>1. /\ phase = "between" /\ hwhy = "None" /\ wd.stage \in InRounds
          /\ \E s : SoFar(Round, Team, s, hidx, hd)
      BY <1>6 DEF TeamsInv, InRounds
    <2>2. wd \in Drivers
      BY <2>1 DEF TeamsInv, WarpRests, InRounds
    <2>3. PICK s : SoFar(Round, Team, s, hidx, hd)
      BY <2>1
    <2>4. TeamAt(s)
      BY <1>5, <2>1, <2>2, <2>3
    <2> QED BY <2>4
  <1>7. CASE Between
    <2>1. Together
      BY <1>2, <1>7, HostTogether
    <2>2. /\ hd = wd /\ hlanes = wlanes /\ hcursor = wcursor /\ hout = wout /\ hidx = 0 /\ wd \in Drivers
          /\ hwhy = "None" /\ wd.stage \in InRounds
      BY <2>1 DEF Together
    <2>3. hd = ComeTo(Round, step, 0, hd.eob)
      <3>1. PosAt(Round, step, 0) = wd.out_pos
        BY <1>3 DEF PosAt
      <3>2. wd = [wd EXCEPT !.eob = wd.eob, !.out_pos = wd.out_pos]
        BY <2>2 DEF Drivers
      <3> QED BY <1>3, <2>2, <3>1, <3>2 DEF ComeTo
    <2>4. wd.stage = "symbols" => EndAt(Round, step, 0, hd.eob)
      <3>1. wd.stage = "symbols" => hd.eob = NoLane
        BY <1>1, <2>2, LaneAssumption DEF HostInv, HostPlace, Drivers
      <3>2. hd.eob \in 0 .. NumStreams
        BY <1>1 DEF Drivers
      <3> QED BY <3>1, <3>2 DEF EndAt
    <2>5. \A ls : Takers(ls, 0) = {} /\ Cardinality(Takers(ls, 0)) = 0
      <3>1. \A ls : Takers(ls, 0) = {}
        BY DEF Takers
      <3> QED BY <3>1, FS_EmptySet
    <2>6. hlanes = DealtTo(Lanes(Round, step), 0, wcursor, wlanes)
      <3>1. wlanes = [l \in Lane |-> wlanes[l]]
        BY <1>4
      <3>2. \A l \in Lane : ~(l < 0)
        BY DEF Lane
      <3> QED BY <2>2, <3>1, <3>2 DEF DealtTo
    <2>7. hcursor = wcursor + Cardinality(Takers(Lanes(Round, step), 0))
      BY <1>4, <2>2, <2>5
    <2>8. Under(wout, hout)
      BY <2>2 DEF Under
    <2>9. SoFar(Round, Team, step, 0, hd)
      <3>1. \A l : ~(l \in 0 .. 0 - 1)
        OBVIOUS
      <3> QED BY <1>3, <2>2, <2>3, <2>4, <2>6, <2>7, <2>8, <3>1 DEF SoFar
    <2> QED BY <1>5, <2>2, <2>9
  <1> QED BY <1>6, <1>7

LEMMA WroteFcn ==
  ASSUME NEW out, NEW bytes PROVE IsFcn(Write(out, bytes))
  BY DEF IsFcn, Write

LEMMA HostFcn ==
  ASSUME IsFcn(hout), Host!Step PROVE IsFcn(hout')
  <1>1. \A b : Host!Write(hout, b) = Write(hout, b)
    BY DEF Host!Write, Write
  <1>2. CASE hout' = hout
    BY <1>2
  <1>3. CASE \E b : hout' = Host!Write(hout, b)
    <2>1. PICK b : hout' = Host!Write(hout, b)
      BY <1>3
    <2>2. hout' = Write(hout, b)
      BY <1>1, <2>1
    <2> QED BY <2>2, WroteFcn
  <1>4. \A a, c, e : \E b : Host!CopyForward(hout, a, c, e) = Host!Write(hout, b)
    BY DEF Host!CopyForward
  <1>5. hout' = hout \/ \E b : hout' = Host!Write(hout, b)
    BY <1>4 DEF Host!Step, Host!Header, Host!StoredLength, Host!StoredByte, Host!RetireCopy,
                Host!Symbol, Host!DrainIdle, Host!RefusedStep
  <1> QED BY <1>2, <1>3, <1>5

LEMMA HostTeams ==
  ASSUME HostInv, HostOut, TeamsInv, HostRound
  PROVE  TeamsInv'
  <1>1. turn = "host" /\ phase = "between" /\ Host!Step /\ UNCHANGED warpVars
        /\ turn' = IF hidx' = 0 \/ Ended(hd') THEN "warp" ELSE "host"
    BY DEF HostRound, TeamsInv
  <1>2. /\ wd' = wd /\ wlanes' = wlanes /\ wcursor' = wcursor /\ wwhy' = wwhy /\ wout' = wout
        /\ phase' = phase /\ todo' = todo /\ step' = step
    BY <1>1 DEF warpVars
  <1>3. IsFcn(hout')
    BY <1>1, HostFcn DEF TeamsInv, WarpTyped
  <1>4. WarpTyped' /\ WarpBounded'
    BY <1>2, <1>3 DEF TeamsInv, WarpTyped, WarpBounded
  <1>5. WarpCopies' = WarpCopies /\ Round' = Round
    BY <1>2 DEF WarpCopies, Round
  <1>6. WarpRests' <=> WarpRests
    BY <1>2, <1>5 DEF WarpRests
  <1>7. IF wd'.stage = "refused" THEN \A l \in Lane : wwhy'[l] # "None" ELSE WarpRests'
    BY <1>1, <1>2, <1>6 DEF TeamsInv
  <1>8. Between' => turn' = "warp"
    BY <1>1 DEF Between
  <1>9. turn' = "warp" => Between'
    BY <1>1 DEF Between
  <1> DEFINE Came == /\ turn' = "host" => /\ hwhy' = "None" /\ wd.stage \in InRounds
                                          /\ \E s : SoFar(Round, Team', s, hidx', hd')
                     /\ turn' = "warp" =>
                          \/ wd.stage = "header" /\ HeaderDone(Round, Team', hd', hwhy')
                          \/ wd.stage = "length" /\ LengthDone(Round, Team', hd', hwhy')
                          \/ /\ wd.stage \in InRounds
                             /\ \/ \E s, e : RoundDone(Round, Team', s, e, hd', hwhy')
                                \/ \E s, i, eob : StoppedAt(Round, Team', s, i, eob, hd', hwhy')
  <1>10. ASSUME hd.stage \in {"header", "length"} PROVE Came
    <2>1. hidx = 0 /\ ~Ended(hd)
      BY <1>10 DEF HostInv, HostPlace, Ended
    <2>2. Together
      BY <1>1, <2>1, HostTogether DEF Between
    <2>3. Host!Header \/ Host!StoredLength
      BY <1>1, <1>10 DEF Host!Step, Host!StoredByte, Host!RetireCopy, Host!Symbol, Host!DrainIdle
    <2>4. hidx' = 0
      BY <2>1, <2>3 DEF Host!Header, Host!StoredLength, Host!Fails
    <2>5. turn' = "warp"
      BY <1>1, <2>4
    <2> QED BY Zenon, <2>2, <2>3, <2>5, HeaderMoves, LengthMoves
  <1>11. ASSUME hd.stage \in InRounds PROVE Came
    <2>1. PICK s : TeamAt(s)
      BY <1>1, <1>11, RoundBegins
    <2>2. RoundMoves
      BY <1>1, <1>11, <2>1, StoredByteMoves, RetireCopyMoves, SymbolMoves, DrainIdleMoves
         DEF Host!Step, Host!Header, Host!StoredLength, InRounds
    <2>3. wd.stage \in InRounds
      BY <2>1 DEF TeamAt
    <2>4. CASE \E t, eob : StoppedAt(Round, Team', t, hidx, eob, hd', hwhy')
      <3>1. hd'.stage = "refused"
        BY <2>4 DEF StoppedAt
      <3>2. turn' = "warp"
        BY <1>1, <3>1 DEF Ended
      <3>3. \E t, i, eob : StoppedAt(Round, Team', t, i, eob, hd', hwhy')
        BY Zenon, <2>4
      <3> QED BY Zenon, <2>3, <3>2, <3>3
    <2>5. CASE \E t, e : hidx' = 0 /\ RoundDone(Round, Team', t, e, hd', hwhy')
      <3>1. turn' = "warp"
        BY <1>1, <2>5
      <3> QED BY Zenon, <2>3, <2>5, <3>1
    <2>6. CASE \E t : /\ hidx' # 0 /\ hd'.stage = wd.stage /\ hwhy' = "None"
                      /\ SoFar(Round, Team', t, hidx', hd')
      <3>1. turn' = "host"
        BY <1>1, <2>3, <2>6 DEF Ended, InRounds
      <3> QED BY Zenon, <2>3, <2>6, <3>1
    <2> QED BY Zenon, <2>2, <2>4, <2>5, <2>6 DEF RoundMoves
  <1>12. hd.stage \in {"header", "length"} \cup InRounds
    BY <1>1 DEF Host!Step, Host!Header, Host!StoredLength, Host!StoredByte, Host!RetireCopy, Host!Symbol,
                Host!DrainIdle, InRounds
  <1>13. Came
    BY <1>10, <1>11, <1>12
  <1>14. turn' \in {"host", "warp"} /\ phase' = "between"
    BY <1>1, <1>2
  <1>15. turn' = "warp" => Told'
    BY Zenon, <1>2, <1>5, <1>13 DEF Told, InRounds
  <1>16. turn' = "host" => ~Between' /\ hwhy' = "None" /\ wd'.stage \in InRounds
                           /\ \E s : SoFar(Round', Team', s, hidx', hd')
    BY Zenon, <1>2, <1>5, <1>8, <1>13
  <1> HIDE DEF Came
  <1> QED BY Zenon, <1>4, <1>7, <1>9, <1>14, <1>15, <1>16 DEF TeamsInv, InRounds

-----------------------------------------------------------------------------
(* The warp's turn. *)

Nobody == [l \in Lane |-> "None"]

\* The warp has come back to the sequential team: it rests as that one does.
LEMMA WarpReturns ==
  ASSUME HostInv, HostOut, TeamsInv, UNCHANGED hostVars, Between, turn' = "host", phase' = "between",
         Agree', WarpBounded', IsFcn(wout'),
         hd.stage = "refused" => \A l \in Lane : wwhy'[l] # "None",
         hd.stage # "refused" => wwhy' = Nobody
  PROVE  TeamsInv'
  <1>1. hd' = hd /\ hlanes' = hlanes /\ hcursor' = hcursor /\ hidx' = hidx /\ hwhy' = hwhy /\ hout' = hout
    BY DEF hostVars
  <1>2. Between' /\ IsFcn(hout') /\ wd'.stage = hd.stage
    BY <1>1 DEF Between, TeamsInv, WarpTyped, Agree
  <1>3. CASE hd.stage = "refused"
    <2>1. WarpTyped'
      BY <1>2, <1>3 DEF WarpTyped
    <2> QED BY <1>2, <1>3, <2>1 DEF TeamsInv
  <1>4. CASE hd.stage # "refused"
    <2>1. /\ wd' = hd /\ wlanes' = hlanes /\ wcursor' = hcursor /\ wout' = hout /\ wwhy' = Nobody
      BY <1>1, <1>4 DEF Agree
    <2>2. /\ hd \in Drivers /\ hlanes \in [Lane -> LaneStates] /\ hcursor \in Nat /\ hidx \in Nat
          /\ hd.out_pos \in Nat /\ hd.eob \in Int /\ NumStreams \in Nat
      BY LaneAssumption DEF HostInv, HostTyped, Drivers
    <2>3. WarpTyped'
      <3>1. FirstWords
        BY <1>4 DEF HostOut
      <3>2. wwhy' = [l \in Lane |-> wwhy'[l]]
        BY <2>1 DEF Nobody
      <3> QED BY <1>2, <2>1, <2>2, <3>1, <3>2 DEF WarpTyped, FirstWords
    <2>4. WarpCopies' = HostCopies
      BY <2>1 DEF WarpCopies, HostCopies
    <2>5. Claimed = hd.out_pos /\ (hidx = 0 \/ hd.stage = "ok")
      BY <1>4, <2>2 DEF Claimed, Between, Ended
    <2>6. PlacesOK(HostCopies, 0, hd.out_pos) /\ OutOK(HostCopies, hd.out_pos, hout)
          /\ Retired(HostCopies, hd.stage, hd.eob, 0)
      <3>1. PlacesOK(HostCopies, hidx, hd.out_pos) /\ OutOK(HostCopies, hd.out_pos, hout)
            /\ Retired(HostCopies, hd.stage, hd.eob, hidx)
        BY <1>4, <2>5 DEF HostOut
      <3>2. CASE hidx = 0
        BY <3>1, <3>2
      <3>3. CASE hd.stage = "ok"
        <4>1. \A l \in Lane : ~HostCopies[l].pending
          BY <3>1, <3>3 DEF Retired
        <4> QED BY <3>1, <3>3, <4>1, PlacesNone DEF Retired
      <3> QED BY <2>5, <3>2, <3>3
    <2>7. /\ hd.out_pos <= Cap
          /\ hd.stage = "bytes" => hd.done < hd.len /\ hd.out_pos + hd.len <= Cap + hd.done
      BY DEF HostInv, HostOutput, HostPlace
    <2>8. /\ hd.stage = "symbols" => hd.eob = NoLane
          /\ hd.stage = "drain" => hd.eob \in 1 .. NumStreams - 1
      <3>1. hd.stage = "symbols" => hidx = 0 /\ (hd.eob = NoLane \/ hd.eob < hidx)
        BY <2>5 DEF HostInv, HostPlace
      <3>2. hd.stage = "drain" => hidx = 0 /\ hidx < hd.eob /\ hd.eob < NumStreams
        BY <2>5 DEF HostInv, HostPlace
      <3>3. hd.eob \in 0 .. NumStreams
        BY <2>2 DEF Drivers
      <3> QED BY <2>2, <3>1, <3>2, <3>3
    <2>9. WarpRests'
      BY <2>1, <2>2, <2>4, <2>6, <2>7, <2>8 DEF WarpRests, Nobody
    <2> QED BY <1>2, <1>4, <2>3, <2>9 DEF TeamsInv
  <1> QED BY <1>3, <1>4

\* One lane refuses, and the team with it.
LEMMA UnifyOne ==
  ASSUME NEW w, w = Nobody, NEW rung, rung # "None"
  PROVE  /\ \A l \in Lane : Warp!Unify([w EXCEPT ![0] = rung])[l] = rung
         /\ \A l \in Lane : Warp!Raise(w, rung)[l] = rung
  <1> DEFINE v == [w EXCEPT ![0] = rung]
  <1>1. 0 \in Lane
    BY LaneAssumption DEF Lane
  <1>2. \A l \in Lane : v[l] = IF l = 0 THEN rung ELSE "None"
    BY <1>1 DEF Nobody
  <1>3. v[0] = rung
    BY <1>1, <1>2
  <1> HIDE DEF v
  <1> DEFINE refused == {l \in Warp!Lane : v[l] # "None"}
  <1>4. Warp!Lane = Lane
    BY DEF Warp!Lane, Lane
  <1>5. refused = {0}
    BY <1>1, <1>2, <1>4
  <1>6. Warp!FirstOf(refused) = 0
    BY <1>5 DEF Warp!FirstOf
  <1> HIDE DEF refused
  <1>7. Warp!Unify(v) = [l \in Lane |-> Warp!RefuseAs(v[l], v[0])]
    BY <1>4, <1>5, <1>6 DEF Warp!Unify, refused
  <1>8. \A l \in Lane : Warp!Unify(v)[l] = rung
    BY <1>2, <1>3, <1>7 DEF Warp!RefuseAs
  <1>9. \A l \in Lane : Warp!Raise(w, rung)[l] = rung
    BY <1>4 DEF Warp!Raise, Warp!RefuseAs, Nobody
  <1> QED BY <1>8, <1>9 DEF v

LEMMA RaiseNone == Warp!Raise(Nobody, "None") = Nobody
  <1>1. Warp!Lane = Lane
    BY DEF Warp!Lane, Lane
  <1> QED BY <1>1 DEF Warp!Raise, Warp!RefuseAs, Nobody

LEMMA WarpReadsBits ==
  ASSUME NEW lane, NEW table, Bits(lane, table) \in DOMAIN page,
         page' \in Warp!Reads(page, {Warp!Bits(lane, table)}, Warp!Values)
  PROVE  page'[Warp!Bits(lane, table)] = page[Bits(lane, table)]
  <1>1. Warp!Bits(lane, table) = Bits(lane, table)
    BY DEF Warp!Bits, Bits, Warp!Removed, Removed
  <1> DEFINE these == {Warp!Bits(lane, table)}
  <1>2. Warp!Reads(page, these, Warp!Values) = Reads(page, these, Warp!Values)
    BY DEF Warp!Reads, Reads
  <1>3. page' \in Reads(page, these, Warp!Values)
    BY Zenon, <1>2
  <1> HIDE DEF these
  <1>4. \A k \in DOMAIN page : k \in DOMAIN page' /\ page'[k] = page[k]
    BY <1>3, ReadKeeps
  <1> QED BY <1>1, <1>4

\* Before a header or a stored length, and before a round.
LEMMA WarpBefore ==
  ASSUME HostInv, TeamsInv, turn = "warp", phase = "between", wd.stage # "refused"
  PROVE  /\ Told /\ Between /\ wwhy = Nobody /\ wd \in Drivers /\ wlanes \in [Lane -> LaneStates]
         /\ wcursor \in Nat /\ WarpBounded /\ IsFcn(wout) /\ 0 \in Lane /\ wlanes[0] \in LaneStates
         /\ WarpRests
  <1>1. WarpRests /\ WarpTyped /\ WarpBounded /\ Told /\ Between
    BY DEF TeamsInv
  <1>2. wlanes \in [Lane -> LaneStates] /\ wcursor \in Nat /\ IsFcn(wout)
    BY <1>1 DEF WarpTyped
  <1>3. wwhy = Nobody /\ wd \in Drivers
    BY <1>1 DEF WarpRests, Nobody
  <1>4. 0 \in Lane
    BY LaneAssumption DEF Lane
  <1> QED BY <1>1, <1>2, <1>3, <1>4

LEMMA BoundedKept ==
  ASSUME WarpBounded, wout' = wout, wlanes \in [Lane -> LaneStates], NEW lane, NEW l \in Lane,
         wlanes' = [wlanes EXCEPT ![l] = lane], lane.copy = wlanes[l].copy
  PROVE  WarpBounded'
  <1>1. \A k \in Lane : wlanes'[k].copy = wlanes[k].copy
    OBVIOUS
  <1> QED BY <1>1 DEF WarpBounded

LEMMA DealtCopy ==
  ASSUME NEW lane \in LaneStates, NEW w, NEW c
  PROVE  Dealt(Remove(lane, w), c).copy = lane.copy /\ Remove(lane, w).copy = lane.copy
  BY DEF Dealt, Remove, RefillLane, LaneStates

LEMMA WarpHeader ==
  ASSUME HostInv, HostOut, TeamsInv, turn = "warp", UNCHANGED hostVars, Warp!Header,
         turn' = IF phase' = "between" THEN "host" ELSE "warp"
  PROVE  TeamsInv'
  <1> DEFINE lane == wlanes[0]
             popped == Remove(lane, HeaderBits)
             short == PopRefuses(lane, HeaderBits)
             need == short = "None" /\ NeedsRefill(popped)
             rung == IF need /\ wcursor >= WordCount THEN "RefillPastEnd" ELSE short
             header == page[Bits(lane, "header")]
             next == AfterHeader([wd EXCEPT !.blocks = @ + 1], header)
  <1>1. /\ wd.stage = "header" /\ phase = "between" /\ phase' = "between" /\ turn' = "host"
        /\ wout' = wout /\ todo' = todo /\ step' = step
        /\ page' \in Warp!Reads(page, {Warp!Bits(lane, "header")}, Warp!Values)
    BY DEF Warp!Header
  <1>2. /\ Told /\ Between /\ wwhy = Nobody /\ wd \in Drivers /\ wlanes \in [Lane -> LaneStates]
        /\ wcursor \in Nat /\ WarpBounded /\ IsFcn(wout) /\ 0 \in Lane /\ lane \in LaneStates
    BY <1>1, WarpBefore
  <1>3. HeaderDone(Round, Team, hd, hwhy)
    BY <1>1, <1>2 DEF Told
  <1>4. /\ Round.d = wd /\ Round.lanes = wlanes /\ Round.cursor = wcursor /\ Round.out = wout
        /\ Team.page = page /\ Team.lanes = hlanes /\ Team.cursor = hcursor /\ Team.out = hout
    BY DEF Round, Team
  <1>5. /\ Bits(lane, "header") \in DOMAIN page /\ hout = wout
        /\ \/ rung # "None" /\ hd.stage = "refused" /\ hwhy = rung
           \/ /\ rung = "None" /\ hlanes = [wlanes EXCEPT ![0] = Dealt(popped, wcursor)]
              /\ hcursor = IF NeedsRefill(popped) THEN wcursor + 1 ELSE wcursor
              /\ hd = next /\ hwhy = RefuseAs("None", AfterHeaderWhy(header))
    <2>1. rung = IF short = "None" /\ NeedsRefill(popped) /\ wcursor >= WordCount
                 THEN "RefillPastEnd" ELSE short
      OBVIOUS
    <2> HIDE DEF rung
    <2> QED BY <1>3, <1>4, <2>1 DEF HeaderDone
  <1>6. page'[Warp!Bits(lane, "header")] = header
    BY <1>1, <1>5, WarpReadsBits
  <1>7. /\ Warp!HeaderBits = HeaderBits /\ Warp!Remove(lane, HeaderBits) = popped
        /\ Warp!PopRefuses(lane, HeaderBits) = short
        /\ (Warp!NeedsRefill(popped) <=> NeedsRefill(popped))
        /\ (\A w : Warp!RefillLane(popped, w) = RefillLane(popped, w))
    BY DEF Warp!HeaderBits, HeaderBits, Warp!Remove, Remove, Warp!PopRefuses, PopRefuses,
           Warp!NeedsRefill, NeedsRefill, Warp!RefillLane, RefillLane
  <1>8. /\ \A d : Warp!AfterHeader(d, header) = AfterHeader(d, header) /\ Warp!Refused(d) = Refused(d)
        /\ Warp!AfterHeaderWhy(header) = AfterHeaderWhy(header)
    BY DEF Warp!AfterHeader, AfterHeader, Warp!AfterHeaderWhy, AfterHeaderWhy, Warp!NoLane, NoLane,
           Warp!Refused, Refused
  <1>9. /\ \/ /\ rung # "None" /\ wd' = Refused([wd EXCEPT !.blocks = @ + 1])
              /\ wwhy' = Warp!Unify([wwhy EXCEPT ![0] = rung]) /\ wlanes' = wlanes
           \/ /\ rung = "None"
              /\ wlanes' = [wlanes EXCEPT ![0] = IF need THEN RefillLane(popped, wcursor) ELSE popped]
              /\ wd' = next /\ wwhy' = Warp!Raise(wwhy, AfterHeaderWhy(header))
        /\ wcursor' = IF need THEN wcursor + 1 ELSE wcursor
    <2>1. rung = IF short # "None" THEN short
                 ELSE IF need /\ wcursor >= WordCount THEN "RefillPastEnd" ELSE "None"
      OBVIOUS
    <2> HIDE DEF lane, popped, short, rung, header
    <2> QED BY <1>6, <1>7, <1>8, <2>1 DEF Warp!Header, lane
  <1>10. hd' = hd /\ hlanes' = hlanes /\ hcursor' = hcursor /\ hwhy' = hwhy /\ hout' = hout
    BY DEF hostVars
  <1>11. IsFcn(wout')
    BY <1>1, <1>2
  <1> HIDE DEF rung, header
  <1>12. CASE rung # "None"
    <2>1. /\ wd' = Refused([wd EXCEPT !.blocks = @ + 1]) /\ wlanes' = wlanes
          /\ wwhy' = Warp!Unify([wwhy EXCEPT ![0] = rung])
          /\ hd.stage = "refused" /\ hwhy = rung
      BY <1>5, <1>9, <1>12
    <2>2. wd'.stage = "refused"
      BY <1>2, <2>1 DEF Refused, Drivers
    <2>3. \A l \in Lane : wwhy'[l] = rung
      <3>1. wwhy = Nobody /\ wwhy' = Warp!Unify([wwhy EXCEPT ![0] = rung])
        BY <1>2, <2>1
      <3> QED BY <1>12, <3>1, UnifyOne
    <2>4. Agree'
      BY <1>2, <1>10, <2>1, <2>2, <2>3 DEF Agree
    <2>5. WarpBounded'
      BY <1>1, <1>2, <2>1 DEF WarpBounded
    <2> QED BY <1>1, <1>2, <1>11, <1>12, <2>1, <2>3, <2>4, <2>5, WarpReturns
  <1>13. CASE rung = "None"
    <2>1. short = "None"
      BY <1>13 DEF rung
    <2>2. /\ wlanes' = [wlanes EXCEPT ![0] = Dealt(popped, wcursor)]
          /\ wcursor' = IF NeedsRefill(popped) THEN wcursor + 1 ELSE wcursor
          /\ wd' = next /\ wwhy' = Warp!Raise(wwhy, AfterHeaderWhy(header))
      BY <1>9, <1>13, <2>1 DEF Dealt
    <2>3. /\ hlanes = [wlanes EXCEPT ![0] = Dealt(popped, wcursor)]
          /\ hcursor = IF NeedsRefill(popped) THEN wcursor + 1 ELSE wcursor
          /\ hd = next /\ hwhy = AfterHeaderWhy(header)
      BY <1>5, <1>13 DEF RefuseAs
    <2>4. wd' = hd /\ wlanes' = hlanes /\ wcursor' = hcursor /\ wout' = hout
      <3> HIDE DEF next, popped
      <3> QED BY <1>1, <1>5, <2>2, <2>3
    <2>5. hwhy # "None" => hd.stage = "refused" /\ \A l \in Lane : wwhy'[l] = hwhy
      <3>1. hwhy # "None" => hwhy = "BlockTypeReserved" /\ header.type = "reserved"
        BY <2>3 DEF AfterHeaderWhy
      <3>2. header.type = "reserved" => next.stage = "refused"
        BY <1>2 DEF AfterHeader, Drivers
      <3>3. hwhy # "None" => \A l \in Lane : wwhy'[l] = hwhy
        BY <1>2, <2>2, <2>3, UnifyOne
      <3> QED BY <2>3, <3>1, <3>2, <3>3
    <2>6. hwhy = "None" => wwhy' = Nobody /\ hd.stage # "refused"
      <3>1. hwhy = "None" => header.type # "reserved" /\ wwhy' = Nobody
        BY <1>2, <2>2, <2>3, RaiseNone DEF AfterHeaderWhy
      <3>2. header.type \in BlockTypes
        <4>1. header \in Headers
          <5>1. Bits(lane, "header")[3] = "header"
            BY DEF Bits
          <5>2. header \in Values["header"]
            BY <1>5, <5>1 DEF HostInv, PageOK, header, Tables
          <5> QED BY <5>2 DEF Values
        <4> QED BY <4>1, TeamAssumption
      <3>3. header.type # "reserved" => next.stage # "refused"
        BY <1>2, <3>2 DEF AfterHeader, Drivers, BlockTypes
      <3> QED BY <2>3, <3>1, <3>3
    <2>7. Agree'
      <3>1. wwhy'[0] = hwhy
        BY <1>2, <2>5, <2>6 DEF Nobody
      <3> QED BY <1>10, <2>4, <3>1 DEF Agree
    <2>8. WarpBounded'
      <3>1. Dealt(popped, wcursor).copy = lane.copy
        BY <1>2, DealtCopy
      <3> HIDE DEF popped
      <3> QED BY <1>1, <1>2, <2>2, <3>1, BoundedKept
    <2> QED BY <1>1, <1>2, <1>11, <2>5, <2>6, <2>7, <2>8, WarpReturns
  <1> QED BY <1>12, <1>13

LEMMA WarpLength ==
  ASSUME HostInv, HostOut, TeamsInv, turn = "warp", UNCHANGED hostVars, Warp!StoredLength,
         turn' = IF phase' = "between" THEN "host" ELSE "warp"
  PROVE  TeamsInv'
  <1> DEFINE lane == wlanes[0]
             short == PopRefuses(lane, LenBits)
             len == page[Bits(lane, "length")]
             rung == StoredWhy(wd, len, Reachable(wcursor, BufferedBits(wlanes)))
             why == IF len = 0 THEN NextBlockWhy(wd) ELSE "None"
  <1>1. /\ wd.stage = "length" /\ phase = "between" /\ phase' = "between" /\ turn' = "host"
        /\ wout' = wout /\ wcursor' = wcursor
        /\ page' \in Warp!Reads(page, {Warp!Bits(lane, "length")}, Warp!Values)
    BY DEF Warp!StoredLength
  <1>2. /\ Told /\ Between /\ wwhy = Nobody /\ wd \in Drivers /\ wlanes \in [Lane -> LaneStates]
        /\ wcursor \in Nat /\ WarpBounded /\ IsFcn(wout) /\ 0 \in Lane /\ lane \in LaneStates
    BY <1>1, WarpBefore
  <1>3. LengthDone(Round, Team, hd, hwhy)
    BY <1>1, <1>2 DEF Told
  <1>4. /\ Round.d = wd /\ Round.lanes = wlanes /\ Round.cursor = wcursor /\ Round.out = wout
        /\ Team.page = page /\ Team.lanes = hlanes /\ Team.cursor = hcursor /\ Team.out = hout
    BY DEF Round, Team
  <1>5. /\ Bits(lane, "length") \in DOMAIN page /\ hout = wout
        /\ \/ short # "None" /\ hd.stage = "refused" /\ hwhy = short
           \/ short = "None" /\ rung # "None" /\ hd.stage = "refused" /\ hwhy = rung
           \/ /\ short = "None" /\ rung = "None" /\ hcursor = wcursor
              /\ hlanes = [wlanes EXCEPT ![0] = Remove(lane, LenBits)]
              /\ hd = AfterLength(wd, len) /\ hwhy = why
    <2>1. \A w : RefuseAs("None", w) = w
      BY DEF RefuseAs
    <2> QED BY <1>3, <1>4, <2>1 DEF LengthDone
  <1>6. page'[Warp!Bits(lane, "length")] = len
    BY <1>1, <1>5, WarpReadsBits
  <1>7. Warp!Remove(lane, LenBits) = Remove(lane, LenBits) /\ Warp!PopRefuses(lane, LenBits) = short
        /\ Warp!Refused(wd) = Refused(wd)
    BY DEF Warp!Remove, Remove, Warp!PopRefuses, PopRefuses, Warp!Refused, Refused
  <1>8. /\ Warp!NextBlockWhy(wd) = NextBlockWhy(wd) /\ Warp!AfterLength(wd, len) = AfterLength(wd, len)
    <2>1. Warp!NextBlock(wd) = NextBlock(wd)
      BY DEF Warp!NextBlock, NextBlock, Warp!BlockFuel, BlockFuel, Warp!MaxLaneBits, MaxLaneBits,
             Warp!MinMatchLen, MinMatchLen
    <2> HIDE DEF len
    <2> QED BY Zenon, <2>1 DEF Warp!NextBlockWhy, NextBlockWhy, Warp!AfterLength, AfterLength
  <1>9. Warp!StoredWhy(wd, len, Warp!Reachable(wcursor, Warp!BufferedBits(wlanes))) = rung
    <2>1. \A n : Warp!Reachable(wcursor, n) = Reachable(wcursor, n)
      BY DEF Warp!Reachable, Reachable
    <2>2. \A n : Warp!StoredWhy(wd, len, n) = StoredWhy(wd, len, n)
      BY DEF Warp!StoredWhy, StoredWhy
    <2>3. Warp!BufferedBits(wlanes) = BufferedBits(wlanes)
      BY DEF Warp!BufferedBits, BufferedBits
    <2> QED BY <2>1, <2>2, <2>3
  <1>10. IF short # "None"
           THEN /\ wd' = Refused(wd) /\ wwhy' = Warp!Unify([wwhy EXCEPT ![0] = short])
                /\ wlanes' = wlanes
           ELSE /\ wlanes' = [wlanes EXCEPT ![0] = Remove(lane, LenBits)]
                /\ IF rung # "None"
                     THEN wd' = Refused(wd) /\ wwhy' = Warp!Raise(wwhy, rung)
                     ELSE /\ wd' = AfterLength(wd, len)
                          /\ wwhy' = IF len = 0 THEN Warp!Raise(wwhy, NextBlockWhy(wd)) ELSE wwhy
    <2> HIDE DEF short, rung, len
    <2> QED BY <1>6, <1>7, <1>8, <1>9 DEF Warp!StoredLength
  <1>11. hd' = hd /\ hlanes' = hlanes /\ hcursor' = hcursor /\ hwhy' = hwhy /\ hout' = hout
    BY DEF hostVars
  <1>12. IsFcn(wout') /\ Refused(wd).stage = "refused"
    BY <1>1, <1>2 DEF Refused, Drivers
  <1> HIDE DEF rung, len, short
  <1>13. ASSUME NEW w, w # "None", wd' = Refused(wd), \A l \in Lane : wwhy'[l] = w, hd.stage = "refused",
                hwhy = w, WarpBounded'
         PROVE  TeamsInv'
    <2>1. Agree'
      BY <1>2, <1>11, <1>12, <1>13 DEF Agree
    <2> QED BY <1>1, <1>2, <1>12, <1>13, <2>1, WarpReturns
  <1>14. short = "None" => WarpBounded'
    <2>1. Remove(lane, LenBits).copy = lane.copy
      BY <1>2, DealtCopy
    <2> QED BY <1>1, <1>2, <1>10, <2>1, BoundedKept
  <1>15. CASE short # "None"
    <2>1. /\ wd' = Refused(wd) /\ wwhy' = Warp!Unify([wwhy EXCEPT ![0] = short])
          /\ wlanes' = wlanes /\ hd.stage = "refused" /\ hwhy = short
      BY <1>5, <1>10, <1>15
    <2>2. \A l \in Lane : wwhy'[l] = short
      <3>1. wwhy = Nobody /\ wwhy' = Warp!Unify([wwhy EXCEPT ![0] = short])
        BY <1>2, <2>1
      <3> QED BY <1>15, <3>1, UnifyOne
    <2>3. WarpBounded'
      BY <1>1, <1>2, <2>1 DEF WarpBounded
    <2> QED BY <1>13, <1>15, <2>1, <2>2, <2>3
  <1>16. CASE short = "None" /\ rung # "None"
    <2>1. wd' = Refused(wd) /\ wwhy' = Warp!Raise(wwhy, rung) /\ hd.stage = "refused" /\ hwhy = rung
      BY <1>5, <1>10, <1>16
    <2>2. \A l \in Lane : wwhy'[l] = rung
      <3>1. wwhy = Nobody /\ wwhy' = Warp!Raise(wwhy, rung)
        BY <1>2, <2>1
      <3> QED BY <1>16, <3>1, UnifyOne
    <2> QED BY <1>13, <1>14, <1>16, <2>1, <2>2
  <1>17. CASE short = "None" /\ rung = "None"
    <2>1. /\ wd' = hd /\ wlanes' = hlanes /\ wcursor' = hcursor /\ wout' = hout /\ hwhy = why
          /\ hd = AfterLength(wd, len)
          /\ wwhy' = IF len = 0 THEN Warp!Raise(wwhy, NextBlockWhy(wd)) ELSE wwhy
      BY <1>1, <1>5, <1>10, <1>17
    <2>2. hwhy # "None" => \A l \in Lane : wwhy'[l] = hwhy
      BY <1>2, <2>1, UnifyOne
    <2>3. hwhy = "None" => wwhy' = Nobody
      BY <1>2, <2>1, RaiseNone
    <2>4. hd.stage = "refused" <=> hwhy # "None"
      <3>1. CASE len = 0
        <4>1. hd = NextBlock(wd) /\ hwhy = NextBlockWhy(wd)
          BY <2>1, <3>1 DEF AfterLength
        <4> QED BY <4>1 DEF NextBlockWhy
      <3>2. CASE len # 0
        <4>1. hd = [wd EXCEPT !.stage = "bytes", !.len = len, !.done = 0] /\ hwhy = "None"
          BY <2>1, <3>2 DEF AfterLength
        <4> QED BY <1>2, <4>1 DEF Drivers
      <3> QED BY <3>1, <3>2
    <2>5. Agree'
      <3>1. wwhy'[0] = hwhy
        BY <1>2, <2>2, <2>3 DEF Nobody
      <3> QED BY <1>11, <2>1, <3>1 DEF Agree
    <2> QED BY <1>1, <1>2, <1>12, <1>14, <1>17, <2>2, <2>3, <2>4, <2>5, WarpReturns
  <1> QED BY <1>15, <1>16, <1>17

-----------------------------------------------------------------------------
(* The warp resolves its round. *)

\* What a lane resolves of values the tables allow; eob is the first end of the block.
LEMMA StepKinds ==
  ASSUME NEW q, PageOK(q), NEW r, r.d.stage \in InRounds, NEW l \in Lane, NEW eob \in Int,
         NEW x, Resolved(q, r, l, x, eob),
         r.d.stage = "symbols" => /\ RoundLanes(r.d) = NumStreams
                                  /\ IsEnd(r, l, x) => eob <= l
                                  /\ l = eob => IsEnd(r, l, x)
  PROVE  /\ x.mode \in Modes /\ x.sym.width \in Nat /\ Claim(x) \in Nat
         /\ x.mode = "byte" <=> r.d.stage = "bytes" /\ l \in Turns(r)
         /\ x.mode = "copy" <=> r.d.stage # "bytes" /\ Owes(r, l)
         /\ x.mode = "copy" => x.sym.value \in Nat \ {0}
         /\ x.mode = "reserve" => x.rung = "None" /\ x.sym.value \in Nat \ {0}
         /\ x.mode = "end" => x.rung = "None"
         /\ x.mode \notin {"idle", "byte"} => Reader(r, l) /\ x.rung = StepWhy(r.lanes[l], x.sym)
         /\ l \notin Turns(r) => x.mode = "idle"
         /\ r.d.stage # "symbols" => Claim(x) = 0
  <1> DEFINE key == KeyOf(r, l)
  <1>1. l \in Int /\ NumStreams \in Nat /\ (r.d.stage = "symbols" => l \in Turns(r))
    BY LaneAssumption DEF Lane, Turns
  <1>2. x.mode = ModeIn(r, l, x.sym, x.rung, eob)
    BY DEF Resolved
  <1>3. key[3] = IF Owes(r, l) THEN "dist" ELSE "litlen"
    BY DEF KeyOf, Bits
  <1>4. Reader(r, l) => x.sym \in (IF Owes(r, l) THEN Dists ELSE LitLens)
    <2>1. ASSUME Reader(r, l) PROVE x.sym \in Values[key[3]]
      <3>1. key \in DOMAIN q /\ x.sym = q[key]
        BY <2>1 DEF Resolved
      <3>2. key[3] \in Tables
        BY <1>3 DEF Tables
      <3> QED BY <3>1, <3>2 DEF PageOK
    <2>2. Values["dist"] = Dists /\ Values["litlen"] = LitLens
      BY DEF Values
    <2> HIDE DEF key
    <2> QED BY <1>3, <2>1, <2>2
  <1>5. Reader(r, l) => x.rung = StepWhy(r.lanes[l], x.sym)
    BY DEF Resolved
  <1>6. ~Reader(r, l) => x.sym = NoSym /\ x.rung = "None"
    BY DEF Resolved
  <1>7. x.sym.width \in Nat
    <2>1. CASE Reader(r, l)
      BY <1>4, <2>1, TeamAssumption, LaneAssumption
    <2>2. CASE ~Reader(r, l)
      BY <1>6, <2>2 DEF NoSym
    <2> QED BY <2>1, <2>2
  <1>8. Reader(r, l) /\ ~Owes(r, l) /\ x.rung = "None" =>
          x.sym.kind \in {"literal", "length", "end"} /\ (x.sym.kind = "length" => x.sym.value \in Nat \ {0})
    <2>1. ASSUME Reader(r, l), ~Owes(r, l), x.rung = "None"
          PROVE  x.sym \in LitLens /\ x.sym.kind # "bad"
      BY <1>4, <1>5, <2>1 DEF StepWhy
    <2> QED BY <2>1, TeamAssumption DEF SymbolKinds
  <1>9. Reader(r, l) /\ Owes(r, l) => x.sym.value \in Nat \ {0}
    BY <1>4, TeamAssumption
  <1>10. CASE r.d.stage = "bytes"
    <2>1. x.mode = IF l \in Turns(r) THEN "byte" ELSE "idle"
      BY <1>2, <1>10 DEF ModeIn
    <2> QED BY <1>7, <1>10, <2>1 DEF Modes, Claim
  <1>11. CASE r.d.stage # "bytes" /\ Owes(r, l)
    <2>1. x.mode = "copy"
      BY <1>2, <1>11 DEF ModeIn
    <2>2. Reader(r, l) /\ l \in Turns(r)
      BY <1>11 DEF Reader, Owes, InRounds
    <2> QED BY <1>5, <1>7, <1>9, <1>11, <2>1, <2>2 DEF Modes, Claim
  <1>12. CASE r.d.stage = "drain" /\ ~Owes(r, l)
    <2>1. x.mode = "idle"
      BY <1>2, <1>12 DEF ModeIn
    <2> QED BY <1>7, <1>12, <2>1 DEF Modes, Claim
  <1>13. CASE r.d.stage = "symbols" /\ ~Owes(r, l)
    <2>1. l \in Turns(r) /\ Reader(r, l)
      BY <1>1, <1>13 DEF Reader
    <2>2. CASE l > eob
      <3>1. x.mode = "idle"
        BY <1>2, <1>13, <2>2, <1>1 DEF ModeIn
      <3> QED BY <1>7, <1>13, <2>1, <3>1 DEF Modes, Claim
    <2>3. CASE l = eob
      <3>1. x.mode = "end"
        BY <1>2, <1>13, <2>3, <1>1 DEF ModeIn
      <3>2. x.rung = "None"
        BY <1>13, <2>3 DEF IsEnd
      <3> QED BY <1>5, <1>7, <1>13, <2>1, <3>1, <3>2 DEF Modes, Claim
    <2>4. CASE l < eob
      <3>1. x.mode = IF x.rung # "None" \/ x.sym.kind = "literal" THEN "literal" ELSE "reserve"
        BY <1>2, <1>13, <2>4, <1>1 DEF ModeIn
      <3>2. x.mode = "reserve" => x.rung = "None" /\ x.sym.value \in Nat \ {0}
        <4>1. ~IsEnd(r, l, x)
          BY <1>1, <1>13, <2>4
        <4>2. x.rung = "None" => x.sym.kind # "end"
          BY <1>13, <2>1, <4>1 DEF IsEnd
        <4> QED BY <1>8, <1>13, <2>1, <3>1, <4>2
      <3> QED BY <1>5, <1>7, <1>13, <2>1, <3>1, <3>2 DEF Modes, Claim
    <2> QED BY <1>1, <2>2, <2>3, <2>4
  <1> QED BY <1>10, <1>11, <1>12, <1>13 DEF InRounds

\* Lower lanes' claims, summed.
LEMMA ClaimsBelow ==
  ASSUME NEW s, \A l \in Lane : Claim(s[l]) \in Nat
  PROVE  /\ Warp!ClaimBelow(s, 0) = 0
         /\ \A l \in Lane : /\ Warp!ClaimBelow(s, l) \in Nat
                            /\ Warp!ClaimBelow(s, l + 1) = Warp!ClaimBelow(s, l) + Claim(s[l])
  <1> DEFINE Sum[k \in 0 .. NumStreams] == IF k = 0 THEN 0 ELSE Sum[k - 1] + Warp!ClaimOf(s[k - 1])
             Runs(m) == \E f : f = [k \in 0 .. m |-> IF k = 0 THEN 0 ELSE f[k - 1] + Warp!ClaimOf(s[k - 1])]
             S == {m \in Nat : Runs(m)}
  <1>1. \A x : Warp!ClaimOf(x) = Claim(x)
    BY DEF Warp!ClaimOf, Claim
  <1>2. NumStreams \in Nat /\ (\A l \in Lane : l \in Nat /\ l + 1 \in 0 .. NumStreams /\ l \in 0 .. NumStreams)
        /\ Lane = 0 .. NumStreams - 1
    BY LaneAssumption DEF Lane
  <1>3. 0 \in S
    <2>1. [k \in 0 .. 0 |-> 0] = [k \in 0 .. 0 |-> IF k = 0 THEN 0 ELSE [j \in 0 .. 0 |-> 0][k - 1] + Warp!ClaimOf(s[k - 1])]
      OBVIOUS
    <2> QED BY <2>1
  <1>4. ASSUME NEW m \in S PROVE m + 1 \in S
    <2>1. PICK f : f = [k \in 0 .. m |-> IF k = 0 THEN 0 ELSE f[k - 1] + Warp!ClaimOf(s[k - 1])]
      OBVIOUS
    <2> DEFINE g == [k \in 0 .. m + 1 |-> IF k = m + 1 THEN f[m] + Warp!ClaimOf(s[m]) ELSE f[k]]
    <2>2. ASSUME NEW k \in 0 .. m + 1
          PROVE  g[k] = IF k = 0 THEN 0 ELSE g[k - 1] + Warp!ClaimOf(s[k - 1])
      <3>1. CASE k = m + 1
        BY <3>1
      <3>2. CASE k # m + 1 /\ k # 0
        <4>1. k \in 0 .. m /\ k - 1 \in 0 .. m + 1 /\ k - 1 # m + 1
          BY <3>2
        <4>2. f[k] = f[k - 1] + Warp!ClaimOf(s[k - 1])
          BY <2>1, <3>2, <4>1
        <4> QED BY <3>2, <4>1, <4>2
      <3>3. CASE k = 0
        BY <2>1, <3>3
      <3> QED BY <3>1, <3>2, <3>3
    <2>3. g = [k \in 0 .. m + 1 |-> IF k = 0 THEN 0 ELSE g[k - 1] + Warp!ClaimOf(s[k - 1])]
      BY <2>2
    <2>4. Runs(m + 1)
      <3> HIDE DEF g
      <3> QED BY <2>3
    <2> QED BY <2>4
  <1>5. Runs(NumStreams)
    <2>1. NumStreams \in S
      <3> HIDE DEF S
      <3>1. S \subseteq Nat
        BY DEF S
      <3> QED BY <1>2, <1>3, <1>4, <3>1, Induction
    <2> QED BY <2>1
  <1>6. Sum = [k \in 0 .. NumStreams |-> IF k = 0 THEN 0 ELSE Sum[k - 1] + Warp!ClaimOf(s[k - 1])]
    BY <1>5
  <1>7. \A l : Warp!ClaimBelow(s, l) = Sum[l]
    BY DEF Warp!ClaimBelow, Sum
  <1> HIDE DEF Sum
  <1>8. Sum[0] = 0
    BY <1>2, <1>6
  <1>9. ASSUME NEW l \in Lane PROVE Sum[l + 1] = Sum[l] + Claim(s[l])
    <2>1. l + 1 \in 0 .. NumStreams /\ l + 1 # 0 /\ (l + 1) - 1 = l
      BY <1>2
    <2> QED BY <1>1, <1>6, <2>1
  <1>10. ASSUME NEW l \in Lane PROVE Sum[l] \in Nat
    <2> DEFINE T == {m \in Nat : m \in Lane => Sum[m] \in Nat}
    <2>1. 0 \in T
      BY <1>8
    <2>2. ASSUME NEW m \in T PROVE m + 1 \in T
      <3>1. m + 1 \in Lane => m \in Lane
        BY <1>2
      <3> QED BY <1>9, <3>1
    <2>3. l \in T
      <3> HIDE DEF T
      <3>1. T \subseteq Nat
        BY DEF T
      <3> QED BY <1>2, <2>1, <2>2, <3>1, Induction
    <2> QED BY <2>3
  <1> QED BY <1>7, <1>8, <1>9, <1>10

\* The warp's names for what a lane resolves are the round's.
LEMMA WarpNames ==
  ASSUME wd.stage \in InRounds
  PROVE  /\ Warp!Lane = Lane /\ Warp!NoLane = NoLane /\ Warp!Active = Turns(Round)
         /\ \A l : /\ Warp!Pending(l) <=> Owes(Round, l)
                   /\ Warp!Bits(wlanes[l], Warp!Table(l)) = KeyOf(Round, l)
                   /\ l \in Warp!Reading <=> Reader(Round, l)
         /\ \A l, sym, rung, eob : Warp!ModeOf(l, sym, rung, eob) = ModeIn(Round, l, sym, rung, eob)
         /\ \A l, sym : Warp!StepWhy(wlanes[l], sym) = StepWhy(wlanes[l], sym)
         /\ Warp!NoStep.sym = NoSym
  <1>1. Warp!Lane = Lane /\ Warp!NoLane = NoLane
    BY DEF Warp!Lane, Lane, Warp!NoLane, NoLane
  <1>2. Round.d = wd /\ Round.lanes = wlanes
    BY DEF Round
  <1>3. Warp!RoundLanes(wd) = RoundLanes(wd)
    BY DEF Warp!RoundLanes, RoundLanes
  <1>4. Warp!Active = Turns(Round)
    BY <1>2, <1>3 DEF Warp!Active, Turns
  <1>5. \A l : Warp!Pending(l) <=> Owes(Round, l)
    BY <1>2, <1>4 DEF Warp!Pending, Owes
  <1>6. \A l : Warp!Bits(wlanes[l], Warp!Table(l)) = KeyOf(Round, l)
    <2>1. \A lane, t : Warp!Bits(lane, t) = Bits(lane, t)
      BY DEF Warp!Bits, Bits, Warp!Removed, Removed
    <2>2. \A l : Warp!Table(l) = IF Owes(Round, l) THEN "dist" ELSE "litlen"
      BY <1>5 DEF Warp!Table
    <2> QED BY <1>2, <2>1, <2>2 DEF KeyOf
  <1>7. ASSUME NEW l PROVE l \in Warp!Reading <=> Reader(Round, l)
    BY <1>2, <1>4, <1>5 DEF Warp!Reading, Reader, Owes, InRounds
  <1>8. \A l, sym, rung, eob : Warp!ModeOf(l, sym, rung, eob) = ModeIn(Round, l, sym, rung, eob)
    BY <1>2, <1>4, <1>5 DEF Warp!ModeOf, ModeIn
  <1>9. \A l, sym : Warp!StepWhy(wlanes[l], sym) = StepWhy(wlanes[l], sym)
    BY DEF Warp!StepWhy, StepWhy, Warp!PopRefuses, PopRefuses
  <1>10. Warp!NoStep.sym = NoSym
    BY DEF Warp!NoStep, NoSym
  <1> QED BY <1>1, <1>4, <1>5, <1>6, <1>7, <1>8, <1>9, <1>10

\* The lanes' steps s, of the page q, and where the round's end of block and claims leave
\* the driver.
AllResolved(q, r, s, eob) ==
  /\ eob \in 0 .. NumStreams
  /\ \A l \in Lane : /\ Resolved(q, r, l, s[l], eob)
                     /\ s[l].pos = PosAt(r, s, l) /\ s[l].pos \in Nat
  /\ r.d.stage = "symbols" => EndAt(r, s, NumStreams, eob)
  /\ PosAt(r, s, NumStreams) \in Nat
Driven(r, s, eob) ==
  [r.d EXCEPT !.eob = IF r.d.stage = "symbols" THEN eob ELSE @, !.out_pos = PosAt(r, s, NumStreams)]

LEMMA FirstIs ==
  ASSUME NEW S, S \subseteq Lane, S # {}
  PROVE  FirstOf(S) \in S /\ \A k \in S : FirstOf(S) <= k
  <1> DEFINE R == OpToRel(<, Nat)
  <1>1. IsWellFoundedOn(R, Nat)
    BY NatLessThanWellFounded
  <1>2. \A a, b \in Nat : a < b => <<a, b>> \in R
    BY DEF OpToRel
  <1>3. S \subseteq Nat
    BY DEF Lane
  <1> HIDE DEF R
  <1>4. PICK m \in S : \A a \in S : <<a, m>> \notin R
    BY <1>1, <1>3, WFMin
  <1>5. ASSUME NEW k \in S PROVE m <= k
    <2>1. m \in Nat /\ k \in Nat /\ ~(k < m)
      BY <1>2, <1>3, <1>4
    <2> QED BY <2>1
  <1> QED BY <1>4, <1>5 DEF FirstOf

LEMMA WarpReadsAll ==
  ASSUME PageOK(page), NEW keys, \A k \in keys : k[3] \in Tables,
         page' \in Warp!Reads(page, keys, Warp!Values)
  PROVE  /\ \A k \in DOMAIN page : k \in DOMAIN page' /\ page'[k] = page[k]
         /\ \A k \in keys : k \in DOMAIN page'
         /\ PageOK(page')
  <1>1. Warp!Values = Values /\ Warp!Reads(page, keys, Values) = Reads(page, keys, Values)
    BY DEF Warp!Values, Values, Warp!Reads, Reads
  <1>2. page' \in Reads(page, keys, Values)
    BY <1>1
  <1> QED BY <1>2, ReadKeeps, ReadsAreValues

LEMMA StepRecord ==
  ASSUME NEW m, NEW y, NEW g, NEW p,
         NEW o, o = [mode |-> m, sym |-> y, rung |-> g, pos |-> 0],
         NEW x, x = [o EXCEPT !.pos = p]
  PROVE  x = [mode |-> m, sym |-> y, rung |-> g, pos |-> p] /\ Claim(x) = Claim(o)
  BY DEF Claim

LEMMA ResolveSteps ==
  ASSUME PageOK(page), wd \in Drivers, Warp!Resolve, wlanes \in [Lane -> LaneStates],
         wd.stage = "drain" => wd.eob \in 1 .. NumStreams - 1
  PROVE  /\ \A k \in DOMAIN page : k \in DOMAIN page' /\ page'[k] = page[k]
         /\ PageOK(page')
         /\ \E eob : AllResolved(page', Round, step', eob) /\ wd' = Driven(Round, step', eob)
  <1> DEFINE keys == {Warp!Bits(wlanes[l], Warp!Table(l)) : l \in Warp!Reading}
             sym == [l \in Lane |-> IF Reader(Round, l) THEN page'[KeyOf(Round, l)] ELSE NoSym]
             rung == [l \in Lane |-> IF Reader(Round, l) THEN StepWhy(wlanes[l], sym[l]) ELSE "None"]
             ends == {l \in Lane : Reader(Round, l) /\ ~Owes(Round, l) /\ rung[l] = "None" /\ sym[l].kind = "end"}
             eob == IF ends = {} THEN NoLane ELSE FirstOf(ends)
             s == [l \in Lane |-> [mode |-> ModeIn(Round, l, sym[l], rung[l], eob), sym |-> sym[l],
                                   rung |-> rung[l], pos |-> 0]]
  <1>1. wd.stage \in InRounds
    BY DEF Warp!Resolve, InRounds
  <1>2. Round.d = wd /\ Round.lanes = wlanes
    BY DEF Round
  <1>3. (\A k \in DOMAIN page : k \in DOMAIN page' /\ page'[k] = page[k])
        /\ (\A k \in keys : k \in DOMAIN page') /\ PageOK(page')
    <2>1. page' \in Warp!Reads(page, keys, Warp!Values)
      BY DEF Warp!Resolve
    <2>2. \A k \in keys : k[3] \in Tables
      BY DEF Warp!Bits, Warp!Table, Tables
    <2> HIDE DEF keys
    <2> QED BY <2>1, <2>2, WarpReadsAll
  <1>4. \A l \in Lane : Reader(Round, l) => KeyOf(Round, l) \in DOMAIN page'
    <2>1. ASSUME NEW l \in Lane, Reader(Round, l) PROVE KeyOf(Round, l) \in keys
      BY <1>1, <2>1, WarpNames
    <2> HIDE DEF keys
    <2> QED BY <1>3, <2>1
  <1>5. NumStreams \in Nat /\ NoLane = NumStreams /\ Lane \subseteq Int /\ Lane = 0 .. NumStreams - 1
    BY LaneAssumption DEF Lane, NoLane
  <1>6. \A l \in Lane : sym[l] = (IF Reader(Round, l) THEN page'[KeyOf(Round, l)] ELSE NoSym)
                        /\ rung[l] = (IF Reader(Round, l) THEN StepWhy(wlanes[l], sym[l]) ELSE "None")
    OBVIOUS
  <1>7. eob \in 0 .. NumStreams /\ (eob # NoLane => eob \in ends) /\ (\A l \in ends : eob <= l)
    <2>1. ends \subseteq Lane
      OBVIOUS
    <2> HIDE DEF ends
    <2>2. CASE ends = {}
      BY <1>5, <2>2
    <2>3. CASE ends # {}
      <3>1. FirstOf(ends) \in ends /\ \A l \in ends : FirstOf(ends) <= l
        BY <2>1, <2>3, FirstIs
      <3>2. eob = FirstOf(ends)
        BY <2>3
      <3> HIDE DEF eob
      <3>3. eob \in Lane
        BY <2>1, <3>1, <3>2
      <3> QED BY <1>5, <3>1, <3>2, <3>3
    <2> QED BY <2>2, <2>3
  <1>8. /\ step' = [l \in Lane |-> [s[l] EXCEPT !.pos = wd.out_pos + Warp!ClaimBelow(s, l)]]
        /\ wd' = [wd EXCEPT !.eob = IF wd.stage = "symbols" THEN eob ELSE @,
                            !.out_pos = @ + Warp!ClaimBelow(s, NumStreams)]
    <2> DEFINE wsym == [l \in Warp!Lane |-> IF l \in Warp!Reading
                            THEN page'[Warp!Bits(wlanes[l], Warp!Table(l))] ELSE Warp!NoStep.sym]
               wrung == [l \in Warp!Lane |-> IF l \in Warp!Reading
                            THEN Warp!StepWhy(wlanes[l], wsym[l]) ELSE "None"]
               wends == {l \in Warp!Reading : ~Warp!Pending(l) /\ wrung[l] = "None" /\ wsym[l].kind = "end"}
               weob == IF wends = {} THEN Warp!NoLane ELSE Warp!FirstOf(wends)
               ws == [l \in Warp!Lane |-> [mode |-> Warp!ModeOf(l, wsym[l], wrung[l], weob),
                                           sym |-> wsym[l], rung |-> wrung[l], pos |-> 0]]
    <2>1. wsym = sym
      BY <1>1, WarpNames
    <2> HIDE DEF wsym, sym
    <2>2. wrung = rung
      BY <1>1, <2>1, WarpNames
    <2> HIDE DEF wrung, rung
    <2>3. wends = ends
      <3>1. \A l : l \in Warp!Reading => l \in Lane
        <4>1. \A l : Reader(Round, l) => l \in Lane
          <5>1. RoundLanes(wd) <= NumStreams /\ RoundLanes(wd) \in Int
            BY <1>1, <1>5 DEF RoundLanes, Drivers, InRounds
          <5> QED BY <1>2, <1>5, <5>1 DEF Reader, Turns
        <4> QED BY <1>1, <4>1, WarpNames
      <3> QED BY <1>1, <2>1, <2>2, <3>1, WarpNames
    <2> HIDE DEF wends, ends
    <2>4. weob = eob
      BY <1>1, <2>3, WarpNames DEF Warp!FirstOf, FirstOf
    <2> HIDE DEF weob, eob
    <2>5. ws = s
      BY <1>1, <2>1, <2>2, <2>4, WarpNames
    <2> HIDE DEF ws, s
    <2>6. /\ step' = [l \in Warp!Lane |-> [ws[l] EXCEPT !.pos = wd.out_pos + Warp!ClaimBelow(ws, l)]]
          /\ wd' = [wd EXCEPT !.eob = IF wd.stage = "symbols" THEN weob ELSE @,
                              !.out_pos = @ + Warp!ClaimBelow(ws, NumStreams)]
      BY Zenon DEF Warp!Resolve, ws, weob, wends, wrung, wsym
    <2> QED BY <1>1, <2>4, <2>5, <2>6, WarpNames
  <1> HIDE DEF keys
  <1>9. \A l \in Lane : /\ s[l] = [mode |-> ModeIn(Round, l, sym[l], rung[l], eob), sym |-> sym[l],
                                   rung |-> rung[l], pos |-> 0]
    OBVIOUS
  <1>10. ends = {l \in Lane : Reader(Round, l) /\ ~Owes(Round, l) /\ rung[l] = "None" /\ sym[l].kind = "end"}
    OBVIOUS
  <1> HIDE DEF sym, rung, ends, eob, s
  <1>11. ASSUME NEW l \in Lane
         PROVE  /\ step'[l].pos = wd.out_pos + Warp!ClaimBelow(s, l)
                /\ Resolved(page', Round, l, step'[l], eob)
                /\ IsEnd(Round, l, step'[l]) <=> l \in ends
                /\ Claim(step'[l]) = Claim(s[l])
    <2>0. step'[l] = [s[l] EXCEPT !.pos = wd.out_pos + Warp!ClaimBelow(s, l)]
      BY <1>8
    <2>5. s[l] = [mode |-> ModeIn(Round, l, sym[l], rung[l], eob), sym |-> sym[l],
                  rung |-> rung[l], pos |-> 0]
      BY <1>9
    <2>1. /\ step'[l] = [mode |-> ModeIn(Round, l, sym[l], rung[l], eob), sym |-> sym[l],
                         rung |-> rung[l], pos |-> wd.out_pos + Warp!ClaimBelow(s, l)]
          /\ Claim(step'[l]) = Claim(s[l])
      BY <2>0, <2>5, StepRecord
    <2>2. Resolved(page', Round, l, step'[l], eob)
      BY <1>2, <1>4, <1>6, <2>1 DEF Resolved
    <2>3. IsEnd(Round, l, step'[l]) <=> l \in ends
      BY <1>10, <2>1 DEF IsEnd
    <2> QED BY <2>1, <2>2, <2>3
  <1>12. \A l \in Lane : Claim(s[l]) \in Nat
    <2>1. ASSUME NEW l \in Lane PROVE Claim(step'[l]) \in Nat
      <3>1. wd.stage = "symbols" => /\ RoundLanes(wd) = NumStreams
                                    /\ IsEnd(Round, l, step'[l]) => eob <= l
                                    /\ l = eob => IsEnd(Round, l, step'[l])
        BY <1>5, <1>7, <1>11 DEF RoundLanes
      <3> QED BY <1>1, <1>2, <1>3, <1>5, <1>7, <1>11, <3>1, StepKinds
    <2> QED BY <1>11, <2>1
  <1>13. /\ Warp!ClaimBelow(s, 0) = 0
         /\ \A l \in Lane : /\ Warp!ClaimBelow(s, l) \in Nat
                            /\ Warp!ClaimBelow(s, l + 1) = Warp!ClaimBelow(s, l) + Claim(s[l])
    BY <1>12, ClaimsBelow
  <1>14. \A l \in 0 .. NumStreams : /\ PosAt(Round, step', l) = wd.out_pos + Warp!ClaimBelow(s, l)
                                    /\ Warp!ClaimBelow(s, l) \in Nat
    <2>1. ASSUME NEW l \in 0 .. NumStreams, l # 0
          PROVE  /\ PosAt(Round, step', l) = wd.out_pos + Warp!ClaimBelow(s, l)
                 /\ Warp!ClaimBelow(s, l) \in Nat
      <3>1. l - 1 \in Lane /\ (l - 1) + 1 = l
        BY <1>5, <2>1
      <3>2. PosAt(Round, step', l) = step'[l - 1].pos + Claim(step'[l - 1])
        BY <2>1 DEF PosAt
      <3>3. step'[l - 1].pos = wd.out_pos + Warp!ClaimBelow(s, l - 1) /\ Claim(step'[l - 1]) = Claim(s[l - 1])
        BY <1>11, <3>1
      <3>4. /\ Warp!ClaimBelow(s, l - 1) \in Nat /\ Claim(s[l - 1]) \in Nat
            /\ Warp!ClaimBelow(s, l) = Warp!ClaimBelow(s, l - 1) + Claim(s[l - 1])
        BY <1>12, <1>13, <3>1
      <3>5. wd.out_pos \in Nat
        BY DEF Drivers
      <3> QED BY <3>2, <3>3, <3>4, <3>5
    <2>2. PosAt(Round, step', 0) = wd.out_pos + Warp!ClaimBelow(s, 0) /\ Warp!ClaimBelow(s, 0) \in Nat
      <3>1. PosAt(Round, step', 0) = wd.out_pos /\ wd.out_pos \in Nat
        BY <1>2 DEF PosAt, Drivers
      <3> QED BY <1>13, <3>1
    <2> QED BY <2>1, <2>2
  <1>15. \A l \in Lane : step'[l].pos = PosAt(Round, step', l) /\ step'[l].pos \in Nat
    <2>1. wd.out_pos \in Nat
      BY DEF Drivers
    <2> QED BY SMTT(20), <1>5, <1>11, <1>14, <2>1
  <1>16. EndAt(Round, step', NumStreams, eob)
    <2>1. \A l \in 0 .. NumStreams - 1 : IsEnd(Round, l, step'[l]) => eob <= l
      BY <1>5, <1>7, <1>11
    <2>2. eob # NoLane => eob \in 0 .. NumStreams - 1 /\ IsEnd(Round, eob, step'[eob])
      <3>1. ends \subseteq Lane
        BY <1>10
      <3> QED BY <1>5, <1>7, <1>11, <3>1
    <2> QED BY <1>7, <2>1, <2>2 DEF EndAt
  <1>17. PosAt(Round, step', NumStreams) \in Nat /\ wd' = Driven(Round, step', eob)
    <2>1. NumStreams \in 0 .. NumStreams /\ wd.out_pos \in Nat
      BY <1>5 DEF Drivers
    <2>2. PosAt(Round, step', NumStreams) = wd.out_pos + Warp!ClaimBelow(s, NumStreams)
          /\ Warp!ClaimBelow(s, NumStreams) \in Nat
      BY <1>14, <2>1
    <2>3. wd' = [wd EXCEPT !.eob = IF wd.stage = "symbols" THEN eob ELSE @,
                           !.out_pos = PosAt(Round, step', NumStreams)]
      BY <1>8, <2>2
    <2> QED BY <1>2, <2>1, <2>2, <2>3 DEF Driven
  <1>18. AllResolved(page', Round, step', eob)
    BY <1>7, <1>11, <1>15, <1>16, <1>17 DEF AllResolved
  <1> QED BY <1>3, <1>17, <1>18

\* What a lane resolves is a matter of the page and of where the block ends.
LEMMA SameSymbol ==
  ASSUME NEW p, NEW q, \A k \in DOMAIN p : k \in DOMAIN q /\ q[k] = p[k],
         NEW r, NEW l, NEW x, NEW f, NEW y, NEW g, Resolved(p, r, l, x, f), Resolved(q, r, l, y, g)
  PROVE  x.sym = y.sym /\ x.rung = y.rung /\ (IsEnd(r, l, x) <=> IsEnd(r, l, y))
  <1>1. x.sym = y.sym
    <2>1. CASE Reader(r, l)
      BY <2>1 DEF Resolved
    <2>2. CASE ~Reader(r, l)
      BY <2>2 DEF Resolved
    <2> QED BY <2>1, <2>2
  <1>2. x.rung = y.rung
    <2>1. CASE Reader(r, l)
      BY <1>1, <2>1 DEF Resolved
    <2>2. CASE ~Reader(r, l)
      BY <2>2 DEF Resolved
    <2> QED BY <2>1, <2>2
  <1> QED BY <1>1, <1>2 DEF IsEnd

SameEnd(r, l, f, g) ==
  r.d.stage = "symbols" => f = g \/ (f \in Int /\ g \in Int /\ l < f /\ l < g)

LEMMA SameStep ==
  ASSUME NEW p, NEW q, \A k \in DOMAIN p : k \in DOMAIN q /\ q[k] = p[k],
         NEW r, r.d.stage \in InRounds, NEW l \in Int, NEW x, NEW f, NEW y, NEW g,
         Resolved(p, r, l, x, f), Resolved(q, r, l, y, g), SameEnd(r, l, f, g), x.pos = y.pos
  PROVE  x = y
  <1>1. x.sym = y.sym /\ x.rung = y.rung
    BY SameSymbol
  <1>2. ModeIn(r, l, x.sym, x.rung, f) = ModeIn(r, l, x.sym, x.rung, g)
    <2>1. CASE f = g
      BY <2>1
    <2>2. CASE r.d.stage = "symbols" /\ f \in Int /\ g \in Int /\ l < f /\ l < g
      BY <2>2 DEF ModeIn
    <2>3. CASE r.d.stage # "symbols"
      BY <2>3 DEF ModeIn, InRounds
    <2> QED BY <2>1, <2>2, <2>3 DEF SameEnd
  <1>3. x.mode = y.mode
    BY <1>1, <1>2 DEF Resolved
  <1>4. x = [mode |-> x.mode, sym |-> x.sym, rung |-> x.rung, pos |-> x.pos]
        /\ y = [mode |-> y.mode, sym |-> y.sym, rung |-> y.rung, pos |-> y.pos]
    BY Zenon DEF Resolved
  <1> QED BY <1>1, <1>3, <1>4

\* The first n lanes' steps of the page p.
FirstResolved(p, r, s, n, f) ==
  /\ \A l \in 0 .. n - 1 : Resolved(p, r, l, s[l], f) /\ s[l].pos = PosAt(r, s, l)
  /\ r.d.stage = "symbols" => EndAt(r, s, n, f)
ReadOn(p, q) == \A k \in DOMAIN p : k \in DOMAIN q /\ q[k] = p[k]

LEMMA SameSteps ==
  ASSUME NEW p, NEW q, ReadOn(p, q), NEW r, r.d.stage \in InRounds, NEW n \in Nat, n <= NumStreams,
         NEW s, NEW f, FirstResolved(p, r, s, n, f), NEW t, NEW g, AllResolved(q, r, t, g)
  PROVE  /\ \A l \in 0 .. n - 1 : s[l] = t[l]
         /\ r.d.stage = "symbols" => f = g \/ (f = NoLane /\ n <= g)
         /\ PosAt(r, s, n) = PosAt(r, t, n)
  <1>0. /\ \A k \in DOMAIN p : k \in DOMAIN q /\ q[k] = p[k]
        /\ \A l \in 0 .. n - 1 : Resolved(p, r, l, s[l], f) /\ s[l].pos = PosAt(r, s, l)
        /\ r.d.stage = "symbols" => EndAt(r, s, n, f)
    BY DEF ReadOn, FirstResolved
  <1>1. NumStreams \in Nat /\ NoLane = NumStreams /\ Lane = 0 .. NumStreams - 1 /\ g \in 0 .. NumStreams
    BY LaneAssumption DEF Lane, NoLane, AllResolved
  <1>2. \A l \in 0 .. n - 1 : l \in Lane /\ l \in Int
    BY <1>1
  <1>3. \A l \in 0 .. n - 1 : Resolved(q, r, l, t[l], g) /\ t[l].pos = PosAt(r, t, l)
    BY <1>2 DEF AllResolved
  <1>4. \A l \in 0 .. n - 1 : IsEnd(r, l, s[l]) <=> IsEnd(r, l, t[l])
    BY <1>0, <1>2, <1>3, SameSymbol
  <1>5. ASSUME r.d.stage = "symbols"
        PROVE  f \in 0 .. NumStreams /\ (f = g \/ (f = NoLane /\ n <= g))
    <2>1. /\ f \in 0 .. NumStreams /\ (\A l \in 0 .. n - 1 : IsEnd(r, l, s[l]) => f <= l)
          /\ f # NoLane => f \in 0 .. n - 1 /\ IsEnd(r, f, s[f])
      BY <1>0, <1>5 DEF EndAt
    <2>2. /\ \A l \in 0 .. NumStreams - 1 : IsEnd(r, l, t[l]) => g <= l
          /\ g # NoLane => g \in 0 .. NumStreams - 1 /\ IsEnd(r, g, t[g])
      BY <1>5 DEF EndAt, AllResolved
    <2>3. CASE f # NoLane
      <3>1. f \in 0 .. n - 1 /\ IsEnd(r, f, t[f])
        BY <1>4, <2>1, <2>3
      <3>2. g <= f
        BY <1>1, <2>2, <3>1
      <3>3. g \in 0 .. n - 1 /\ IsEnd(r, g, t[g])
        BY <1>1, <2>2, <3>1, <3>2
      <3>4. f <= g
        BY <1>4, <2>1, <3>3
      <3> QED BY <1>1, <2>1, <3>2, <3>4
    <2>4. CASE f = NoLane /\ g < n
      <3>1. g \in 0 .. n - 1 /\ IsEnd(r, g, t[g])
        BY <1>1, <2>2, <2>4
      <3>2. f <= g
        BY <1>4, <2>1, <3>1
      <3> QED BY <1>1, <2>4, <3>2
    <2>5. CASE f = NoLane /\ n <= g
      BY <2>1, <2>5
    <2> QED BY <1>1, <2>3, <2>4, <2>5
  <1>6. ASSUME NEW l \in 0 .. n - 1, s[l].pos = t[l].pos PROVE s[l] = t[l]
    <2>1. SameEnd(r, l, f, g)
      BY <1>1, <1>5 DEF SameEnd
    <2>2. l \in Int /\ Resolved(p, r, l, s[l], f) /\ Resolved(q, r, l, t[l], g) /\ s[l].pos = t[l].pos
      BY <1>0, <1>2, <1>3, <1>6
    <2> DEFINE x == s[l]
               y == t[l]
    <2>3. Resolved(p, r, l, x, f) /\ Resolved(q, r, l, y, g) /\ x.pos = y.pos
      BY <2>2
    <2> HIDE DEF x, y
    <2>4. x = y
      BY <1>0, <2>1, <2>2, <2>3, SameStep
    <2> QED BY <2>4 DEF x, y
  <1>7. ASSUME NEW l \in 0 .. n, l # 0 => s[l - 1] = t[l - 1] PROVE PosAt(r, s, l) = PosAt(r, t, l)
    BY <1>7 DEF PosAt
  <1> DEFINE S == {m \in Nat : m < n => s[m] = t[m]}
  <1>8. 0 \in S
    <2>1. 0 < n => 0 \in 0 .. n - 1
      OBVIOUS
    <2>2. 0 < n => s[0].pos = PosAt(r, s, 0) /\ t[0].pos = PosAt(r, t, 0)
      BY <1>0, <1>3, <2>1
    <2>3. PosAt(r, s, 0) = PosAt(r, t, 0)
      BY DEF PosAt
    <2> QED BY <1>6, <2>1, <2>2, <2>3
  <1>9. ASSUME NEW m \in S PROVE m + 1 \in S
    <2>1. ASSUME m + 1 < n PROVE s[m + 1] = t[m + 1]
      <3>1. m \in Nat /\ m + 1 \in 0 .. n - 1 /\ m + 1 \in 0 .. n /\ m + 1 # 0 /\ (m + 1) - 1 = m
        BY <2>1
      <3>2. s[m] = t[m]
        BY <2>1, <3>1
      <3> DEFINE k == m + 1
      <3>3. k \in 0 .. n - 1 /\ k \in 0 .. n /\ k # 0 /\ s[k - 1] = t[k - 1]
        BY <3>1, <3>2
      <3> HIDE DEF k, S
      <3>4. PosAt(r, s, k) = PosAt(r, t, k)
        BY <1>7, <3>3
      <3>5. s[k].pos = PosAt(r, s, k) /\ t[k].pos = PosAt(r, t, k)
        BY <1>0, <1>3, <3>3
      <3>6. s[k] = t[k]
        BY <1>6, <3>3, <3>4, <3>5
      <3> QED BY <3>6 DEF k
    <2> QED BY <2>1
  <1>10. \A l \in 0 .. n - 1 : s[l] = t[l]
    <2>1. Nat \subseteq S
      <3> HIDE DEF S
      <3>1. S \subseteq Nat
        BY DEF S
      <3> QED BY <1>8, <1>9, <3>1, Induction
    <2> QED BY <2>1
  <1>11. PosAt(r, s, n) = PosAt(r, t, n)
    <2>1. n # 0 => n - 1 \in 0 .. n - 1
      OBVIOUS
    <2> QED BY <1>7, <1>10, <2>1
  <1> QED BY <1>5, <1>10, <1>11

-----------------------------------------------------------------------------
(* The warp's lanes have resolved, and none has committed. *)

Resolves(eob) ==
  /\ WarpRests /\ WarpBounded /\ wlanes \in [Lane -> LaneStates] /\ wcursor \in Nat
  /\ wd.stage \in InRounds /\ wd \in Drivers /\ wwhy = Nobody /\ PageOK(page')
  /\ \A k \in DOMAIN page : k \in DOMAIN page' /\ page'[k] = page[k]
  /\ AllResolved(page', Round, step', eob) /\ wd' = Driven(Round, step', eob)
  /\ phase' = "commit" /\ todo' = Lane
  /\ wlanes' = wlanes /\ wcursor' = wcursor /\ wwhy' = wwhy /\ wout' = wout

LEMMA ResolveIs ==
  ASSUME HostInv, TeamsInv, turn = "warp", Warp!Resolve
  PROVE  \E eob : Resolves(eob)
  <1>1. /\ wd.stage \in InRounds /\ phase = "between" /\ phase' = "commit" /\ todo' = Lane
        /\ wlanes' = wlanes /\ wcursor' = wcursor /\ wwhy' = wwhy /\ wout' = wout
    BY DEF Warp!Resolve, InRounds, Warp!Lane, Lane
  <1>2. wd.stage # "refused"
    BY <1>1 DEF InRounds
  <1>3. /\ wwhy = Nobody /\ wd \in Drivers /\ wlanes \in [Lane -> LaneStates]
        /\ wcursor \in Nat /\ WarpBounded /\ WarpRests
    BY <1>1, <1>2, WarpBefore
  <1>4. PageOK(page) /\ (wd.stage = "drain" => wd.eob \in 1 .. NumStreams - 1)
    BY <1>3 DEF HostInv, WarpRests
  <1>5. /\ \A k \in DOMAIN page : k \in DOMAIN page' /\ page'[k] = page[k]
        /\ PageOK(page')
        /\ \E eob : AllResolved(page', Round, step', eob) /\ wd' = Driven(Round, step', eob)
    BY <1>3, <1>4, ResolveSteps
  <1> QED BY <1>1, <1>3, <1>5 DEF Resolves

LEMMA ResolvedStep ==
  ASSUME NEW eob, Resolves(eob), NEW l \in Lane
  PROVE  /\ step'[l].mode \in Modes /\ step'[l].sym.width \in Nat /\ Claim(step'[l]) \in Nat
         /\ step'[l].pos \in Nat /\ step'[l].pos = PosAt(Round, step', l)
         /\ step'[l].mode = "byte" <=> wd.stage = "bytes" /\ l \in Turns(Round)
         /\ step'[l].mode = "copy" <=> wd.stage # "bytes" /\ Owes(Round, l)
         /\ step'[l].mode = "copy" => step'[l].sym.value \in Nat \ {0}
         /\ step'[l].mode = "reserve" => step'[l].rung = "None" /\ step'[l].sym.value \in Nat \ {0}
         /\ step'[l].mode = "end" => step'[l].rung = "None"
         /\ step'[l].mode \notin {"idle", "byte"} => step'[l].rung = StepWhy(wlanes[l], step'[l].sym)
         /\ l \notin Turns(Round) => step'[l].mode = "idle"
         /\ wd.stage # "symbols" => Claim(step'[l]) = 0
  <1>1. Round.d = wd /\ Round.lanes = wlanes
    BY DEF Round
  <1>2. NumStreams \in Nat /\ NoLane = NumStreams /\ Lane = 0 .. NumStreams - 1 /\ eob \in 0 .. NumStreams
    BY LaneAssumption DEF Lane, NoLane, AllResolved, Resolves
  <1> DEFINE x == step'[l]
  <1>3. Resolved(page', Round, l, x, eob) /\ x.pos = PosAt(Round, step', l) /\ x.pos \in Nat
        /\ PageOK(page') /\ Round.d.stage \in InRounds /\ eob \in Int
    BY <1>1, <1>2 DEF AllResolved, Resolves
  <1>4. Round.d.stage = "symbols" => /\ RoundLanes(Round.d) = NumStreams
                                     /\ IsEnd(Round, l, x) => eob <= l
                                     /\ l = eob => IsEnd(Round, l, x)
    <2>1. ASSUME Round.d.stage = "symbols"
          PROVE  (IsEnd(Round, l, x) => eob <= l) /\ (l = eob => IsEnd(Round, l, x))
      <3>1. EndAt(Round, step', NumStreams, eob)
        BY <2>1 DEF Resolves, AllResolved
      <3> QED BY <1>2, <3>1 DEF EndAt
    <2> QED BY <2>1 DEF RoundLanes
  <1> HIDE DEF x
  <1>5. /\ x.mode \in Modes /\ x.sym.width \in Nat /\ Claim(x) \in Nat
        /\ x.mode = "byte" <=> Round.d.stage = "bytes" /\ l \in Turns(Round)
        /\ x.mode = "copy" <=> Round.d.stage # "bytes" /\ Owes(Round, l)
        /\ x.mode = "copy" => x.sym.value \in Nat \ {0}
        /\ x.mode = "reserve" => x.rung = "None" /\ x.sym.value \in Nat \ {0}
        /\ x.mode = "end" => x.rung = "None"
        /\ x.mode \notin {"idle", "byte"} => x.rung = StepWhy(Round.lanes[l], x.sym)
        /\ l \notin Turns(Round) => x.mode = "idle"
        /\ Round.d.stage # "symbols" => Claim(x) = 0
    BY <1>3, <1>4, StepKinds
  <1> QED BY <1>1, <1>3, <1>5 DEF x

LEMMA ResolvedDriver ==
  ASSUME NEW eob, Resolves(eob)
  PROVE  /\ wd' \in Drivers /\ wd'.stage = wd.stage /\ RoundLanes(wd') = RoundLanes(wd)
         /\ RoundLanes(wd) \in 1 .. NumStreams /\ step'[0].pos = wd.out_pos
         /\ wd.stage # "symbols" => wd' = wd
         /\ wd.stage = "symbols" =>
              wd' = [wd EXCEPT !.eob = eob, !.out_pos = PosAt(Round, step', NumStreams)]
  <1>1. /\ Round.d = wd /\ wd \in Drivers /\ wd.stage \in InRounds
        /\ wd' = Driven(Round, step', eob) /\ PosAt(Round, step', NumStreams) \in Nat
        /\ eob \in 0 .. NumStreams /\ WarpRests
    BY DEF Round, Resolves, AllResolved
  <1>2. NumStreams \in Nat \ {0} /\ 0 \in Lane /\ Lane = 0 .. NumStreams - 1
    BY LaneAssumption DEF Lane
  <1>3. RoundLanes(wd) \in 1 .. NumStreams
    <2>1. wd.stage = "bytes" => wd.done < wd.len
      BY <1>1 DEF WarpRests
    <2>2. wd.stage = "drain" => wd.eob \in 1 .. NumStreams - 1
      BY <1>1 DEF WarpRests
    <2>3. wd.len \in Nat /\ wd.done \in Nat
      BY <1>1 DEF Drivers
    <2> QED BY <1>1, <1>2, <2>1, <2>2, <2>3 DEF InRounds, RoundLanes
  <1>4. step'[0].pos = wd.out_pos
    <2>1. step'[0].pos = PosAt(Round, step', 0)
      BY <1>2, ResolvedStep
    <2> QED BY <1>1, <2>1 DEF PosAt
  <1>5. ASSUME wd.stage = "symbols"
        PROVE  wd' = [wd EXCEPT !.eob = eob, !.out_pos = PosAt(Round, step', NumStreams)]
    BY <1>1, <1>5 DEF Driven
  <1>6. ASSUME wd.stage # "symbols" PROVE wd' = wd
    <2> DEFINE S == {m \in Nat : m <= NumStreams => PosAt(Round, step', m) = wd.out_pos}
    <2>1. 0 \in S
      BY <1>1 DEF PosAt
    <2>2. ASSUME NEW m \in S PROVE m + 1 \in S
      <3>1. ASSUME m + 1 <= NumStreams PROVE PosAt(Round, step', m + 1) = wd.out_pos
        <4>1. m \in Lane /\ m \in Nat /\ m + 1 # 0 /\ (m + 1) - 1 = m
          BY <1>2, <3>1
        <4>2. step'[m].pos = PosAt(Round, step', m) /\ Claim(step'[m]) = 0
          BY <1>6, <4>1, ResolvedStep
        <4>3. PosAt(Round, step', m) = wd.out_pos
          BY <1>2, <4>1
        <4>4. PosAt(Round, step', m + 1) = step'[m].pos + Claim(step'[m])
          BY <4>1 DEF PosAt
        <4>5. wd.out_pos \in Nat
          BY <1>1 DEF Drivers
        <4> QED BY <4>2, <4>3, <4>4, <4>5
      <3> QED BY <3>1
    <2>3. NumStreams \in S
      <3> HIDE DEF S
      <3>1. S \subseteq Nat
        BY DEF S
      <3> QED BY <1>2, <2>1, <2>2, <3>1, Induction
    <2>4. wd' = [wd EXCEPT !.eob = wd.eob, !.out_pos = wd.out_pos]
      <3>1. PosAt(Round, step', NumStreams) = wd.out_pos
        BY <1>2, <2>3
      <3> QED BY <1>1, <1>6, <3>1 DEF Driven
    <2> QED BY <1>1, <2>4 DEF Drivers
  <1>7. wd' \in Drivers /\ wd'.stage = wd.stage /\ RoundLanes(wd') = RoundLanes(wd)
    <2>1. CASE wd.stage = "symbols"
      <3>1. wd'.stage = "symbols" /\ wd' \in Drivers
        BY <1>1, <1>5, <2>1 DEF Drivers
      <3> QED BY <2>1, <3>1 DEF RoundLanes
    <2>2. CASE wd.stage # "symbols"
      BY <1>1, <1>6, <2>2
    <2> QED BY <2>1, <2>2
  <1> QED BY <1>3, <1>4, <1>5, <1>6, <1>7

LEMMA ResolveRests ==
  ASSUME NEW eob, Resolves(eob) PROVE WarpSteps'
  <1>0. NumStreams \in Nat \ {0} /\ Lane = 0 .. NumStreams - 1 /\ 0 \in Lane /\ Cap \in Nat
    BY LaneAssumption, TeamAssumption DEF Lane
  <1>1. /\ Round.d = wd /\ Round.lanes = wlanes /\ wd \in Drivers /\ wd.stage \in InRounds
        /\ phase' = "commit" /\ todo' = Lane /\ wlanes' = wlanes /\ wwhy' = Nobody /\ wout' = wout
        /\ WarpRests /\ wlanes \in [Lane -> LaneStates]
    BY DEF Resolves, Round
  <1>2. /\ wd' \in Drivers /\ wd'.stage = wd.stage /\ RoundLanes(wd') = RoundLanes(wd)
        /\ RoundLanes(wd) \in 1 .. NumStreams /\ step'[0].pos = wd.out_pos
        /\ wd.stage # "symbols" => wd' = wd
    BY ResolvedDriver
  <1>3. /\ PlacesOK(WarpCopies, 0, wd.out_pos) /\ OutOK(WarpCopies, wd.out_pos, wout)
        /\ Retired(WarpCopies, wd.stage, wd.eob, 0) /\ wd.out_pos <= Cap
        /\ wd.stage = "bytes" => wd.done < wd.len /\ wd.out_pos + wd.len <= Cap + wd.done
    BY <1>1 DEF WarpRests
  <1>4. ASSUME NEW l \in Lane
        PROVE  WarpCopies[l] = wlanes[l].copy /\ wlanes[l].copy \in Copies /\ wlanes[l].left \in Nat /\ l \in Nat
    <2>1. wlanes[l] \in LaneStates
      BY <1>1
    <2> QED BY <1>0, <2>1 DEF WarpCopies, LaneStates
  <1>5. ASSUME NEW l \in Lane
        PROVE  step'[l].mode = "copy" <=> wlanes[l].copy.pending
    <2>1. step'[l].mode = "copy" <=> wd.stage # "bytes" /\ l \in Turns(Round) /\ wlanes[l].copy.pending
      BY <1>1, ResolvedStep DEF Owes
    <2>2. wlanes[l].copy.pending => wd.stage # "bytes" /\ l \in Turns(Round)
      <3>1. CASE wd.stage = "bytes"
        BY <1>3, <1>4, <3>1 DEF Retired
      <3>2. CASE wd.stage = "symbols"
        BY <1>0, <1>1, <3>2 DEF Turns, RoundLanes
      <3>3. CASE wd.stage = "drain"
        <4>1. wlanes[l].copy.pending => l < wd.eob
          BY <1>3, <1>4, <3>3 DEF Retired
        <4>2. RoundLanes(wd) = wd.eob /\ wd.eob \in Int
          BY <1>1, <1>0, <3>3 DEF RoundLanes, Drivers
        <4> QED BY <1>1, <1>4, <3>3, <4>1, <4>2 DEF Turns
      <3> QED BY <1>1, <3>1, <3>2, <3>3 DEF InRounds
    <2> QED BY <2>1, <2>2
  <1>6. ASSUME NEW l \in Lane PROVE StepOK(l)'
    <2> DEFINE t == step'[l]
               c == wlanes[l].copy
    <2>1. /\ t.mode \in Modes /\ t.pos \in Nat /\ t.sym.width \in Nat
          /\ t.mode = "copy" => t.sym.value \in Nat \ {0}
          /\ t.mode = "reserve" => t.rung = "None" /\ t.sym.value \in Nat \ {0}
          /\ t.mode = "end" => t.rung = "None"
      BY ResolvedStep
    <2>2. t.mode = "byte" => wd'.stage = "bytes" /\ wd'.out_pos + l < Cap
      <3>1. t.mode = "byte" => wd.stage = "bytes" /\ l \in Turns(Round)
        BY ResolvedStep
      <3>2. ASSUME wd.stage = "bytes", l \in Turns(Round) PROVE wd.out_pos + l < Cap
        <4>1. wd.len \in Nat /\ wd.done \in Nat /\ wd.out_pos \in Nat /\ RoundLanes(wd) \in Int
          BY <1>1, <1>2 DEF Drivers
        <4>2. RoundLanes(wd) <= wd.len - wd.done
          BY <1>0, <3>2, <4>1 DEF RoundLanes
        <4>3. l < RoundLanes(wd) /\ l \in Int
          BY <1>1, <3>2, <4>1 DEF Turns
        <4> QED BY <1>0, <1>3, <3>2, <4>1, <4>2, <4>3
      <3> QED BY <1>2, <3>1, <3>2
    <2>3. t.mode = "copy" <=> c.pending
      BY <1>5
    <2>4. t.rung = "None" /\ t.mode \notin {"idle", "byte"} => t.sym.width <= wlanes[l].left
      <3>1. t.mode \notin {"idle", "byte"} => t.rung = StepWhy(wlanes[l], t.sym)
        BY ResolvedStep
      <3>2. StepWhy(wlanes[l], t.sym) = "None" => ~(t.sym.width > wlanes[l].left)
        BY DEF StepWhy, PopRefuses
      <3>3. t.sym.width \in Nat /\ wlanes[l].left \in Nat
        BY <1>4, <2>1
      <3> HIDE DEF t
      <3> QED BY <3>1, <3>2, <3>3
    <2>5. c.pending => c.length > 0 /\ c.out_pos + c.length <= wd.out_pos /\ c.out_pos + c.length <= Cap
      <3>1. c.pending => c.length > 0 /\ c.out_pos + c.length <= wd.out_pos
        BY <1>3, <1>4 DEF PlacesOK
      <3>2. c.length \in Nat /\ c.out_pos \in Nat /\ wd.out_pos \in Nat
        BY <1>1, <1>4 DEF Copies, Drivers
      <3> QED BY <1>0, <1>3, <3>1, <3>2
    <2> HIDE DEF t, c
    <2>6. t = step'[l] /\ c = wlanes'[l].copy /\ wlanes'[l].left = wlanes[l].left
      BY <1>1 DEF t, c
    <2> QED BY <1>2, <2>1, <2>2, <2>3, <2>4, <2>5, <2>6 DEF StepOK
  <1>7. CopiesInOrder'
    <2>1. ASSUME NEW l \in Lane, NEW k \in Lane, l < k, step'[l].mode = "copy", step'[k].mode = "copy"
          PROVE  wlanes[l].copy.out_pos + wlanes[l].copy.length <= wlanes[k].copy.out_pos
      <3>1. Before(0, l, k)
        BY <1>4, <2>1 DEF Before
      <3> QED BY <1>3, <1>4, <1>5, <2>1, <3>1 DEF PlacesOK
    <2> QED BY <1>1, <2>1 DEF CopiesInOrder
  <1>8. NoHole'
    <2>1. \A p \in DOMAIN wout : wout[p] # Unwritten
      BY <1>3 DEF OutOK
    <2>2. \A l \in Lane : InTodo(l)'
      BY <1>1 DEF InTodo
    <2>3. ASSUME NEW p \in 0 .. step'[0].pos - 1
          PROVE  p \in DOMAIN wout \/ \E l \in Lane : Waits(l)' /\ p \in CopyRange(wlanes[l].copy)
      <3>1. p \in DOMAIN wout \/ Holds(WarpCopies, p)
        BY <1>2, <1>3 DEF OutOK
      <3>2. ASSUME NEW l \in Lane, WarpCopies[l].pending, p \in CopyRange(WarpCopies[l])
            PROVE  Waits(l)' /\ p \in CopyRange(wlanes[l].copy)
        BY <1>1, <1>4, <1>5, <3>2 DEF Waits
      <3> QED BY <3>1, <3>2 DEF Holds
    <2> QED BY <1>1, <2>1, <2>2, <2>3 DEF NoHole
  <1>9. \A l \in Lane : InTodo(l)' => wwhy'[l] = "None"
    BY <1>1 DEF Nobody
  <1> QED BY <1>1, <1>2, <1>6, <1>7, <1>8, <1>9 DEF WarpSteps, InRounds

LEMMA ResolvedNow ==
  ASSUME NEW eob, Resolves(eob), NEW l \in Lane
  PROVE  /\ InTodo(l)' /\ LaneNow(l)' = LaneOf(Round, l, step'[l])
         /\ WhyNow(l)' = WhyOf(Round, l, step'[l])
         /\ StillPuts(l)' = WrittenOf(Round, l, step'[l]) \cup CopiedOf(Round, l, step'[l])
         /\ Wrote(Round, l, step'[l], hout) => Wrote(Round', l, step'[l], hout)
         /\ Copied(Round, l, step'[l], hout) => Copied(Round', l, step'[l], hout)
         /\ l \notin Turns(Round) => /\ LaneOf(Round, l, step'[l]) = wlanes[l]
                                     /\ WhyOf(Round, l, step'[l]) = "None"
                                     /\ Wrote(Round, l, step'[l], hout) /\ Copied(Round, l, step'[l], hout)
  <1>1. /\ Round.d = wd /\ Round.lanes = wlanes /\ Round'.d = wd' /\ Round'.lanes = wlanes
        /\ phase' = "commit" /\ todo' = Lane /\ wlanes' = wlanes
        /\ wlanes \in [Lane -> LaneStates]
    BY DEF Resolves, Round
  <1>2. step'[l].mode = "byte" => wd' = wd
    BY ResolvedStep, ResolvedDriver
  <1>3. InTodo(l)' /\ (Waits(l)' <=> step'[l].mode = "copy")
    BY <1>1 DEF InTodo, Waits
  <1>4. WrittenOf(Round', l, step'[l]) = WrittenOf(Round, l, step'[l])
    <2>1. CASE step'[l].mode = "byte"
      BY <1>1, <1>2, <2>1 DEF WrittenOf
    <2>2. CASE step'[l].mode # "byte"
      BY <2>2 DEF WrittenOf
    <2> QED BY <2>1, <2>2
  <1>5. LaneOf(Round', l, step'[l]) = LaneOf(Round, l, step'[l])
    BY <1>1 DEF LaneOf, CopyOf
  <1>6. WhyOf(Round', l, step'[l]) = WhyOf(Round, l, step'[l])
    BY Zenon, <1>1 DEF WhyOf
  <1>7. LaneNow(l)' = LaneOf(Round, l, step'[l])
    BY <1>3, <1>5 DEF LaneNow
  <1>8. WhyNow(l)' = WhyOf(Round, l, step'[l])
    BY <1>3, <1>6 DEF WhyNow
  <1>9. StillPuts(l)' = WrittenOf(Round, l, step'[l]) \cup CopiedOf(Round, l, step'[l])
    <2>1. StillPuts(l)' = (IF InTodo(l)' THEN WrittenOf(Round', l, step'[l]) ELSE {})
                            \cup (IF Waits(l)' THEN CopyRange(wlanes'[l].copy) ELSE {})
      BY DEF StillPuts
    <2> QED BY <1>1, <1>3, <1>4, <2>1 DEF CopiedOf
  <1>10. Wrote(Round, l, step'[l], hout) => Wrote(Round', l, step'[l], hout)
    BY <1>1, <1>4 DEF Wrote
  <1>11. Copied(Round, l, step'[l], hout) => Copied(Round', l, step'[l], hout)
    BY <1>1 DEF Copied
  <1>12. ASSUME l \notin Turns(Round)
         PROVE  /\ LaneOf(Round, l, step'[l]) = wlanes[l] /\ WhyOf(Round, l, step'[l]) = "None"
                /\ Wrote(Round, l, step'[l], hout) /\ Copied(Round, l, step'[l], hout)
    <2>1. step'[l].mode = "idle"
      BY <1>12, ResolvedStep
    <2>2. WidthOf(step'[l]) = 0 /\ CopyOf(Round, l, step'[l]) = wlanes[l].copy
      BY <1>1, <2>1 DEF WidthOf, CopyOf
    <2>3. wlanes[l] \in LaneStates
      BY <1>1
    <2>4. LaneOf(Round, l, step'[l]) = wlanes[l]
      BY <1>1, <2>2, <2>3, KeptWhole DEF LaneOf
    <2> QED BY <2>1, <2>4 DEF WhyOf, Wrote, WrittenOf, Copied
  <1> QED BY <1>3, <1>7, <1>8, <1>9, <1>10, <1>11, <1>12

LEMMA ResolvedLanes ==
  ASSUME NEW eob, Resolves(eob), NEW s, NEW n \in Nat, n <= NumStreams,
         \A l \in 0 .. n - 1 : s[l] = step'[l]
  PROVE  /\ \A l \in 0 .. n - 1 : LanesNow'[l] = Lanes(Round, s)[l]
         /\ \A l \in 0 .. n : Takers(LanesNow', l) = Takers(Lanes(Round, s), l)
         /\ LanesNow' = [l \in Lane |-> LaneOf(Round, l, step'[l])]
  <1>1. \A l \in 0 .. n - 1 : l \in Lane
    BY LaneAssumption DEF Lane
  <1>2. LanesNow' = [l \in Lane |-> LaneOf(Round, l, step'[l])]
    <2>1. LanesNow' = [l \in Lane |-> LaneNow(l)']
      BY DEF LanesNow
    <2>2. \A l \in Lane : LaneNow(l)' = LaneOf(Round, l, step'[l])
      BY ResolvedNow
    <2> QED BY <2>1, <2>2
  <1>3. \A l \in 0 .. n - 1 : LanesNow'[l] = Lanes(Round, s)[l]
    BY <1>1, <1>2 DEF Lanes
  <1>4. ASSUME NEW l \in 0 .. n PROVE Takers(LanesNow', l) = Takers(Lanes(Round, s), l)
    <2>1. \A k \in 0 .. l - 1 : k \in 0 .. n - 1
      OBVIOUS
    <2> QED BY <1>3, <2>1, TakersSame
  <1> QED BY <1>2, <1>3, <1>4

\* The team ended the round: the warp has resolved what the team did.
LEMMA ResolveAgrees ==
  ASSUME NEW eob, Resolves(eob), UNCHANGED hostVars, NEW s, NEW e, RoundDone(Round, Team, s, e, hd, hwhy)
  PROVE  RoundAgrees'
  <1> DEFINE n == RoundLanes(wd)
  <1>1. /\ Round.d = wd /\ Round.lanes = wlanes /\ Round.cursor = wcursor /\ Round.out = wout
        /\ Team.page = page /\ Team.lanes = hlanes /\ Team.cursor = hcursor /\ Team.out = hout
    BY DEF Round, Team
  <1>2. /\ wd \in Drivers /\ wd.stage \in InRounds /\ wlanes \in [Lane -> LaneStates] /\ wcursor \in Nat
        /\ wout' = wout /\ wcursor' = wcursor /\ wlanes' = wlanes
        /\ AllResolved(page', Round, step', eob)
        /\ \A k \in DOMAIN page : k \in DOMAIN page' /\ page'[k] = page[k]
    BY DEF Resolves
  <1>3. n \in 1 .. NumStreams /\ n \in Nat /\ n <= NumStreams /\ RoundLanes(wd') = n
        /\ NumStreams \in Nat /\ Lane = 0 .. NumStreams - 1 /\ NoLane = NumStreams
    <2>1. n \in 1 .. NumStreams /\ RoundLanes(wd') = n
      BY ResolvedDriver
    <2> HIDE DEF n
    <2> QED BY <2>1, LaneAssumption DEF Lane, NoLane
  <1>4. SoFar(Round, Team, s, n, e) /\ hd = AfterRound(e) /\ hwhy = RefuseAs("None", AfterRoundWhy(e))
    BY <1>1 DEF RoundDone
  <1> HIDE DEF n
  <1>5. /\ \A l \in 0 .. n - 1 :
             /\ Resolved(page, Round, l, s[l], e.eob) /\ s[l].pos = PosAt(Round, s, l)
             /\ WhyOf(Round, l, s[l]) = "None" /\ Wrote(Round, l, s[l], hout) /\ Copied(Round, l, s[l], hout)
        /\ e = ComeTo(Round, s, n, e.eob)
        /\ wd.stage = "symbols" => EndAt(Round, s, n, e.eob)
        /\ hlanes = DealtTo(Lanes(Round, s), n, wcursor, wlanes)
        /\ hcursor = wcursor + Cardinality(Takers(Lanes(Round, s), n))
        /\ Under(wout, hout)
        /\ \A p \in DOMAIN hout : \/ p \in DOMAIN wout
                                  \/ \E l \in 0 .. n - 1 : p \in WrittenOf(Round, l, s[l]) \cup CopiedOf(Round, l, s[l])
    BY <1>1, <1>4 DEF SoFar
  <1>6. /\ \A l \in 0 .. n - 1 : s[l] = step'[l]
        /\ wd.stage = "symbols" => e.eob = eob \/ (e.eob = NoLane /\ n <= eob)
        /\ PosAt(Round, s, n) = PosAt(Round, step', n)
    <2>1. Round.d.stage \in InRounds /\ FirstResolved(page, Round, s, n, e.eob) /\ ReadOn(page, page')
      BY <1>1, <1>2, <1>5 DEF FirstResolved, ReadOn
    <2>2. /\ \A l \in 0 .. n - 1 : s[l] = step'[l]
          /\ Round.d.stage = "symbols" => e.eob = eob \/ (e.eob = NoLane /\ n <= eob)
          /\ PosAt(Round, s, n) = PosAt(Round, step', n)
      BY <1>2, <1>3, <2>1, SameSteps
    <2> QED BY <1>1, <2>2
  <1>7. wd' = e
    <2>1. CASE wd.stage = "symbols"
      <3>1. n = NumStreams
        BY <2>1 DEF n, RoundLanes
      <3>2. eob \in 0 .. NumStreams
        BY <1>2 DEF AllResolved
      <3>3. e.eob = eob
        BY <1>3, <1>6, <2>1, <3>1, <3>2
      <3>4. wd' = [wd EXCEPT !.eob = eob, !.out_pos = PosAt(Round, step', NumStreams)]
        BY <2>1, ResolvedDriver
      <3>5. e = [wd EXCEPT !.eob = e.eob, !.out_pos = PosAt(Round, s, n)]
        BY <1>1, <1>5, <2>1 DEF ComeTo
      <3> QED BY <1>6, <3>1, <3>3, <3>4, <3>5
    <2>2. CASE wd.stage # "symbols"
      <3>1. wd' = wd
        BY <2>2, ResolvedDriver
      <3> QED BY <1>1, <1>5, <2>2, <3>1 DEF ComeTo
    <2> QED BY <2>1, <2>2
  <1>8. /\ \A l \in 0 .. n - 1 : LanesNow'[l] = Lanes(Round, s)[l]
        /\ \A l \in 0 .. n : Takers(LanesNow', l) = Takers(Lanes(Round, s), l)
        /\ LanesNow' = [l \in Lane |-> LaneOf(Round, l, step'[l])]
    BY <1>3, <1>6, ResolvedLanes
  <1>9. \A l \in Lane : l \notin 0 .. n - 1 <=> l \notin Turns(Round)
    BY <1>1 DEF Turns, n
  <1>10. ASSUME NEW l \in Lane
         PROVE  WhyNow(l)' = "None" /\ Wrote(Round, l, step'[l], hout) /\ Copied(Round, l, step'[l], hout)
    <2>1. CASE l \in 0 .. n - 1
      BY <1>5, <1>6, <2>1, ResolvedNow
    <2>2. CASE l \notin 0 .. n - 1
      BY <1>9, <2>2, ResolvedNow
    <2> QED BY <2>1, <2>2
  <1>11. hlanes = DealtTo(LanesNow', n, wcursor, LanesNow')
    <2>1. n \in 0 .. n
      BY <1>3
    <2>2. Takers(LanesNow', n) = Takers(Lanes(Round, s), n)
      BY <1>8, <2>1
    <2>3. ASSUME NEW l \in Lane
          PROVE  (IF l < n THEN Dealt(LanesNow'[l], wcursor + Rank(Takers(LanesNow', n), l)) ELSE LanesNow'[l])
                   = (IF l < n THEN Dealt(Lanes(Round, s)[l], wcursor + Rank(Takers(Lanes(Round, s), n), l)) ELSE wlanes[l])
      <3>1. CASE l < n
        <4>1. l \in 0 .. n - 1
          BY <1>3, <3>1
        <4>2. LanesNow'[l] = Lanes(Round, s)[l]
          BY <1>8, <4>1
        <4> QED BY <2>2, <3>1, <4>2
      <3>2. CASE ~(l < n)
        <4>1. l \notin Turns(Round)
          BY <1>3, <1>9, <3>2
        <4>2. LanesNow'[l] = wlanes[l]
          BY <1>8, <4>1, ResolvedNow
        <4> QED BY <3>2, <4>2
      <3> QED BY <3>1, <3>2
    <2>4. DealtTo(LanesNow', n, wcursor, LanesNow') = DealtTo(Lanes(Round, s), n, wcursor, wlanes)
      BY Zenon, <2>3 DEF DealtTo
    <2> QED BY <1>5, <2>4
  <1>12. hcursor = wcursor + Cardinality(Takers(LanesNow', n))
    <2>1. n \in 0 .. n
      BY <1>3
    <2> QED BY <1>5, <1>8, <2>1
  <1>13. \A p \in DOMAIN hout : p \in DOMAIN wout \/ \E l \in Lane : p \in StillPuts(l)'
    <2>1. ASSUME NEW p \in DOMAIN hout, NEW l \in 0 .. n - 1, p \in WrittenOf(Round, l, s[l]) \cup CopiedOf(Round, l, s[l])
          PROVE  l \in Lane /\ p \in StillPuts(l)'
      <3>1. l \in Lane /\ s[l] = step'[l]
        BY <1>3, <1>6
      <3>2. StillPuts(l)' = WrittenOf(Round, l, step'[l]) \cup CopiedOf(Round, l, step'[l])
        BY <3>1, ResolvedNow
      <3> QED BY <2>1, <3>1, <3>2
    <2> QED BY <1>5, <2>1
  <1>14. \A l \in Lane : Wrote(Round', l, step'[l], hout) /\ Copied(Round', l, step'[l], hout)
    BY <1>10, ResolvedNow
  <1>15. hd' = hd /\ hlanes' = hlanes /\ hcursor' = hcursor /\ hwhy' = hwhy /\ hout' = hout
    BY DEF hostVars
  <1> QED BY <1>2, <1>3, <1>4, <1>5, <1>7, <1>10, <1>11, <1>12, <1>13, <1>14, <1>15 DEF RoundAgrees

\* The team stopped at a lane: the warp has resolved as much.
LEMMA ResolveStops ==
  ASSUME NEW eob, Resolves(eob), UNCHANGED hostVars,
         NEW s, NEW i, NEW f, StoppedAt(Round, Team, s, i, f, hd, hwhy)
  PROVE  i \in Lane /\ StopAgrees(i)'
  <1>1. /\ Round.d = wd /\ Round.lanes = wlanes /\ Round.cursor = wcursor /\ Team.page = page
    BY DEF Round, Team
  <1>2. /\ wd.stage \in InRounds /\ wcursor' = wcursor
        /\ AllResolved(page', Round, step', eob) /\ ReadOn(page, page')
    BY DEF Resolves, ReadOn
  <1>3. /\ i \in Lane /\ i < RoundLanes(wd) /\ hd.stage = "refused"
        /\ \A l \in 0 .. i : Resolved(page, Round, l, s[l], f) /\ s[l].pos = PosAt(Round, s, l)
        /\ wd.stage = "symbols" => EndAt(Round, s, i + 1, f)
        /\ \A l \in 0 .. i - 1 : WhyOf(Round, l, s[l]) = "None"
        /\ StopsAt(Lanes(Round, s), i, wcursor, WhyOf(Round, i, s[i]), hwhy)
    BY <1>1 DEF StoppedAt
  <1>4. /\ NumStreams \in Nat /\ Lane = 0 .. NumStreams - 1 /\ i \in Nat /\ i + 1 \in Nat /\ i + 1 <= NumStreams
        /\ i \in 0 .. (i + 1) - 1 /\ i \in 0 .. i + 1 /\ 0 .. (i + 1) - 1 = 0 .. i
        /\ \A l \in 0 .. i - 1 : l \in 0 .. (i + 1) - 1 /\ l \in Lane
    BY <1>3, LaneAssumption DEF Lane
  <1>5. FirstResolved(page, Round, s, i + 1, f)
    BY <1>1, <1>3, <1>4 DEF FirstResolved
  <1>6. \A l \in 0 .. (i + 1) - 1 : s[l] = step'[l]
    <2>1. Round.d.stage \in InRounds
      BY <1>1, <1>2
    <2> DEFINE n == i + 1
    <2>2. n \in Nat /\ n <= NumStreams /\ FirstResolved(page, Round, s, n, f)
      BY <1>4, <1>5
    <2> HIDE DEF n
    <2>3. \A l \in 0 .. n - 1 : s[l] = step'[l]
      BY <1>2, <2>1, <2>2, SameSteps
    <2> QED BY <2>3 DEF n
  <1>7. /\ \A l \in 0 .. (i + 1) - 1 : LanesNow'[l] = Lanes(Round, s)[l]
        /\ \A l \in 0 .. i + 1 : Takers(LanesNow', l) = Takers(Lanes(Round, s), l)
    BY <1>4, <1>6, ResolvedLanes
  <1>8. \A l \in 0 .. (i + 1) - 1 : WhyNow(l)' = WhyOf(Round, l, s[l])
    BY <1>3, <1>4, <1>6, ResolvedNow
  <1>9. StopsAt(LanesNow', i, wcursor, WhyNow(i)', hwhy)
    <2>1. LanesNow'[i] = Lanes(Round, s)[i] /\ Takers(LanesNow', i) = Takers(Lanes(Round, s), i)
          /\ WhyNow(i)' = WhyOf(Round, i, s[i])
      BY <1>4, <1>7, <1>8
    <2> QED BY <1>3, <2>1 DEF StopsAt
  <1>10. RoundLanes(wd') = RoundLanes(wd)
    BY ResolvedDriver
  <1>11. hd' = hd /\ hwhy' = hwhy
    BY DEF hostVars
  <1>12. \A l \in 0 .. i - 1 : WhyNow(l)' = "None"
    BY <1>3, <1>4, <1>8
  <1> QED BY <1>2, <1>3, <1>9, <1>10, <1>11, <1>12 DEF StopAgrees

LEMMA WarpResolve ==
  ASSUME HostInv, HostOut, TeamsInv, turn = "warp", UNCHANGED hostVars, Warp!Resolve,
         turn' = IF phase' = "between" THEN "host" ELSE "warp"
  PROVE  TeamsInv'
  <1>1. PICK eob : Resolves(eob)
    BY ResolveIs
  <1>2. /\ wd.stage \in InRounds /\ wlanes' = wlanes /\ wcursor' = wcursor /\ wwhy' = Nobody
        /\ wout' = wout /\ phase' = "commit" /\ WarpBounded /\ turn' = "warp" /\ phase = "between"
    BY <1>1 DEF Resolves, Warp!Resolve
  <1>3. WarpTyped /\ Told /\ Between /\ wd.stage # "refused"
    BY <1>2 DEF TeamsInv, InRounds
  <1>4. wd'.stage = wd.stage
    BY <1>1, ResolvedDriver
  <1>5. hd' = hd /\ hout' = hout /\ hidx' = hidx /\ hwhy' = hwhy
    BY DEF hostVars
  <1>6. WarpTyped' /\ WarpBounded' /\ Between'
    BY <1>2, <1>3, <1>4, <1>5 DEF WarpTyped, WarpBounded, Between, Nobody
  <1>7. WarpSteps'
    BY <1>1, ResolveRests
  <1>8. RoundAgrees' \/ \E i \in Lane : StopAgrees(i)'
    <2>1. \/ \E s, e : RoundDone(Round, Team, s, e, hd, hwhy)
          \/ \E s, i, f : StoppedAt(Round, Team, s, i, f, hd, hwhy)
      BY <1>2, <1>3 DEF Told, InRounds
    <2>2. CASE \E s, e : RoundDone(Round, Team, s, e, hd, hwhy)
      <3>1. PICK s, e : RoundDone(Round, Team, s, e, hd, hwhy)
        BY <2>2
      <3> QED BY <1>1, <3>1, ResolveAgrees
    <2>3. CASE \E s, i, f : StoppedAt(Round, Team, s, i, f, hd, hwhy)
      <3>1. PICK s, i, f : StoppedAt(Round, Team, s, i, f, hd, hwhy)
        BY <2>3
      <3> QED BY <1>1, <3>1, ResolveStops
    <2> QED BY <2>1, <2>2, <2>3
  <1> QED BY <1>2, <1>6, <1>7, <1>8 DEF TeamsInv

-----------------------------------------------------------------------------
(* A lane commits. *)

Commits(l) ==
  /\ l \in Lane /\ phase = "commit" /\ l \in todo /\ phase' = phase /\ step' = step /\ todo' = todo \ {l}
  /\ wd' = wd /\ wcursor' = wcursor /\ page' = page
  /\ WarpSteps /\ WarpTyped /\ WarpBounded /\ wlanes \in [Lane -> LaneStates] /\ wcursor \in Nat
Passes(l) ==
  /\ Commits(l) /\ WhyOf(Round, l, step[l]) = "None" /\ wwhy' = wwhy
  /\ wout' = Write(wout, [p \in WrittenOf(Round, l, step[l]) |-> ByteAt(wlanes[l])])
  /\ wlanes' = [wlanes EXCEPT ![l] = LaneOf(Round, l, step[l])]
Balks(l) ==
  /\ Commits(l) /\ WhyOf(Round, l, step[l]) # "None"
  /\ wwhy' = [wwhy EXCEPT ![l] = RefuseAs(@, WhyOf(Round, l, step[l]))]
  /\ wlanes' = wlanes /\ wout' = wout

LEMMA CommitIs ==
  ASSUME TeamsInv, NEW l \in Lane, Warp!Commit(l) PROVE Passes(l) \/ Balks(l)
  <1>1. Round.d = wd /\ Round.lanes = wlanes
    BY DEF Round
  <1>2. /\ phase = "commit" /\ l \in todo /\ phase' = phase /\ step' = step /\ todo' = todo \ {l}
        /\ wd' = wd /\ wcursor' = wcursor /\ page' = page
    BY DEF Warp!Commit
  <1>3. WarpSteps /\ WarpTyped /\ WarpBounded
    BY <1>2 DEF TeamsInv
  <1>4. wlanes \in [Lane -> LaneStates] /\ wcursor \in Nat /\ wwhy = [k \in Lane |-> wwhy[k]]
    BY <1>3 DEF WarpSteps, WarpTyped
  <1>5. Commits(l)
    BY <1>2, <1>3, <1>4 DEF Commits
  <1>6. Warp!CommitWhy(l) = WhyOf(Round, l, step[l])
    <2>1. \A x, w : Warp!PopRefuses(x, w) = PopRefuses(x, w)
      BY DEF Warp!PopRefuses, PopRefuses
    <2>2. \A p, n : (Warp!LiteralFits(p) <=> LiteralFits(p)) /\ (Warp!ReserveFits(p, n) <=> ReserveFits(p, n))
      BY DEF Warp!LiteralFits, LiteralFits, Warp!ReserveFits, ReserveFits
    <2> QED BY Zenon, <1>1, <2>1, <2>2 DEF Warp!CommitWhy, WhyOf
  <1>7. Warp!Width(step[l]) = WidthOf(step[l])
    BY DEF Warp!Width, WidthOf
  <1>8. Warp!CopyAfter(l) = CopyOf(Round, l, step[l])
    BY Zenon, <1>1 DEF Warp!CopyAfter, CopyOf
  <1>9. Warp!WrittenAt(l) = WrittenOf(Round, l, step[l])
    BY Zenon, <1>1 DEF Warp!WrittenAt, WrittenOf
  <1>10. /\ \A o, b : Warp!Write(o, b) = Write(o, b)
         /\ \A x : Warp!ByteAt(x) = ByteAt(x)
         /\ \A x, w : Warp!Remove(x, w) = Remove(x, w)
         /\ \A x, y : Warp!RefuseAs(x, y) = RefuseAs(x, y)
    BY DEF Warp!Write, Write, Warp!ByteAt, ByteAt, Warp!Removed, Removed, Warp!Remove, Remove,
           Warp!RefuseAs, RefuseAs
  <1>11. CASE WhyOf(Round, l, step[l]) # "None"
    <2>1. /\ wwhy' = [wwhy EXCEPT ![l] = Warp!RefuseAs(@, Warp!CommitWhy(l))]
          /\ wlanes' = wlanes /\ wout' = wout
      BY <1>6, <1>11 DEF Warp!Commit
    <2> QED BY <1>5, <1>6, <1>10, <1>11, <2>1 DEF Balks
  <1>12. CASE WhyOf(Round, l, step[l]) = "None"
    <2>1. /\ wout' = Warp!Write(wout, [p \in Warp!WrittenAt(l) |-> Warp!ByteAt(wlanes[l])])
          /\ wlanes' = [wlanes EXCEPT ![l] = [Warp!Remove(@, Warp!Width(step[l])) EXCEPT !.copy = Warp!CopyAfter(l)]]
          /\ wwhy' = wwhy
      BY <1>6, <1>12 DEF Warp!Commit
    <2>2. wout' = Write(wout, [p \in WrittenOf(Round, l, step[l]) |-> ByteAt(wlanes[l])])
      BY <1>9, <1>10, <2>1
    <2>3. wlanes' = [wlanes EXCEPT ![l] = LaneOf(Round, l, step[l])]
      BY <1>1, <1>7, <1>8, <1>10, <2>1 DEF LaneOf
    <2> QED BY <1>5, <1>12, <2>1, <2>2, <2>3 DEF Passes
  <1> QED BY <1>11, <1>12

\* What a lane that passes has done.
LEMMA PassedLane ==
  ASSUME NEW l, Passes(l)
  PROVE  /\ wlanes' \in [Lane -> LaneStates]
         /\ \A k \in Lane \ {l} : wlanes'[k] = wlanes[k]
         /\ wlanes'[l].words = wlanes[l].words
         /\ step[l].mode = "copy" =>
              /\ wlanes'[l].copy.out_pos = wlanes[l].copy.out_pos
              /\ wlanes'[l].copy.length = wlanes[l].copy.length
              /\ step[l].sym.value <= wlanes[l].copy.out_pos
         /\ wlanes'[l].copy.pending => wlanes'[l].copy.out_pos + wlanes'[l].copy.length <= Cap
         /\ WrittenOf(Round, l, step[l]) \subseteq 0 .. Cap - 1
  <1> DEFINE t == step[l]
             lane == wlanes[l]
             c == wlanes[l].copy
  <1>1. /\ Round.d = wd /\ Round.lanes = wlanes /\ l \in Lane /\ lane \in LaneStates /\ InTodo(l)
        /\ wlanes \in [Lane -> LaneStates] /\ wlanes' = [wlanes EXCEPT ![l] = LaneOf(Round, l, t)]
        /\ WhyOf(Round, l, t) = "None" /\ wd \in Drivers
    BY DEF Round, Passes, Commits, InTodo, WarpSteps
  <1>2. StepOK(l) /\ WarpBounded
    BY <1>1 DEF Passes, Commits, WarpSteps
  <1>3. /\ t.mode \in Modes /\ t.pos \in Nat /\ t.sym.width \in Nat
        /\ t.mode = "copy" => t.sym.value \in Nat \ {0}
        /\ t.mode = "reserve" => t.rung = "None" /\ t.sym.value \in Nat \ {0}
        /\ t.mode = "byte" => wd.stage = "bytes" /\ wd.out_pos + l < Cap
        /\ t.rung = "None" /\ t.mode \notin {"idle", "byte"} => t.sym.width <= lane.left
    BY <1>1, <1>2 DEF StepOK
  <1>4. lane.left \in Nat /\ c \in Copies /\ c.out_pos \in Nat /\ c.length \in Nat /\ c.pending \in BOOLEAN
        /\ lane = [words |-> lane.words, left |-> lane.left, copy |-> c]
        /\ lane.words \in Seq(Nat) /\ l \in Nat /\ wd.out_pos \in Nat /\ Cap \in Nat /\ ByteBits \in Nat
    <2>1. c = lane.copy
      OBVIOUS
    <2>2. lane \in LaneStates /\ l \in Lane /\ wd \in Drivers
      BY <1>1
    <2> HIDE DEF lane, c
    <2>3. lane.left \in Nat /\ c \in Copies /\ lane.words \in Seq(Nat)
          /\ lane = [words |-> lane.words, left |-> lane.left, copy |-> c]
      BY <2>1, <2>2 DEF LaneStates
    <2>4. c.out_pos \in Nat /\ c.length \in Nat /\ c.pending \in BOOLEAN
      BY <2>3 DEF Copies
    <2>5. l \in Nat /\ wd.out_pos \in Nat /\ Cap \in Nat /\ ByteBits \in Nat
      BY <2>2, LaneAssumption, TeamAssumption DEF Lane, Drivers
    <2> QED BY <2>3, <2>4, <2>5
  <1> HIDE DEF t, lane, c
  <1>5. /\ t.mode \notin {"idle", "byte"} => t.rung = "None"
        /\ t.mode = "byte" => PopRefuses(lane, ByteBits) = "None"
        /\ t.mode = "copy" => ~(t.sym.value > c.out_pos)
        /\ t.mode = "literal" => LiteralFits(t.pos)
        /\ t.mode = "reserve" => ReserveFits(t.pos, t.sym.value)
    BY <1>1, <1>3 DEF WhyOf, Modes, lane, c
  <1>6. WidthOf(t) \in Nat /\ WidthOf(t) <= lane.left
    BY <1>3, <1>4, <1>5 DEF WidthOf, PopRefuses
  <1>7. /\ t.mode = "copy" => CopyOf(Round, l, t) = [c EXCEPT !.pending = FALSE]
        /\ t.mode = "reserve" => CopyOf(Round, l, t) = [pending |-> TRUE, length |-> t.sym.value, out_pos |-> t.pos]
        /\ t.mode \notin {"copy", "reserve"} => CopyOf(Round, l, t) = c
    BY <1>1 DEF CopyOf, c
  <1>8. c = [pending |-> c.pending, length |-> c.length, out_pos |-> c.out_pos]
    BY <1>4 DEF Copies
  <1>9. /\ CopyOf(Round, l, t) \in Copies
        /\ CopyOf(Round, l, t).pending => CopyOf(Round, l, t).out_pos + CopyOf(Round, l, t).length <= Cap
        /\ t.mode = "copy" => /\ CopyOf(Round, l, t).out_pos = c.out_pos
                              /\ CopyOf(Round, l, t).length = c.length
    <2>1. CASE t.mode = "copy"
      <3>1. CopyOf(Round, l, t) = [pending |-> FALSE, length |-> c.length, out_pos |-> c.out_pos]
        BY <1>7, <1>8, <2>1
      <3> QED BY <1>4, <3>1 DEF Copies
    <2>2. CASE t.mode = "reserve"
      <3>1. t.sym.value \in Nat /\ t.pos \in Nat /\ t.pos <= Cap /\ t.sym.value <= Cap - t.pos
        BY <1>3, <1>5, <2>2 DEF ReserveFits
      <3>2. t.pos + t.sym.value <= Cap
        BY <1>4, <3>1
      <3>3. CopyOf(Round, l, t) = [pending |-> TRUE, length |-> t.sym.value, out_pos |-> t.pos]
        BY <1>7, <2>2
      <3>4. CopyOf(Round, l, t) \in Copies
        BY <3>1, <3>3 DEF Copies
      <3>5. CopyOf(Round, l, t).out_pos + CopyOf(Round, l, t).length <= Cap
        BY <3>1, <3>2, <3>3
      <3> QED BY <2>2, <3>4, <3>5
    <2>3. CASE t.mode \notin {"copy", "reserve"}
      <3>1. c.pending => c.out_pos + c.length <= Cap
        BY <1>1, <1>2 DEF WarpBounded, c
      <3> QED BY <1>4, <1>7, <2>3, <3>1
    <2> QED BY <2>1, <2>2, <2>3
  <1>10. LaneOf(Round, l, t) = [words |-> lane.words, left |-> lane.left - WidthOf(t), copy |-> CopyOf(Round, l, t)]
    <2>1. LaneOf(Round, l, t) = [[lane EXCEPT !.left = @ - WidthOf(t)] EXCEPT !.copy = CopyOf(Round, l, t)]
      BY <1>1 DEF LaneOf, Remove, lane
    <2> QED BY <1>4, <2>1
  <1>11. wlanes'[l] = LaneOf(Round, l, t) /\ \A k \in Lane \ {l} : wlanes'[k] = wlanes[k]
    BY <1>1
  <1>12. LaneOf(Round, l, t) \in LaneStates
    BY <1>4, <1>6, <1>9, <1>10 DEF LaneStates
  <1>13. wlanes' \in [Lane -> LaneStates]
    BY <1>1, <1>12
  <1>14. WrittenOf(Round, l, t) \subseteq 0 .. Cap - 1
    <2>1. t.mode = "literal" => t.pos < Cap
      BY <1>5 DEF LiteralFits
    <2> QED BY <1>1, <1>3, <1>4, <2>1 DEF WrittenOf
  <1>15. t.mode = "copy" => t.sym.value <= c.out_pos
    BY <1>3, <1>4, <1>5
  <1>16. /\ wlanes'[l].words = lane.words /\ wlanes'[l].copy = CopyOf(Round, l, t)
    BY <1>10, <1>11
  <1> QED BY <1>9, <1>11, <1>13, <1>14, <1>15, <1>16 DEF t, lane, c

LEMMA PassKeeps ==
  ASSUME NEW l, Passes(l), IsFcn(hout), UNCHANGED hostVars
  PROVE  WarpTyped' /\ WarpBounded'
  <1>1. /\ wlanes \in [Lane -> LaneStates] /\ wcursor' = wcursor /\ wcursor \in Nat /\ WarpTyped /\ WarpBounded
        /\ wd.stage # "refused" /\ wd' = wd /\ wwhy' = wwhy /\ l \in Lane /\ hout' = hout
        /\ wout' = Write(wout, [p \in WrittenOf(Round, l, step[l]) |-> ByteAt(wlanes[l])])
    BY DEF Passes, Commits, WarpSteps, hostVars
  <1>2. /\ wlanes' \in [Lane -> LaneStates]
        /\ \A k \in Lane \ {l} : wlanes'[k] = wlanes[k]
        /\ wlanes'[l].words = wlanes[l].words
        /\ wlanes'[l].copy.pending => wlanes'[l].copy.out_pos + wlanes'[l].copy.length <= Cap
        /\ WrittenOf(Round, l, step[l]) \subseteq 0 .. Cap - 1
    BY PassedLane
  <1>3. WarpTyped'
    <2>1. \A k \in Lane : wlanes[k].words # <<>> /\ wlanes[k].words[1] = k
      BY <1>1 DEF WarpTyped
    <2>2. ASSUME NEW k \in Lane PROVE wlanes'[k].words # <<>> /\ wlanes'[k].words[1] = k
      <3>1. wlanes'[k].words = wlanes[k].words
        BY <1>2
      <3> QED BY <2>1, <3>1
    <2>3. IsFcn(wout')
      BY <1>1, WroteFcn
    <2>4. wwhy = [k \in Lane |-> wwhy[k]]
      BY <1>1 DEF WarpTyped
    <2> QED BY <1>1, <1>2, <2>2, <2>3, <2>4 DEF WarpTyped
  <1>4. WarpBounded'
    <2>1. DOMAIN wout' \subseteq 0 .. Cap - 1
      <3>1. DOMAIN wout' = DOMAIN wout \cup WrittenOf(Round, l, step[l])
        BY <1>1 DEF Write
      <3> QED BY <1>1, <1>2, <3>1 DEF WarpBounded
    <2>2. \A k \in Lane : wlanes'[k].copy.pending => wlanes'[k].copy.out_pos + wlanes'[k].copy.length <= Cap
      BY <1>1, <1>2 DEF WarpBounded
    <2> QED BY <2>1, <2>2 DEF WarpBounded
  <1> QED BY <1>3, <1>4

LEMMA CommitSteps ==
  ASSUME NEW l, Passes(l) \/ Balks(l)
  PROVE  WarpSteps'
  <1>1. /\ Commits(l) /\ l \in Lane /\ wd' = wd /\ step' = step /\ todo' = todo \ {l} /\ phase = "commit"
        /\ phase' = "commit" /\ WarpSteps /\ InTodo(l) /\ wlanes \in [Lane -> LaneStates]
    BY DEF Passes, Balks, Commits, InTodo
  <1>2. \A k \in Lane : (InTodo(k)' <=> InTodo(k) /\ k # l) /\ (Waits(k)' <=> Waits(k))
    BY <1>1 DEF InTodo, Waits
  <1>3. \A k \in Lane \ {l} : wlanes'[k] = wlanes[k] /\ wwhy'[k] = wwhy[k]
    <2>1. CASE Passes(l)
      BY <2>1, PassedLane DEF Passes
    <2>2. CASE Balks(l)
      <3>1. wwhy = [k \in Lane |-> wwhy[k]]
        BY <1>1 DEF Commits, WarpSteps, WarpTyped
      <3> QED BY <2>2, <3>1 DEF Balks
    <2> QED BY <2>1, <2>2
  <1>4. \A k \in Lane : step[k].mode = "copy" =>
          wlanes'[k].copy.out_pos = wlanes[k].copy.out_pos /\ wlanes'[k].copy.length = wlanes[k].copy.length
    <2>1. CASE Passes(l)
      BY <1>3, <2>1, PassedLane
    <2>2. CASE Balks(l)
      BY <2>2 DEF Balks
    <2> QED BY <2>1, <2>2
  <1>5. ASSUME NEW k \in Lane PROVE StepOK(k)'
    <2>1. StepOK(k)
      BY <1>1 DEF WarpSteps
    <2>2. InTodo(k)' => InTodo(k) /\ wlanes'[k] = wlanes[k]
      BY <1>2, <1>3
    <2>3. InTodo(k)' => (step'[k].mode = "copy" <=> wlanes'[k].copy.pending)
      BY <1>1, <2>1, <2>2 DEF StepOK
    <2>4. step'[k].rung = "None" /\ InTodo(k)' /\ step'[k].mode \notin {"idle", "byte"} =>
            step'[k].sym.width <= wlanes'[k].left
      BY <1>1, <2>1, <2>2 DEF StepOK
    <2>5. step'[k].mode = "copy" =>
            /\ wlanes'[k].copy.length > 0
            /\ wlanes'[k].copy.out_pos + wlanes'[k].copy.length <= step'[0].pos
            /\ wlanes'[k].copy.out_pos + wlanes'[k].copy.length <= Cap
      BY <1>1, <1>4, <2>1 DEF StepOK
    <2>6. /\ step'[k].mode \in Modes /\ step'[k].pos \in Nat /\ step'[k].sym.width \in Nat
          /\ step'[k].mode = "copy" => step'[k].sym.value \in Nat \ {0}
          /\ step'[k].mode = "reserve" => step'[k].rung = "None" /\ step'[k].sym.value \in Nat \ {0}
          /\ step'[k].mode = "end" => step'[k].rung = "None"
          /\ step'[k].mode = "byte" => wd'.stage = "bytes" /\ wd'.out_pos + k < Cap
      BY <1>1, <2>1 DEF StepOK
    <2> QED BY Zenon, <2>3, <2>4, <2>5, <2>6 DEF StepOK
  <1>6. CopiesInOrder'
    <2>1. CopiesInOrder
      BY <1>1 DEF WarpSteps
    <2> QED BY <1>1, <1>4, <2>1 DEF CopiesInOrder
  <1>7. \A k \in Lane : InTodo(k)' => wwhy'[k] = "None"
    BY <1>1, <1>2, <1>3 DEF WarpSteps
  <1>8. ~Refuses(wwhy') => NoHole'
    <2>1. CASE Balks(l)
      <3>1. wwhy = [k \in Lane |-> wwhy[k]]
        BY <1>1 DEF Commits, WarpSteps, WarpTyped
      <3>2. wwhy[l] = "None"
        BY <1>1 DEF WarpSteps
      <3>3. wwhy'[l] # "None"
        BY <1>1, <2>1, <3>1, <3>2 DEF Balks, RefuseAs
      <3> QED BY <1>1, <3>3 DEF Refuses
    <2>2. CASE Passes(l) /\ ~Refuses(wwhy')
      <3>1. NoHole
        BY <1>1, <2>2 DEF Passes, WarpSteps
      <3>2. wout' = Write(wout, [p \in WrittenOf(Round, l, step[l]) |-> ByteAt(wlanes[l])])
        BY <2>2 DEF Passes
      <3>3. ByteAt(wlanes[l]) # Unwritten
        <4>1. wlanes[l].words[1] = l
          BY <1>1 DEF Commits, WarpSteps, WarpTyped
        <4>2. l # NoLane
          BY <1>1, LaneAssumption DEF Lane, NoLane
        <4>3. ByteAt(wlanes[l])[1] = l /\ Unwritten[1] = NoLane
          BY <4>1 DEF ByteAt, Unwritten
        <4> QED BY <4>2, <4>3
      <3>4. /\ DOMAIN wout \subseteq DOMAIN wout'
            /\ \A p \in DOMAIN wout' : wout'[p] # Unwritten
        <4> HIDE DEF Unwritten
        <4> QED BY <3>1, <3>2, <3>3 DEF Write, NoHole
      <3>5. ASSUME NEW k \in Lane, ~InTodo(k)', step'[k].mode = "copy"
            PROVE  step'[k].sym.value <= wlanes'[k].copy.out_pos
        <4>1. CASE k = l
          BY <1>1, <2>2, <3>5, <4>1, PassedLane
        <4>2. CASE k # l
          BY <1>1, <1>2, <1>3, <3>1, <3>5, <4>2 DEF NoHole
        <4> QED BY <4>1, <4>2
      <3>6. ASSUME NEW p \in 0 .. step'[0].pos - 1
            PROVE  p \in DOMAIN wout' \/ \E k \in Lane : Waits(k)' /\ p \in CopyRange(wlanes'[k].copy)
        <4>1. CASE p \in DOMAIN wout
          BY <3>4, <4>1
        <4>2. CASE \E k \in Lane : Waits(k) /\ p \in CopyRange(wlanes[k].copy)
          <5>1. PICK k \in Lane : Waits(k) /\ p \in CopyRange(wlanes[k].copy)
            BY <4>2
          <5>2. step[k].mode = "copy"
            BY <5>1 DEF Waits
          <5>3. CopyRange(wlanes'[k].copy) = CopyRange(wlanes[k].copy)
            BY <1>4, <5>2 DEF CopyRange
          <5> QED BY <1>2, <5>1, <5>3
        <4>3. p \in 0 .. step[0].pos - 1
          BY <1>1
        <4> QED BY <3>1, <4>1, <4>2, <4>3 DEF NoHole
      <3> QED BY <3>4, <3>5, <3>6 DEF NoHole
    <2> QED BY <2>1, <2>2
  <1>9. /\ wd' \in Drivers /\ wd'.stage \in {"bytes", "symbols", "drain"} /\ todo' \subseteq Lane
        /\ RoundLanes(wd') \in 1 .. NumStreams
    BY <1>1 DEF WarpSteps
  <1> QED BY <1>1, <1>5, <1>6, <1>7, <1>8, <1>9 DEF WarpSteps

\* What a lane is, or will be, when all have committed does not change as they commit, unless
\* it refuses.
LEMMA NowKept ==
  ASSUME NEW l, Passes(l) \/ Balks(l), NEW k \in Lane, Passes(l) \/ k # l
  PROVE  LaneNow(k)' = LaneNow(k) /\ WhyNow(k)' = WhyNow(k)
  <1>1. /\ l \in Lane /\ step' = step /\ todo' = todo \ {l} /\ phase' = phase /\ InTodo(l)
        /\ wlanes \in [Lane -> LaneStates] /\ WarpSteps /\ wwhy = [j \in Lane |-> wwhy[j]]
    BY DEF Passes, Balks, Commits, InTodo, WarpSteps, WarpTyped
  <1>2. Round.lanes = wlanes /\ Round'.lanes = wlanes'
    BY DEF Round
  <1>3. CASE k # l
    <2>1. wlanes'[k] = wlanes[k] /\ wwhy'[k] = wwhy[k]
      BY <1>1, <1>3 DEF Passes, Balks
    <2>2. InTodo(k)' <=> InTodo(k)
      BY <1>1, <1>3 DEF InTodo
    <2>3. LaneOf(Round', k, step[k]) = LaneOf(Round, k, step[k])
      BY <1>2, <2>1 DEF LaneOf, CopyOf
    <2>4. WhyOf(Round', k, step[k]) = WhyOf(Round, k, step[k])
      BY Zenon, <1>2, <2>1 DEF WhyOf
    <2> QED BY <1>1, <2>1, <2>2, <2>3, <2>4 DEF LaneNow, WhyNow
  <1>4. CASE k = l /\ Passes(l)
    <2>1. ~InTodo(l)'
      BY <1>1 DEF InTodo
    <2>2. LaneNow(l)' = LaneNow(l)
      <3>1. wlanes'[l] = LaneOf(Round, l, step[l])
        BY <1>1, <1>4 DEF Passes
      <3> QED BY <1>1, <2>1, <3>1 DEF LaneNow
    <2>3. WhyNow(l)' = WhyNow(l)
      <3>1. wwhy'[l] = "None" /\ WhyOf(Round, l, step[l]) = "None"
        BY <1>1, <1>4 DEF Passes, WarpSteps
      <3> QED BY <1>1, <2>1, <3>1 DEF WhyNow
    <2> QED BY <1>4, <2>2, <2>3
  <1> QED BY <1>3, <1>4

LEMMA PassAgrees ==
  ASSUME NEW l, Passes(l), UNCHANGED hostVars, RoundAgrees
  PROVE  RoundAgrees'
  <1>1. /\ l \in Lane /\ step' = step /\ todo' = todo \ {l} /\ phase = "commit" /\ phase' = phase /\ InTodo(l)
        /\ wlanes \in [Lane -> LaneStates] /\ wd' = wd /\ wcursor' = wcursor
        /\ wout' = Write(wout, [p \in WrittenOf(Round, l, step[l]) |-> ByteAt(wlanes[l])])
    BY DEF Passes, Commits, InTodo
  <1>2. hd' = hd /\ hlanes' = hlanes /\ hcursor' = hcursor /\ hwhy' = hwhy /\ hout' = hout
    BY DEF hostVars
  <1>3. Round.lanes = wlanes /\ Round'.lanes = wlanes' /\ Round.d = wd /\ Round'.d = wd
    BY <1>1 DEF Round
  <1>4. LanesNow' = LanesNow /\ \A k \in Lane : WhyNow(k)' = WhyNow(k)
    <2>1. \A k \in Lane : LaneNow(k)' = LaneNow(k) /\ WhyNow(k)' = WhyNow(k)
      BY NowKept
    <2> QED BY <2>1 DEF LanesNow
  <1>5. \A k \in Lane \ {l} : wlanes'[k] = wlanes[k]
    BY PassedLane
  <1>6. \A k \in Lane : (InTodo(k)' <=> InTodo(k) /\ k # l) /\ (Waits(k)' <=> Waits(k))
    BY <1>1 DEF InTodo, Waits
  <1>7. \A k \in Lane : WrittenOf(Round', k, step[k]) = WrittenOf(Round, k, step[k])
    BY <1>3 DEF WrittenOf
  <1>8. \A k \in Lane : step[k].mode = "copy" =>
          wlanes'[k].copy.out_pos = wlanes[k].copy.out_pos /\ wlanes'[k].copy.length = wlanes[k].copy.length
    BY <1>5, PassedLane
  <1>9. DOMAIN wout' = DOMAIN wout \cup WrittenOf(Round, l, step[l])
    BY <1>1 DEF Write
  <1>10. Under(wout', hout)
    <2>1. Under(wout, hout) /\ Wrote(Round, l, step[l], hout)
      BY <1>1 DEF RoundAgrees
    <2>2. \A p \in WrittenOf(Round, l, step[l]) : p \in DOMAIN hout /\ hout[p] = ByteAt(wlanes[l])
      BY <1>3, <2>1 DEF Wrote
    <2> QED BY <1>1, <2>1, <2>2 DEF Under, Write
  <1>11. ASSUME NEW p \in DOMAIN hout
         PROVE  p \in DOMAIN wout' \/ \E k \in Lane : p \in StillPuts(k)'
    <2>1. CASE p \in DOMAIN wout \cup WrittenOf(Round, l, step[l])
      BY <1>9, <2>1
    <2>2. CASE p \notin DOMAIN wout \cup WrittenOf(Round, l, step[l])
      <3>1. PICK k \in Lane : p \in StillPuts(k)
        BY <2>2 DEF RoundAgrees
      <3>2. CASE InTodo(k) /\ p \in WrittenOf(Round, k, step[k])
        <4>1. InTodo(k)' /\ p \in WrittenOf(Round', k, step'[k])
          BY <1>1, <1>6, <1>7, <2>2, <3>2
        <4>2. p \in StillPuts(k)'
          BY <4>1 DEF StillPuts
        <4> QED BY <4>2
      <3>3. CASE Waits(k) /\ p \in CopyRange(wlanes[k].copy)
        <4>1. Waits(k)' /\ p \in CopyRange(wlanes'[k].copy)
          BY <1>6, <1>8, <3>3 DEF Waits, CopyRange
        <4>2. p \in StillPuts(k)'
          BY <4>1 DEF StillPuts
        <4> QED BY <4>2
      <3> QED BY <3>1, <3>2, <3>3 DEF StillPuts
    <2> QED BY <2>1, <2>2
  <1>12. ASSUME NEW k \in Lane
         PROVE  /\ InTodo(k)' => Wrote(Round', k, step[k], hout)
                /\ Copied(Round', k, step[k], hout)
    <2>1. (InTodo(k) => Wrote(Round, k, step[k], hout)) /\ Copied(Round, k, step[k], hout)
      BY DEF RoundAgrees
    <2>2. InTodo(k)' => Wrote(Round', k, step[k], hout)
      BY <1>3, <1>5, <1>6, <1>7, <2>1 DEF Wrote
    <2>3. Copied(Round', k, step[k], hout)
      BY <1>3, <1>8, <2>1 DEF Copied, Gathered, CopyRange, Source
    <2> QED BY <2>2, <2>3
  <1>13. /\ \A k \in Lane : WhyNow(k)' = "None"
         /\ hlanes = DealtTo(LanesNow', RoundLanes(wd), wcursor, LanesNow')
         /\ hcursor = wcursor + Cardinality(Takers(LanesNow', RoundLanes(wd)))
         /\ hd = AfterRound(wd) /\ hwhy = RefuseAs("None", AfterRoundWhy(wd))
    BY <1>4 DEF RoundAgrees
  <1> QED BY <1>1, <1>2, <1>10, <1>11, <1>12, <1>13 DEF RoundAgrees

LEMMA CommitStops ==
  ASSUME NEW l, Passes(l) \/ Balks(l), UNCHANGED hostVars, NEW i \in Lane, StopAgrees(i)
  PROVE  StopAgrees(i)'
  <1>1. /\ l \in Lane /\ wd' = wd /\ wcursor' = wcursor /\ InTodo(l) /\ todo' = todo \ {l} /\ phase' = phase
        /\ WarpSteps /\ wwhy = [j \in Lane |-> wwhy[j]]
    BY DEF Passes, Balks, Commits, InTodo, WarpSteps, WarpTyped
  <1>2. hd' = hd /\ hwhy' = hwhy
    BY DEF hostVars
  <1>3. /\ i < RoundLanes(wd) /\ hd.stage = "refused" /\ (\A k \in 0 .. i - 1 : WhyNow(k) = "None")
        /\ StopsAt(LanesNow, i, wcursor, WhyNow(i), hwhy)
    BY DEF StopAgrees
  <1>4. (\A k \in 0 .. i - 1 : k \in Lane) /\ Lane \subseteq Int
    BY LaneAssumption DEF Lane
  <1>5. Balks(l) => WhyNow(l) # "None" /\ WhyNow(l)' = WhyNow(l) /\ l \notin 0 .. i - 1
    <2>1. Balks(l) => WhyNow(l) # "None"
      BY <1>1 DEF Balks, WhyNow
    <2>2. ASSUME Balks(l) PROVE WhyNow(l)' = WhyNow(l)
      <3>1. wwhy[l] = "None" /\ ~InTodo(l)'
        BY <1>1 DEF WarpSteps, InTodo
      <3>2. wwhy'[l] = WhyOf(Round, l, step[l])
        BY <1>1, <2>2, <3>1 DEF Balks, RefuseAs
      <3> QED BY <1>1, <3>1, <3>2 DEF WhyNow
    <2> QED BY <1>3, <2>1, <2>2
  <1>6. \A k \in Lane : WhyNow(k)' = WhyNow(k)
    BY <1>5, NowKept
  <1>7. \A k \in 0 .. i - 1 : LanesNow'[k] = LanesNow[k]
    BY <1>4, <1>5, NowKept DEF LanesNow
  <1>8. Takers(LanesNow', i) = Takers(LanesNow, i)
    BY <1>7, TakersSame
  <1>9. LanesNow'[i] = LanesNow[i] \/ WhyNow(i) # "None"
    BY <1>5, NowKept DEF LanesNow
  <1>10. StopsAt(LanesNow', i, wcursor, WhyNow(i)', hwhy)
    BY <1>3, <1>6, <1>8, <1>9 DEF StopsAt
  <1> QED BY <1>1, <1>2, <1>3, <1>4, <1>6, <1>10 DEF StopAgrees

LEMMA WarpCommit ==
  ASSUME HostInv, HostOut, TeamsInv, turn = "warp", UNCHANGED hostVars, NEW l \in Lane, Warp!Commit(l),
         turn' = IF phase' = "between" THEN "host" ELSE "warp"
  PROVE  TeamsInv'
  <1>1. Passes(l) \/ Balks(l)
    BY CommitIs
  <1>2. /\ phase = "commit" /\ phase' = "commit" /\ turn' = "warp" /\ wd' = wd /\ WarpTyped /\ WarpBounded
        /\ wcursor' = wcursor
    BY <1>1 DEF Passes, Balks, Commits
  <1>3. Between /\ (RoundAgrees \/ \E i \in Lane : StopAgrees(i))
    BY <1>2 DEF TeamsInv
  <1>4. hd' = hd /\ hout' = hout /\ hidx' = hidx
    BY DEF hostVars
  <1>5. WarpTyped' /\ WarpBounded'
    <2>1. CASE Passes(l)
      BY <1>2, <2>1, PassKeeps DEF WarpTyped
    <2>2. CASE Balks(l)
      <3>1. wlanes' = wlanes /\ wout' = wout
            /\ wwhy' = [wwhy EXCEPT ![l] = RefuseAs(@, WhyOf(Round, l, step[l]))]
        BY <2>2 DEF Balks
      <3>2. (wwhy = [k \in Lane |-> wwhy[k]]) => wwhy' = [k \in Lane |-> wwhy'[k]]
        BY <3>1
      <3> QED BY <1>2, <1>4, <3>1, <3>2 DEF WarpTyped, WarpBounded
    <2> QED BY <1>1, <2>1, <2>2
  <1>6. WarpSteps' /\ Between'
    BY <1>1, <1>3, <1>4, CommitSteps DEF Between
  <1>7. RoundAgrees' \/ \E i \in Lane : StopAgrees(i)'
    <2>1. CASE RoundAgrees
      <3>1. WhyNow(l) = "None"
        BY <2>1 DEF RoundAgrees
      <3>2. ~Balks(l)
        BY <3>1 DEF Balks, Commits, WhyNow, InTodo
      <3> QED BY <1>1, <2>1, <3>2, PassAgrees
    <2>2. CASE \E i \in Lane : StopAgrees(i)
      BY <1>1, <2>2, CommitStops
    <2> QED BY <1>3, <2>1, <2>2
  <1> QED BY <1>2, <1>5, <1>6, <1>7 DEF TeamsInv

-----------------------------------------------------------------------------
(* The lanes meet and copy in turn. *)

LEMMA WarpMeet ==
  ASSUME HostInv, HostOut, TeamsInv, turn = "warp", UNCHANGED hostVars, Warp!Meet,
         turn' = IF phase' = "between" THEN "host" ELSE "warp"
  PROVE  TeamsInv'
  <1>1. /\ phase = "commit" /\ todo = {} /\ phase' = "copy" /\ turn' = "warp"
        /\ todo' = {l \in Lane : step[l].mode = "copy" /\ wwhy[l] = "None"}
        /\ wd' = wd /\ wlanes' = wlanes /\ wcursor' = wcursor /\ wwhy' = wwhy /\ wout' = wout /\ step' = step
    BY DEF Warp!Meet, Warp!Lane, Lane
  <1>2. /\ hd' = hd /\ hlanes' = hlanes /\ hcursor' = hcursor /\ hidx' = hidx /\ hwhy' = hwhy /\ hout' = hout
    BY DEF hostVars
  <1>3. WarpSteps /\ WarpTyped /\ WarpBounded /\ Between /\ (RoundAgrees \/ \E i \in Lane : StopAgrees(i))
    BY <1>1 DEF TeamsInv
  <1>4. \A l : ~InTodo(l) /\ ~InTodo(l)'
    BY <1>1 DEF InTodo
  <1>5. \A l \in Lane : wwhy[l] = "None" => (Waits(l)' <=> Waits(l))
    BY <1>1 DEF Waits
  <1>6. WarpTyped' /\ WarpBounded' /\ Between'
    BY <1>1, <1>2, <1>3 DEF WarpTyped, WarpBounded, Between
  <1>7. WarpSteps'
    <2>1. \A l \in Lane : StepOK(l)'
      BY <1>1, <1>3, <1>4 DEF WarpSteps, StepOK
    <2>2. CopiesInOrder'
      BY <1>1, <1>3 DEF WarpSteps, CopiesInOrder
    <2>3. ~Refuses(wwhy') => NoHole'
      <3>1. ASSUME ~Refuses(wwhy) PROVE NoHole'
        <4>1. \A l \in Lane : wwhy[l] = "None"
          BY <3>1 DEF Refuses
        <4>2. NoHole
          BY <1>3, <3>1 DEF WarpSteps
        <4> QED BY <1>1, <1>4, <1>5, <4>1, <4>2 DEF NoHole
      <3> QED BY <1>1, <3>1
    <2> QED BY <1>1, <1>3, <1>4, <2>1, <2>2, <2>3 DEF WarpSteps
  <1>8. \A l : LaneNow(l)' = LaneNow(l) /\ WhyNow(l)' = WhyNow(l) /\ WhyNow(l) = wwhy[l]
    BY <1>1, <1>4 DEF LaneNow, WhyNow
  <1>9. LanesNow' = LanesNow
    BY <1>8 DEF LanesNow
  <1>10. RoundAgrees' \/ \E i \in Lane : StopAgrees(i)'
    <2>1. CASE RoundAgrees
      <3>1. \A l \in Lane : wwhy[l] = "None"
        BY <1>8, <2>1 DEF RoundAgrees
      <3>2. \A l \in Lane : StillPuts(l)' = StillPuts(l)
        BY <1>1, <1>4, <1>5, <3>1 DEF StillPuts
      <3>3. \A l \in Lane : Copied(Round', l, step'[l], hout') <=> Copied(Round, l, step[l], hout)
        BY <1>1, <1>2 DEF Copied, Round
      <3> QED BY <1>1, <1>2, <1>4, <1>8, <1>9, <2>1, <3>2, <3>3 DEF RoundAgrees
    <2>2. ASSUME NEW i \in Lane, StopAgrees(i) PROVE StopAgrees(i)'
      BY <1>1, <1>2, <1>8, <1>9, <2>2 DEF StopAgrees
    <2> QED BY <1>3, <2>1, <2>2
  <1> QED BY <1>1, <1>6, <1>7, <1>10 DEF TeamsInv

\* While no lane has refused, what the next copy reads is written.
LEMMA SourcesWritten ==
  ASSUME WarpSteps, phase = "copy", todo # {}, NEW j, j = FirstOf(todo), ~Refuses(wwhy),
         wlanes \in [Lane -> LaneStates], NEW p \in CopyRange(wlanes[j].copy)
  PROVE  Source(wlanes[j].copy, step[j].sym.value, p) \in DOMAIN wout
  <1> DEFINE c == wlanes[j].copy
             dist == step[j].sym.value
             src == Source(c, dist, p)
  <1>1. todo \subseteq Lane /\ \A l \in Lane : l \in Int
    BY DEF WarpSteps, Lane
  <1>2. j \in todo /\ j \in Lane /\ \A k \in todo : j <= k
    BY <1>1, FirstIs
  <1>3. step[j].mode = "copy" /\ StepOK(j) /\ NoHole /\ CopiesInOrder
    BY <1>2 DEF WarpSteps
  <1>4. dist \in Nat \ {0} /\ c \in Copies /\ c.out_pos \in Nat /\ c.length \in Nat
        /\ step[0].pos \in Int
    <2>1. wlanes[j] \in LaneStates /\ 0 \in Lane
      BY <1>2, LaneAssumption DEF Lane
    <2>2. dist \in Nat \ {0} /\ c \in Copies
      BY <1>3, <2>1 DEF StepOK, LaneStates
    <2>3. step[0].pos \in Int
      BY <2>1 DEF WarpSteps, StepOK
    <2> QED BY <2>2, <2>3 DEF Copies
  <1>5. dist <= c.out_pos /\ c.length > 0 /\ c.out_pos + c.length <= step[0].pos
    BY <1>2, <1>3 DEF NoHole, StepOK, InTodo
  <1> HIDE DEF c, dist
  <1>6. src \in 0 .. c.out_pos - 1
    <2>1. p \in c.out_pos .. c.out_pos + c.length - 1
      BY DEF c, CopyRange
    <2>2. p - c.out_pos \in Nat
      BY <1>4, <2>1
    <2>3. (p - c.out_pos) % dist \in 0 .. dist - 1
      BY <1>4, <2>2, ModRange
    <2> QED BY <1>4, <1>5, <2>3 DEF Source
  <1>7. src \in 0 .. step[0].pos - 1
    <2> HIDE DEF src
    <2> QED BY <1>4, <1>5, <1>6
  <1>8. ASSUME NEW k \in Lane, Waits(k), src \in CopyRange(wlanes[k].copy) PROVE FALSE
    <2>1. step[k].mode = "copy" /\ k \in todo
      BY <1>8 DEF Waits
    <2>2. wlanes[k] \in LaneStates
      OBVIOUS
    <2>3. wlanes[k].copy.out_pos \in Nat /\ wlanes[k].copy.length \in Nat
      BY <2>2 DEF LaneStates, Copies
    <2>4. src \in Int /\ wlanes[k].copy.out_pos <= src
      <3> HIDE DEF src
      <3> QED BY <1>6, <1>8, <2>3 DEF CopyRange
    <2>5. src < c.out_pos
      <3> HIDE DEF src
      <3> QED BY <1>4, <1>6
    <2>6. CASE k = j
      <3>1. wlanes[k].copy = c
        BY <2>6 DEF c
      <3> HIDE DEF src
      <3> QED BY <1>4, <2>4, <2>5, <3>1
    <2>7. CASE k # j
      <3>1. j < k
        BY <1>1, <1>2, <2>1, <2>7
      <3>2. c.out_pos + c.length <= wlanes[k].copy.out_pos
        BY <1>2, <1>3, <2>1, <3>1 DEF CopiesInOrder, c
      <3> HIDE DEF src
      <3> QED BY <1>4, <1>5, <2>3, <2>4, <2>5, <3>2
    <2> QED BY <2>6, <2>7
  <1>9. src \in DOMAIN wout
    <2>1. src \in DOMAIN wout \/ \E l \in Lane : Waits(l) /\ src \in CopyRange(wlanes[l].copy)
      <3> HIDE DEF src
      <3> QED BY <1>3, <1>7 DEF NoHole
    <2> QED BY <1>8, <2>1
  <1> QED BY <1>9 DEF c, dist

CopiesNow(j) ==
  /\ j \in Lane /\ j \in todo /\ j = FirstOf(todo) /\ todo # {} /\ phase = "copy" /\ phase' = "copy"
  /\ step' = step /\ todo' = todo \ {j} /\ wd' = wd /\ wlanes' = wlanes /\ wcursor' = wcursor /\ wwhy' = wwhy
  /\ wout' = Write(wout, [p \in CopyRange(wlanes[j].copy) |->
                            ByteIn(wout, Source(wlanes[j].copy, step[j].sym.value, p))])
  /\ WarpSteps /\ WarpTyped /\ WarpBounded /\ wlanes \in [Lane -> LaneStates]

LEMMA CopyIs ==
  ASSUME TeamsInv, Warp!CopyBytes
  PROVE  \E j : CopiesNow(j)
  <1> DEFINE j == FirstOf(todo)
  <1>1. /\ phase = "copy" /\ todo # {} /\ phase' = phase /\ step' = step /\ wd' = wd /\ wlanes' = wlanes
        /\ wcursor' = wcursor /\ wwhy' = wwhy
    BY DEF Warp!CopyBytes
  <1>2. WarpSteps /\ WarpTyped /\ WarpBounded
    BY <1>1 DEF TeamsInv
  <1>3. todo \subseteq Lane /\ wlanes \in [Lane -> LaneStates]
    BY <1>2 DEF WarpSteps, WarpTyped
  <1>4. j \in todo
    BY <1>1, <1>3, FirstIs
  <1>5. Warp!NextCopy = j
    BY DEF Warp!NextCopy, Warp!FirstOf, FirstOf
  <1> HIDE DEF j
  <1>6. /\ wout' = Warp!CopyGather(wout, wlanes[j].copy.out_pos, step[j].sym.value, wlanes[j].copy.length)
        /\ todo' = todo \ {j}
    BY <1>5 DEF Warp!CopyBytes
  <1>7. wout' = Write(wout, [p \in CopyRange(wlanes[j].copy) |->
                              ByteIn(wout, Source(wlanes[j].copy, step[j].sym.value, p))])
    BY Zenon, <1>6 DEF Warp!CopyGather, Warp!Write, Write, Warp!ByteIn, ByteIn, Warp!Unwritten, Unwritten,
                       Warp!NoLane, NoLane, CopyRange, Source
  <1>8. CopiesNow(j)
    BY <1>1, <1>2, <1>3, <1>4, <1>6, <1>7 DEF CopiesNow, j
  <1> QED BY <1>8

\* What the copy writes stays below the capacity.
LEMMA CopyBounds ==
  ASSUME NEW j, CopiesNow(j)
  PROVE  /\ DOMAIN wout' = DOMAIN wout \cup CopyRange(wlanes[j].copy)
         /\ CopyRange(wlanes[j].copy) \subseteq 0 .. Cap - 1
  <1>1. StepOK(j) /\ step[j].mode = "copy" /\ wlanes[j] \in LaneStates
    BY DEF CopiesNow, WarpSteps
  <1>2. wlanes[j].copy.out_pos \in Nat /\ wlanes[j].copy.length \in Nat
        /\ wlanes[j].copy.out_pos + wlanes[j].copy.length <= Cap /\ Cap \in Nat
    BY <1>1, TeamAssumption DEF LaneStates, Copies, StepOK
  <1>3. CopyRange(wlanes[j].copy) \subseteq 0 .. Cap - 1
    BY <1>2 DEF CopyRange
  <1> QED BY <1>3 DEF CopiesNow, Write

LEMMA CopySteps ==
  ASSUME NEW j, CopiesNow(j), UNCHANGED hostVars
  PROVE  WarpSteps' /\ WarpTyped' /\ WarpBounded'
  <1>1. /\ j \in Lane /\ j \in todo /\ phase = "copy" /\ phase' = "copy" /\ step' = step /\ todo' = todo \ {j}
        /\ wd' = wd /\ wlanes' = wlanes /\ wcursor' = wcursor /\ wwhy' = wwhy /\ hout' = hout
        /\ WarpSteps /\ WarpTyped /\ WarpBounded /\ wlanes \in [Lane -> LaneStates]
        /\ j = FirstOf(todo) /\ todo # {}
    BY DEF CopiesNow, hostVars
  <1> DEFINE new == [p \in CopyRange(wlanes[j].copy) |->
                       ByteIn(wout, Source(wlanes[j].copy, step[j].sym.value, p))]
  <1>2. wout' = Write(wout, new) /\ DOMAIN new = CopyRange(wlanes[j].copy)
    BY DEF CopiesNow
  <1>3. DOMAIN wout' = DOMAIN wout \cup CopyRange(wlanes[j].copy)
        /\ CopyRange(wlanes[j].copy) \subseteq 0 .. Cap - 1
    BY CopyBounds
  <1>4. \A l : ~InTodo(l) /\ ~InTodo(l)'
    BY <1>1 DEF InTodo
  <1>5. \A l \in Lane : Waits(l)' <=> Waits(l) /\ l # j
    BY <1>1 DEF Waits
  <1>6. WarpTyped' /\ WarpBounded'
    <2>1. IsFcn(wout')
      BY <1>2, WroteFcn
    <2>2. DOMAIN wout' \subseteq 0 .. Cap - 1
      BY <1>1, <1>3 DEF WarpBounded
    <2> QED BY <1>1, <2>1, <2>2 DEF WarpTyped, WarpBounded
  <1>7. \A l \in Lane : StepOK(l)'
    BY <1>1, <1>4 DEF WarpSteps, StepOK
  <1>8. CopiesInOrder'
    BY <1>1 DEF WarpSteps, CopiesInOrder
  <1>9. ASSUME ~Refuses(wwhy) PROVE NoHole'
    <2>1. NoHole
      BY <1>1, <1>9 DEF WarpSteps
    <2>2. ASSUME NEW p \in CopyRange(wlanes[j].copy) PROVE new[p] # Unwritten
      <3>1. Source(wlanes[j].copy, step[j].sym.value, p) \in DOMAIN wout
        BY <1>1, <1>9, <2>2, SourcesWritten
      <3>2. new[p] = wout[Source(wlanes[j].copy, step[j].sym.value, p)]
        BY <2>2, <3>1 DEF ByteIn
      <3> QED BY <2>1, <3>1, <3>2 DEF NoHole
    <2> HIDE DEF new, Unwritten
    <2>3. \A p \in DOMAIN wout' : wout'[p] # Unwritten
      BY <1>2, <2>1, <2>2 DEF Write, NoHole
    <2>4. \A l \in Lane : ~InTodo(l)' /\ step'[l].mode = "copy" => step'[l].sym.value <= wlanes'[l].copy.out_pos
      BY <1>1, <1>4, <2>1 DEF NoHole
    <2>5. \A p \in 0 .. step'[0].pos - 1 :
            p \in DOMAIN wout' \/ \E l \in Lane : Waits(l)' /\ p \in CopyRange(wlanes'[l].copy)
      BY <1>1, <1>3, <1>5, <2>1 DEF NoHole
    <2> QED BY <2>3, <2>4, <2>5 DEF NoHole
  <1>10. phase' = "copy" => \A l \in todo' : step'[l].mode = "copy" /\ wwhy'[l] = "None"
    BY <1>1 DEF WarpSteps
  <1>11. /\ wd' \in Drivers /\ wd'.stage \in {"bytes", "symbols", "drain"} /\ todo' \subseteq Lane
         /\ RoundLanes(wd') \in 1 .. NumStreams
    BY <1>1 DEF WarpSteps
  <1>12. ~Refuses(wwhy') => NoHole'
    BY <1>1, <1>9
  <1>13. \A l \in Lane : StepOK(l)' /\ (InTodo(l)' => wwhy'[l] = "None")
    BY <1>4, <1>7
  <1> QED BY <1>6, <1>8, <1>10, <1>11, <1>12, <1>13 DEF WarpSteps

LEMMA CopyAgrees ==
  ASSUME NEW j, CopiesNow(j), UNCHANGED hostVars, RoundAgrees
  PROVE  RoundAgrees'
  <1>1. /\ j \in Lane /\ j \in todo /\ phase = "copy" /\ phase' = "copy" /\ step' = step /\ todo' = todo \ {j}
        /\ wd' = wd /\ wlanes' = wlanes /\ wcursor' = wcursor /\ wwhy' = wwhy
        /\ WarpSteps /\ wlanes \in [Lane -> LaneStates] /\ j = FirstOf(todo) /\ todo # {}
    BY DEF CopiesNow
  <1>2. hd' = hd /\ hlanes' = hlanes /\ hcursor' = hcursor /\ hwhy' = hwhy /\ hout' = hout
    BY DEF hostVars
  <1> DEFINE new == [p \in CopyRange(wlanes[j].copy) |->
                       ByteIn(wout, Source(wlanes[j].copy, step[j].sym.value, p))]
  <1>3. wout' = Write(wout, new)
    BY DEF CopiesNow
  <1>4. DOMAIN wout' = DOMAIN wout \cup CopyRange(wlanes[j].copy)
    BY CopyBounds
  <1>5. \A l : ~InTodo(l) /\ ~InTodo(l)'
    BY <1>1 DEF InTodo
  <1>6. \A l \in Lane : Waits(l)' <=> Waits(l) /\ l # j
    BY <1>1 DEF Waits
  <1>7. \A l : LaneNow(l)' = LaneNow(l) /\ WhyNow(l)' = WhyNow(l) /\ WhyNow(l) = wwhy[l]
    BY <1>1, <1>5 DEF LaneNow, WhyNow
  <1>8. LanesNow' = LanesNow
    BY <1>7 DEF LanesNow
  <1>9. ~Refuses(wwhy)
    BY <1>7 DEF RoundAgrees, Refuses
  <1>10. Under(wout', hout)
    <2>1. Under(wout, hout) /\ Copied(Round, j, step[j], hout) /\ step[j].mode = "copy"
      BY <1>1 DEF RoundAgrees, WarpSteps
    <2>2. Gathered(hout, wlanes[j].copy, step[j].sym.value)
      BY <2>1 DEF Copied, Round
    <2>3. ASSUME NEW p \in CopyRange(wlanes[j].copy) PROVE p \in DOMAIN hout /\ hout[p] = new[p]
      <3>1. Source(wlanes[j].copy, step[j].sym.value, p) \in DOMAIN wout
        BY <1>1, <1>9, <2>3, SourcesWritten
      <3>2. new[p] = wout[Source(wlanes[j].copy, step[j].sym.value, p)]
        BY <2>3, <3>1 DEF ByteIn
      <3> QED BY <2>1, <2>2, <2>3, <3>1, <3>2 DEF Gathered, Under
    <2> HIDE DEF new
    <2>4. DOMAIN new = CopyRange(wlanes[j].copy)
      BY DEF new
    <2> QED BY <1>3, <2>1, <2>3, <2>4 DEF Under, Write
  <1> HIDE DEF new
  <1>11. ASSUME NEW p \in DOMAIN hout
         PROVE  p \in DOMAIN wout' \/ \E l \in Lane : p \in StillPuts(l)'
    <2>1. CASE p \in DOMAIN wout'
      BY <2>1
    <2>2. CASE p \notin DOMAIN wout'
      <3>1. PICK l \in Lane : p \in StillPuts(l)
        BY <1>4, <2>2 DEF RoundAgrees
      <3>2. Waits(l) /\ p \in CopyRange(wlanes[l].copy)
        BY <1>5, <3>1 DEF StillPuts
      <3>3. l # j
        BY <1>4, <2>2, <3>2
      <3>4. p \in StillPuts(l)'
        BY <1>1, <1>6, <3>2, <3>3 DEF StillPuts
      <3> QED BY <3>4
    <2> QED BY <2>1, <2>2
  <1>12. ASSUME NEW l \in Lane
         PROVE  /\ InTodo(l)' => Wrote(Round', l, step'[l], hout')
                /\ Copied(Round', l, step'[l], hout')
    <2>1. Copied(Round, l, step[l], hout)
      BY DEF RoundAgrees
    <2> QED BY <1>1, <1>2, <1>5, <2>1 DEF Copied, Round
  <1>13. /\ \A l \in Lane : WhyNow(l)' = "None"
         /\ hlanes = DealtTo(LanesNow', RoundLanes(wd), wcursor, LanesNow')
         /\ hcursor = wcursor + Cardinality(Takers(LanesNow', RoundLanes(wd)))
         /\ hd = AfterRound(wd) /\ hwhy = RefuseAs("None", AfterRoundWhy(wd))
    BY <1>7, <1>8 DEF RoundAgrees
  <1> QED BY <1>1, <1>2, <1>10, <1>11, <1>12, <1>13 DEF RoundAgrees

LEMMA WarpCopyBytes ==
  ASSUME HostInv, HostOut, TeamsInv, turn = "warp", UNCHANGED hostVars, Warp!CopyBytes,
         turn' = IF phase' = "between" THEN "host" ELSE "warp"
  PROVE  TeamsInv'
  <1>1. PICK j : CopiesNow(j)
    BY CopyIs
  <1>2. /\ phase = "copy" /\ phase' = "copy" /\ turn' = "warp" /\ step' = step /\ wd' = wd /\ wlanes' = wlanes
        /\ wcursor' = wcursor /\ wwhy' = wwhy
    BY <1>1 DEF CopiesNow
  <1>3. hd' = hd /\ hidx' = hidx /\ hwhy' = hwhy
    BY DEF hostVars
  <1>4. Between' /\ (RoundAgrees \/ \E i \in Lane : StopAgrees(i))
    BY <1>2, <1>3 DEF TeamsInv, Between
  <1>5. WarpSteps' /\ WarpTyped' /\ WarpBounded'
    BY <1>1, CopySteps
  <1>6. RoundAgrees' \/ \E i \in Lane : StopAgrees(i)'
    <2>1. CASE RoundAgrees
      BY <1>1, <2>1, CopyAgrees
    <2>2. ASSUME NEW i \in Lane, StopAgrees(i) PROVE StopAgrees(i)'
      <3>1. \A l : LaneNow(l)' = LaneNow(l) /\ WhyNow(l)' = WhyNow(l)
        BY <1>2 DEF LaneNow, WhyNow, InTodo
      <3>2. LanesNow' = LanesNow
        BY <3>1 DEF LanesNow
      <3> QED BY <1>2, <1>3, <2>2, <3>1, <3>2 DEF StopAgrees
    <2> QED BY <1>4, <2>1, <2>2
  <1> QED BY <1>2, <1>4, <1>5, <1>6 DEF TeamsInv

-----------------------------------------------------------------------------
(* The words of the round, and the team's verdict. *)

LEMMA WarpAfterRound == Warp!AfterRound(wd) = AfterRound(wd) /\ Warp!AfterRoundWhy(wd) = AfterRoundWhy(wd)
  <1>1. /\ Warp!RoundLanes(wd) = RoundLanes(wd)
        /\ \A f : Warp!NextBlock(f) = NextBlock(f) /\ Warp!Refused(f) = Refused(f)
    BY DEF Warp!RoundLanes, RoundLanes, Warp!NextBlock, NextBlock, Warp!Refused, Refused,
           Warp!BlockFuel, BlockFuel, Warp!MaxLaneBits, MaxLaneBits, Warp!MinMatchLen, MinMatchLen
  <1>2. Warp!AfterBytes(wd) = AfterBytes(wd)
    BY Zenon, <1>1 DEF Warp!AfterBytes, AfterBytes
  <1>3. Warp!AfterSymbols(wd) = AfterSymbols(wd)
    BY Zenon, <1>1 DEF Warp!AfterSymbols, AfterSymbols, Warp!NoLane, NoLane, Warp!RoundFuel, RoundFuel
  <1>4. Warp!AfterRound(wd) = AfterRound(wd)
    BY Zenon, <1>1, <1>2, <1>3 DEF Warp!AfterRound, AfterRound
  <1>5. Warp!AfterRoundWhy(wd) = AfterRoundWhy(wd)
    BY Zenon, <1>4 DEF Warp!AfterRoundWhy, AfterRoundWhy, Warp!NoLane, NoLane
  <1> QED BY <1>4, <1>5

RefillTakers == {l \in Turns(Round) : wwhy[l] = "None" /\ NeedsRefill(wlanes[l])}
RefillWord(l) == wcursor + Rank(RefillTakers, l)
RefillVotes == [l \in Lane |-> IF l \in RefillTakers /\ RefillWord(l) >= WordCount
                               THEN "RefillPastEnd" ELSE wwhy[l]]
Refills ==
  /\ phase = "copy" /\ todo = {} /\ phase' = "between" /\ wout' = wout
  /\ wlanes' = [l \in Lane |-> IF l \in RefillTakers /\ RefillWord(l) < WordCount
                               THEN RefillLane(wlanes[l], RefillWord(l)) ELSE wlanes[l]]
  /\ wcursor' = wcursor + Cardinality(RefillTakers)
  /\ IF Refuses(Warp!Unify(RefillVotes))
       THEN wd' = Refused(wd) /\ wwhy' = Warp!Unify(RefillVotes)
       ELSE wd' = AfterRound(wd) /\ wwhy' = Warp!Raise(Warp!Unify(RefillVotes), AfterRoundWhy(wd))
  /\ WarpSteps /\ WarpTyped /\ WarpBounded
  /\ wlanes \in [Lane -> LaneStates] /\ wcursor \in Nat /\ wwhy = [l \in Lane |-> wwhy[l]]

LEMMA RefillIs ==
  ASSUME TeamsInv, Warp!Refill
  PROVE  Refills
  <1>1. /\ phase = "copy" /\ todo = {} /\ phase' = "between" /\ wout' = wout
    BY DEF Warp!Refill
  <1>2. WarpSteps /\ WarpTyped /\ WarpBounded
    BY <1>1 DEF TeamsInv
  <1>3. /\ wlanes \in [Lane -> LaneStates] /\ wcursor \in Nat /\ wwhy = [l \in Lane |-> wwhy[l]]
    BY <1>2 DEF WarpTyped, WarpSteps
  <1> DEFINE takers == {l \in Warp!Active : wwhy[l] = "None" /\ Warp!NeedsRefill(wlanes[l])}
             word(l) == wcursor + Warp!Rank(takers, l)
             votes == [l \in Warp!Lane |-> IF l \in takers /\ word(l) >= WordCount
                                           THEN "RefillPastEnd" ELSE wwhy[l]]
  <1>4. /\ wlanes' = [l \in Warp!Lane |-> IF l \in takers /\ word(l) < WordCount
                                          THEN Warp!RefillLane(wlanes[l], word(l)) ELSE wlanes[l]]
        /\ wcursor' = wcursor + Warp!Cardinality(takers)
        /\ IF Warp!Refuses(Warp!Unify(votes))
             THEN wd' = Warp!Refused(wd) /\ wwhy' = Warp!Unify(votes)
             ELSE wd' = Warp!AfterRound(wd) /\ wwhy' = Warp!Raise(Warp!Unify(votes), Warp!AfterRoundWhy(wd))
    BY DEF Warp!Refill
  <1>16. \A S : Warp!Cardinality(S) = Cardinality(S)
    BY DEF Warp!Cardinality, Cardinality
  <1>5. Warp!Lane = Lane /\ Warp!Active = Turns(Round)
    BY <1>2, WarpNames DEF WarpSteps, InRounds
  <1>6. \A x : Warp!NeedsRefill(x) <=> NeedsRefill(x)
    BY DEF Warp!NeedsRefill, NeedsRefill
  <1>7. takers = RefillTakers
    BY Zenon, <1>5, <1>6 DEF RefillTakers
  <1> HIDE DEF takers
  <1>8. ASSUME NEW l PROVE word(l) = RefillWord(l)
    <2>1. Warp!Rank(RefillTakers, l) = Rank(RefillTakers, l)
      BY <1>16 DEF Warp!Rank, Rank
    <2> QED BY <1>7, <2>1 DEF RefillWord
  <1> HIDE DEF word
  <1>9. votes = RefillVotes
    BY Zenon, <1>5, <1>7, <1>8 DEF RefillVotes
  <1> HIDE DEF votes
  <1>10. \A x, y : Warp!RefillLane(x, y) = RefillLane(x, y)
    BY DEF Warp!RefillLane, RefillLane
  <1>11. \A v : Warp!Refuses(v) <=> Refuses(v)
    BY <1>5 DEF Warp!Refuses, Refuses
  <1>12. Warp!Refused(wd) = Refused(wd)
    BY DEF Warp!Refused, Refused
  <1>13. Warp!AfterRound(wd) = AfterRound(wd) /\ Warp!AfterRoundWhy(wd) = AfterRoundWhy(wd)
    BY WarpAfterRound
  <1>14. wlanes' = [l \in Lane |-> IF l \in RefillTakers /\ RefillWord(l) < WordCount
                                   THEN RefillLane(wlanes[l], RefillWord(l)) ELSE wlanes[l]]
    BY Zenon, <1>4, <1>5, <1>7, <1>8, <1>10
  <1>15. IF Refuses(Warp!Unify(RefillVotes))
           THEN wd' = Refused(wd) /\ wwhy' = Warp!Unify(RefillVotes)
           ELSE wd' = AfterRound(wd) /\ wwhy' = Warp!Raise(Warp!Unify(RefillVotes), AfterRoundWhy(wd))
    BY Zenon, <1>4, <1>9, <1>11, <1>12, <1>13
  <1> QED BY Zenon, <1>1, <1>2, <1>3, <1>4, <1>7, <1>14, <1>15, <1>16 DEF Refills

\* A lane's rank among the takers, when no lane below it has refused.
LEMMA RefillRank ==
  ASSUME Refills, NEW i \in Lane, i <= RoundLanes(wd), \A l \in 0 .. i - 1 : wwhy[l] = "None"
  PROVE  RefillWord(i) = wcursor + Cardinality(Takers(wlanes, i))
  <1>1. RoundLanes(wd) \in Nat /\ i \in Nat
    BY LaneAssumption DEF Refills, WarpSteps, Lane
  <1>2. Turns(Round) = 0 .. RoundLanes(wd) - 1
    BY DEF Turns, Round
  <1>3. {k \in RefillTakers : k < i} = Takers(wlanes, i)
    BY <1>1, <1>2 DEF RefillTakers, Takers
  <1> QED BY <1>3 DEF RefillWord, Rank

\* The words leave the reservations alone.
LEMMA RefillBounds ==
  ASSUME Refills PROVE WarpBounded' /\ IsFcn(wout')
  <1>1. ASSUME NEW l \in Lane PROVE wlanes'[l].copy = wlanes[l].copy
    <2>1. wlanes[l] \in LaneStates
      BY DEF Refills
    <2>2. \A w : RefillLane(wlanes[l], w).copy = wlanes[l].copy
      BY <2>1 DEF RefillLane, LaneStates
    <2> QED BY <2>2 DEF Refills
  <1>2. wout' = wout /\ WarpBounded /\ WarpTyped
    BY DEF Refills
  <1> QED BY <1>1, <1>2 DEF WarpBounded, WarpTyped

LEMMA UnifyNobody == Warp!Unify(Nobody) = Nobody
  <1>1. Warp!Lane = Lane
    BY DEF Warp!Lane, Lane
  <1>2. {l \in Warp!Lane : Nobody[l] # "None"} = {}
    BY <1>1 DEF Nobody
  <1> QED BY <1>2 DEF Warp!Unify

\* The lowest vote is every lane's that has none of its own.
LEMMA UnifyFirst ==
  ASSUME NEW v, NEW i \in Lane, v[i] # "None", \A l \in 0 .. i - 1 : v[l] = "None"
  PROVE  \A l \in Lane : Warp!Unify(v)[l] = IF v[l] = "None" THEN v[i] ELSE v[l]
  <1> DEFINE refused == {l \in Warp!Lane : v[l] # "None"}
  <1>1. Warp!Lane = Lane
    BY DEF Warp!Lane, Lane
  <1>2. i \in refused /\ refused \subseteq Lane
    BY <1>1
  <1>3. FirstOf(refused) \in refused /\ \A k \in refused : FirstOf(refused) <= k
    <2> HIDE DEF refused
    <2> QED BY <1>2, FirstIs
  <1>4. FirstOf(refused) = i
    <2>1. FirstOf(refused) \notin 0 .. i - 1
      BY <1>3
    <2>2. FirstOf(refused) <= i /\ FirstOf(refused) \in Lane
      <3> HIDE DEF refused
      <3> QED BY <1>2, <1>3
    <2> HIDE DEF refused
    <2> QED BY <2>1, <2>2, LaneAssumption DEF Lane
  <1>5. Warp!FirstOf(refused) = i
    <2> HIDE DEF refused
    <2> QED BY <1>4 DEF Warp!FirstOf, FirstOf
  <1>6. Warp!Unify(v) = [l \in Lane |-> Warp!RefuseAs(v[l], v[i])]
    BY <1>1, <1>2, <1>5 DEF Warp!Unify
  <1> QED BY <1>6 DEF Warp!RefuseAs

\* No lane has refused: every lane takes the word the sequential team gave it.
LEMMA RefillAgrees ==
  ASSUME HostInv, Refills, UNCHANGED hostVars, RoundAgrees
  PROVE  /\ wd' = hd /\ wlanes' = hlanes /\ wcursor' = hcursor /\ wout' = hout
         /\ hwhy = AfterRoundWhy(wd) /\ hd = AfterRound(wd)
         /\ wwhy' = Warp!Raise(Nobody, AfterRoundWhy(wd))
  <1> DEFINE n == RoundLanes(wd)
  <1>1. /\ phase = "copy" /\ todo = {} /\ wlanes \in [Lane -> LaneStates] /\ wcursor \in Nat
        /\ n \in 1 .. NumStreams /\ wwhy = [l \in Lane |-> wwhy[l]] /\ IsFcn(wout) /\ IsFcn(hout)
    BY DEF Refills, WarpSteps, WarpTyped
  <1>2. \A l : ~InTodo(l) /\ ~Waits(l)
    BY <1>1 DEF InTodo, Waits
  <1>3. \A l \in Lane : LaneNow(l) = wlanes[l] /\ WhyNow(l) = wwhy[l]
    BY <1>2 DEF LaneNow, WhyNow
  <1>4. LanesNow = wlanes
    BY <1>1, <1>3 DEF LanesNow
  <1>5. wwhy = Nobody
    BY <1>1, <1>3 DEF RoundAgrees, Nobody
  <1>6. RefillTakers = Takers(wlanes, n)
    <2>1. \A l \in 0 .. n - 1 : wwhy[l] = "None"
      BY <1>1, <1>5, LaneAssumption DEF Nobody, Lane
    <2>2. Turns(Round) = 0 .. n - 1
      BY DEF Turns, Round
    <2> QED BY <2>1, <2>2 DEF RefillTakers, Takers
  <1>7. /\ hlanes = DealtTo(wlanes, n, wcursor, wlanes)
        /\ hcursor = wcursor + Cardinality(Takers(wlanes, n))
        /\ hd = AfterRound(wd) /\ hwhy = AfterRoundWhy(wd)
    BY <1>4 DEF RoundAgrees, RefuseAs
  <1> HIDE DEF n
  <1>8. hcursor <= WordCount /\ WordCount \in Nat /\ n \in Nat
    BY <1>1, LaneAssumption DEF HostInv, HostTyped
  <1>9. ASSUME NEW l \in RefillTakers
        PROVE  /\ l \in Lane /\ l < n /\ NeedsRefill(wlanes[l])
               /\ RefillWord(l) = wcursor + Cardinality(Takers(wlanes, l))
               /\ RefillWord(l) < WordCount /\ RefillWord(l) \in Nat
    <2>1. l \in 0 .. n - 1 /\ NeedsRefill(wlanes[l])
      BY <1>6 DEF Takers
    <2>2. l \in Lane /\ l < n /\ l \in Nat
      BY <1>1, <2>1, LaneAssumption DEF Lane
    <2>3. RefillWord(l) = wcursor + Cardinality(Takers(wlanes, l))
      BY <1>6, <1>8, <2>1, RankIs DEF RefillWord
    <2>4. Cardinality(Takers(wlanes, l)) + 1 <= Cardinality(Takers(wlanes, n))
      BY <1>8, <2>1, TakerBelow
    <2>5. Cardinality(Takers(wlanes, l)) \in Nat /\ Cardinality(Takers(wlanes, n)) \in Nat
      BY <1>8, <2>2, TakersCount
    <2> QED BY <1>1, <1>7, <1>8, <2>1, <2>2, <2>3, <2>4, <2>5
  <1>10. RefillVotes = Nobody
    <2>1. \A l \in Lane : ~(l \in RefillTakers /\ RefillWord(l) >= WordCount)
      BY <1>8, <1>9
    <2> QED BY <1>5, <2>1 DEF RefillVotes, Nobody
  <1>11. Warp!Unify(RefillVotes) = Nobody /\ ~Refuses(Nobody)
    BY <1>10, UnifyNobody DEF Refuses, Nobody
  <1>12. wd' = AfterRound(wd) /\ wwhy' = Warp!Raise(Nobody, AfterRoundWhy(wd))
    BY <1>11 DEF Refills
  <1>13. wcursor' = hcursor
    BY <1>6, <1>7 DEF Refills
  <1>14. wlanes' = hlanes
    <2>1. ASSUME NEW l \in Lane PROVE wlanes'[l] = hlanes[l]
      <3>1. hlanes[l] = IF l < n THEN Dealt(wlanes[l], wcursor + Cardinality(Takers(wlanes, l))) ELSE wlanes[l]
        BY <1>1, <1>7, <1>8, DealtIs
      <3>2. wlanes'[l] = IF l \in RefillTakers /\ RefillWord(l) < WordCount
                         THEN RefillLane(wlanes[l], RefillWord(l)) ELSE wlanes[l]
        BY DEF Refills
      <3>3. l \in RefillTakers <=> l < n /\ NeedsRefill(wlanes[l])
        BY <1>6, <1>8 DEF Takers, Lane
      <3>4. CASE l \in RefillTakers
        BY <1>9, <3>1, <3>2, <3>3, <3>4 DEF Dealt
      <3>5. CASE l \notin RefillTakers
        BY <3>1, <3>2, <3>3, <3>5 DEF Dealt
      <3> QED BY <3>4, <3>5
    <2>2. hlanes = [l \in Lane |-> hlanes[l]]
      BY <1>7 DEF DealtTo
    <2>3. wlanes' = [l \in Lane |-> wlanes'[l]]
      BY DEF Refills
    <2> QED BY <2>1, <2>2, <2>3
  <1>15. wout' = hout
    <2>1. wout' = wout
      BY DEF Refills
    <2>2. Under(wout, hout) /\ \A p \in DOMAIN hout : p \in DOMAIN wout
      BY <1>2 DEF RoundAgrees, StillPuts
    <2>3. DOMAIN wout = DOMAIN hout /\ \A p \in DOMAIN wout : wout[p] = hout[p]
      BY <2>2 DEF Under
    <2> QED BY <1>1, <2>1, <2>3 DEF IsFcn
  <1> QED BY <1>7, <1>12, <1>13, <1>14, <1>15

\* A lane has refused, or its word is past the end of the page: the lowest such lane is the
\* one the sequential team stopped at.
LEMMA RefillRefuses ==
  ASSUME HostInv, Refills, UNCHANGED hostVars, NEW i \in Lane, StopAgrees(i)
  PROVE  /\ hd.stage = "refused" /\ wd' = Refused(wd) /\ wwhy'[0] = hwhy
         /\ \A l \in Lane : wwhy'[l] # "None"
  <1>1. /\ phase = "copy" /\ todo = {} /\ wlanes \in [Lane -> LaneStates] /\ wcursor \in Nat
        /\ RoundLanes(wd) \in 1 .. NumStreams
    BY DEF Refills, WarpSteps
  <1>2. \A l : ~InTodo(l)
    BY <1>1 DEF InTodo
  <1>3. \A l \in Lane : LaneNow(l) = wlanes[l] /\ WhyNow(l) = wwhy[l]
    BY <1>2 DEF LaneNow, WhyNow
  <1>4. LanesNow = wlanes
    BY <1>1, <1>3 DEF LanesNow
  <1>5. i \in Nat /\ 0 \in Lane /\ WordCount \in Nat /\ \A l \in 0 .. i - 1 : l \in Lane
    BY LaneAssumption DEF Lane
  <1>6. /\ i < RoundLanes(wd) /\ hd.stage = "refused"
        /\ \A l \in 0 .. i - 1 : wwhy[l] = "None"
        /\ wcursor + Cardinality(Takers(wlanes, i)) <= WordCount
        /\ \/ hwhy # "None" /\ wwhy[i] = hwhy
           \/ /\ wwhy[i] = "None" /\ NeedsRefill(wlanes[i]) /\ hwhy = "RefillPastEnd"
              /\ wcursor + Cardinality(Takers(wlanes, i)) >= WordCount
    BY <1>3, <1>4, <1>5 DEF StopAgrees, StopsAt
  <1>7. ASSUME NEW l \in 0 .. i - 1 PROVE RefillVotes[l] = "None"
    <2>1. l \in Lane /\ l \in Nat /\ l < i /\ \A k \in 0 .. l - 1 : wwhy[k] = "None"
      BY <1>5, <1>6
    <2>2. RefillWord(l) = wcursor + Cardinality(Takers(wlanes, l))
      BY <1>1, <1>5, <1>6, <2>1, RefillRank
    <2>3. CASE l \in RefillTakers
      <3>1. NeedsRefill(wlanes[l])
        BY <2>3 DEF RefillTakers
      <3>2. Cardinality(Takers(wlanes, l)) + 1 <= Cardinality(Takers(wlanes, i))
        BY <1>5, <3>1, TakerBelow
      <3>3. Cardinality(Takers(wlanes, l)) \in Nat /\ Cardinality(Takers(wlanes, i)) \in Nat
        BY <1>5, <2>1, TakersCount
      <3>4. ~(RefillWord(l) >= WordCount)
        BY <1>1, <1>5, <1>6, <2>2, <3>2, <3>3
      <3> QED BY <1>6, <2>1, <3>4 DEF RefillVotes
    <2>4. CASE l \notin RefillTakers
      BY <1>6, <2>1, <2>4 DEF RefillVotes
    <2> QED BY <2>3, <2>4
  <1>8. RefillVotes[i] = hwhy /\ hwhy # "None"
    <2>4. i <= RoundLanes(wd)
      BY <1>1, <1>5, <1>6
    <2>1. RefillWord(i) = wcursor + Cardinality(Takers(wlanes, i))
      BY <1>6, <2>4, RefillRank
    <2>2. CASE wwhy[i] # "None"
      <3>1. i \notin RefillTakers
        BY <2>2 DEF RefillTakers
      <3> QED BY <1>6, <2>2, <3>1 DEF RefillVotes
    <2>3. CASE wwhy[i] = "None"
      <3>1. Turns(Round) = 0 .. RoundLanes(wd) - 1
        BY DEF Turns, Round
      <3>2. i \in RefillTakers
        BY <1>1, <1>5, <1>6, <2>3, <3>1 DEF RefillTakers
      <3>3. RefillWord(i) >= WordCount
        BY <1>6, <2>1, <2>3
      <3> QED BY <1>6, <2>3, <3>2, <3>3 DEF RefillVotes
    <2> QED BY <2>2, <2>3
  <1>9. \A l \in Lane : Warp!Unify(RefillVotes)[l] = IF RefillVotes[l] = "None" THEN hwhy ELSE RefillVotes[l]
    BY <1>7, <1>8, UnifyFirst
  <1>10. Refuses(Warp!Unify(RefillVotes))
    BY <1>8, <1>9 DEF Refuses
  <1>11. wd' = Refused(wd) /\ wwhy' = Warp!Unify(RefillVotes)
    BY <1>10 DEF Refills
  <1>12. wwhy'[0] = hwhy
    <2>1. i = 0 \/ 0 \in 0 .. i - 1
      BY <1>5
    <2> QED BY <1>5, <1>7, <1>8, <1>9, <1>11, <2>1
  <1> QED BY <1>6, <1>8, <1>9, <1>11, <1>12

LEMMA WarpRefill ==
  ASSUME HostInv, HostOut, TeamsInv, turn = "warp", UNCHANGED hostVars, Warp!Refill,
         turn' = IF phase' = "between" THEN "host" ELSE "warp"
  PROVE  TeamsInv'
  <1>1. Refills
    BY RefillIs
  <1>2. phase = "copy" /\ phase' = "between" /\ turn' = "host" /\ wd \in Drivers
    BY <1>1 DEF Refills, WarpSteps
  <1>3. Between /\ (RoundAgrees \/ \E i \in Lane : StopAgrees(i))
    BY <1>2 DEF TeamsInv
  <1>4. hd' = hd /\ hlanes' = hlanes /\ hcursor' = hcursor /\ hwhy' = hwhy /\ hout' = hout
    BY DEF hostVars
  <1>5. WarpBounded' /\ IsFcn(wout') /\ 0 \in Lane
    BY <1>1, RefillBounds, LaneAssumption DEF Lane
  <1>6. CASE RoundAgrees
    <2>1. /\ wd' = hd /\ wlanes' = hlanes /\ wcursor' = hcursor /\ wout' = hout
          /\ hwhy = AfterRoundWhy(wd) /\ hd = AfterRound(wd)
          /\ wwhy' = Warp!Raise(Nobody, AfterRoundWhy(wd))
      BY <1>1, <1>6, RefillAgrees
    <2>2. hwhy # "None" => \A l \in Lane : wwhy'[l] = hwhy
      BY <2>1, UnifyOne
    <2>3. hwhy = "None" => wwhy' = Nobody
      BY <2>1, RaiseNone
    <2>4. hd.stage = "refused" <=> hwhy # "None"
      BY <2>1 DEF AfterRoundWhy
    <2>5. Agree'
      <3>1. wwhy'[0] = hwhy
        BY <1>5, <2>2, <2>3 DEF Nobody
      <3> QED BY <1>4, <2>1, <3>1 DEF Agree
    <2> QED BY <1>2, <1>3, <1>5, <2>2, <2>3, <2>4, <2>5, WarpReturns
  <1>7. CASE \E i \in Lane : StopAgrees(i)
    <2>1. PICK i \in Lane : StopAgrees(i)
      BY <1>7
    <2>2. /\ hd.stage = "refused" /\ wd' = Refused(wd) /\ wwhy'[0] = hwhy
          /\ \A l \in Lane : wwhy'[l] # "None"
      BY <1>1, <2>1, RefillRefuses
    <2>3. Refused(wd).stage = "refused"
      BY <1>2 DEF Refused, Drivers
    <2>4. Agree'
      BY <1>4, <2>2, <2>3 DEF Agree
    <2> QED BY <1>2, <1>3, <1>5, <2>2, <2>4, WarpReturns
  <1> QED BY <1>3, <1>6, <1>7

-----------------------------------------------------------------------------
(* The two residencies, from the start of the page. *)

LEMMA TeamsStart ==
  ASSUME Init, HostInv, HostOut PROVE TeamsInv
  <1>1. /\ wd = hd /\ wlanes = hlanes /\ wcursor = hcursor /\ hwhy = "None" /\ wwhy = Nobody
        /\ hout = <<>> /\ wout = <<>> /\ phase = "between" /\ turn = "host" /\ hidx = 0
    BY DEF Init, Host!Init, Warp!Init, Warp!Driver0, Host!Driver0, Warp!NoLane, Host!NoLane, Warp!Lane, Host!Lane,
           Lane, Nobody, Warp!Primed, Host!Primed, Warp!NoCopy, Host!NoCopy
  <1>2. hd.stage = "header" /\ hd.out_pos = 0
    BY DEF Init, Host!Init, Host!Driver0
  <1>3. IsFcn(hout) /\ IsFcn(wout) /\ DOMAIN wout = {}
    BY <1>1 DEF IsFcn
  <1>4. /\ hd \in Drivers /\ hlanes \in [Lane -> LaneStates] /\ hcursor \in Nat /\ FirstWords
    BY <1>2 DEF HostInv, HostTyped, HostOut
  <1>5. WarpTyped
    <2>1. wwhy = [l \in Lane |-> wwhy[l]]
      BY <1>1 DEF Nobody
    <2> QED BY <1>1, <1>3, <1>4, <2>1 DEF WarpTyped, FirstWords
  <1>6. WarpCopies = HostCopies
    BY <1>1 DEF WarpCopies, HostCopies
  <1>7. Claimed = 0
    BY <1>1, <1>2 DEF Claimed
  <1>8. PlacesOK(HostCopies, 0, 0) /\ OutOK(HostCopies, 0, hout) /\ Retired(HostCopies, hd.stage, hd.eob, 0)
    BY <1>1, <1>2, <1>7 DEF HostOut
  <1>9. \A l \in Lane : ~wlanes[l].copy.pending
    BY <1>1 DEF Init, Warp!Init, Warp!Primed, Warp!NoCopy, Warp!Lane, Lane
  <1>10. WarpBounded
    BY <1>3, <1>9 DEF WarpBounded
  <1>11. WarpRests
    BY <1>1, <1>2, <1>4, <1>6, <1>8, TeamAssumption DEF WarpRests, Nobody
  <1>12. Agree /\ Between
    <2>1. 0 \in Lane
      BY LaneAssumption DEF Lane
    <2> QED BY <1>1, <2>1 DEF Agree, Between, Nobody
  <1> QED BY <1>1, <1>2, <1>5, <1>10, <1>11, <1>12 DEF TeamsInv

LEMMA TeamsKept ==
  ASSUME TeamsInv, UNCHANGED vars PROVE TeamsInv'
  <1>1. /\ hd' = hd /\ hlanes' = hlanes /\ hcursor' = hcursor /\ hidx' = hidx /\ hwhy' = hwhy /\ hout' = hout
        /\ wd' = wd /\ wlanes' = wlanes /\ wcursor' = wcursor /\ wwhy' = wwhy /\ wout' = wout
        /\ phase' = phase /\ todo' = todo /\ step' = step /\ turn' = turn /\ page' = page
    BY DEF vars, hostVars, warpVars
  <1>2. Round' = Round /\ Team' = Team /\ WarpCopies' = WarpCopies
    BY <1>1 DEF Round, Team, WarpCopies
  <1>3. (WarpTyped' <=> WarpTyped) /\ (WarpBounded' <=> WarpBounded) /\ (WarpRests' <=> WarpRests)
    BY <1>1, <1>2 DEF WarpTyped, WarpBounded, WarpRests
  <1>4. /\ \A l : (InTodo(l)' <=> InTodo(l)) /\ (Waits(l)' <=> Waits(l))
        /\ \A l : LaneNow(l)' = LaneNow(l) /\ WhyNow(l)' = WhyNow(l)
    BY <1>1, <1>2 DEF InTodo, Waits, LaneNow, WhyNow
  <1>5. LanesNow' = LanesNow /\ \A l : StillPuts(l)' = StillPuts(l)
    BY <1>1, <1>2, <1>4 DEF LanesNow, StillPuts
  <1>6. (RoundAgrees' <=> RoundAgrees) /\ \A i : StopAgrees(i)' <=> StopAgrees(i)
    BY Zenon, <1>1, <1>2, <1>4, <1>5 DEF RoundAgrees, StopAgrees
  <1>7. \A l : StepOK(l)' <=> StepOK(l)
    BY ZenonT(40), <1>1, <1>4 DEF StepOK
  <1>8. (NoHole' <=> NoHole) /\ (CopiesInOrder' <=> CopiesInOrder)
    BY Zenon, <1>1, <1>4 DEF NoHole, CopiesInOrder
  <1>9. WarpSteps' <=> WarpSteps
    BY Zenon, <1>1, <1>4, <1>7, <1>8 DEF WarpSteps
  <1>10. (Agree' <=> Agree) /\ (Between' <=> Between) /\ (Told' <=> Told)
    BY Zenon, <1>1, <1>2 DEF Agree, Between, Told
  <1> QED BY Zenon, <1>1, <1>2, <1>3, <1>6, <1>9, <1>10 DEF TeamsInv

LEMMA WarpTeams ==
  ASSUME HostInv, HostOut, TeamsInv, WarpRound PROVE TeamsInv'
  <1>1. /\ turn = "warp" /\ Warp!Step /\ UNCHANGED hostVars
        /\ turn' = IF phase' = "between" THEN "host" ELSE "warp"
    BY DEF WarpRound
  <1>2. CASE Warp!Header
    BY <1>1, <1>2, WarpHeader
  <1>3. CASE Warp!StoredLength
    BY <1>1, <1>3, WarpLength
  <1>4. CASE Warp!Resolve
    BY <1>1, <1>4, WarpResolve
  <1>5. CASE \E l \in Warp!Lane : Warp!Commit(l)
    <2>1. PICK l \in Lane : Warp!Commit(l)
      BY <1>5 DEF Warp!Lane, Lane
    <2> QED BY <1>1, <2>1, WarpCommit
  <1>6. CASE Warp!Meet
    BY <1>1, <1>6, WarpMeet
  <1>7. CASE Warp!CopyBytes
    BY <1>1, <1>7, WarpCopyBytes
  <1>8. CASE Warp!Refill
    BY <1>1, <1>8, WarpRefill
  <1> QED BY <1>1, <1>2, <1>3, <1>4, <1>5, <1>6, <1>7, <1>8 DEF Warp!Step

LEMMA TeamsStep ==
  ASSUME HostInv, HostOut, TeamsInv, [Next]_vars PROVE TeamsInv'
  BY HostTeams, WarpTeams, TeamsKept DEF Next, Done

\* The warp, whose lanes run in any order between two collectives, is after every round where
\* the sequential team is: the same words, reservations, output, cursor and place in the
\* block, and the same rung when the page is refused; and a round leaves every lane or no
\* lane with a verdict (GDeflateWarpTeam against GDeflateSequentialTeam).
THEOREM ResidenciesAgreeHolds == Spec => []ResidenciesAgree
  <1>1. ASSUME HostInv, HostOut, TeamsInv PROVE ResidenciesAgree
    <2>1. BetweenRounds => Agree
      BY <1>1 DEF BetweenRounds, Between, TeamsInv
    <2>2. phase = "between" => \A l, k \in Lane : (wwhy[l] = "None") <=> (wwhy[k] = "None")
      BY <1>1 DEF TeamsInv, WarpRests
    <2> QED BY <2>1, <2>2 DEF ResidenciesAgree, Agree
  <1> QED BY <1>1, HostStarts, HostStep, OutStarts, OutStep, TeamsStart, TeamsStep, PTL DEF Spec

\* No lane of the warp writes, or holds a reservation, past the capacity; and while no lane
\* has refused, every byte a lane copies has been written: the claims of a round are known to
\* all before any lane consumes a bit, and its matches are retired in lane order
\* (GDeflateWarpTeam's Claim and CopyMatch), for every number of lanes, page and capacity.
THEOREM WarpTouchesOwnBytesHolds == Spec => []WarpTouchesOwnBytes
  <1>1. ASSUME HostInv, HostOut, TeamsInv PROVE WarpTouchesOwnBytes
    <2>1. WarpBounded
      BY <1>1 DEF TeamsInv
    <2>2. Warp!Refuses(wwhy) <=> Refuses(wwhy)
      BY DEF Warp!Refuses, Refuses, Warp!Lane, Lane
    <2>3. ASSUME ~Refuses(wwhy) PROVE \A p \in DOMAIN wout : wout[p] # Unwritten
      <3>1. CASE phase # "between"
        BY <1>1, <2>3, <3>1 DEF TeamsInv, WarpSteps, NoHole
      <3>2. CASE phase = "between"
        <4>1. 0 \in Lane
          BY LaneAssumption DEF Lane
        <4>2. WarpRests
          BY <1>1, <2>3, <3>2, <4>1 DEF TeamsInv, Refuses
        <4> QED BY <4>2 DEF WarpRests, OutOK
      <3> QED BY <3>1, <3>2
    <2> HIDE DEF Unwritten
    <2> QED BY <2>1, <2>2, <2>3 DEF WarpTouchesOwnBytes, WarpBounded
  <1> QED BY <1>1, HostStarts, HostStep, OutStarts, OutStep, TeamsStart, TeamsStep, PTL DEF Spec
=============================================================================
