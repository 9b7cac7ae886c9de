-------------------------- MODULE TileStreamProofs --------------------------
(***************************************************************************)
(* For every envelope, destination and tile size: an accepted TileStream   *)
(* gives each tile bytes of its own, and its answer is about the whole     *)
(* stream. The argument: the offsets ascend, so only the last tile's end   *)
(* has to be compared (SourceAscends, SourceRange); the running sum of the *)
(* output offsets is a multiple of the tile size (Offsets), so the output  *)
(* ranges fill the declared total; what each call left behind it stays     *)
(* true of the file, which no call changes (AnswerInv, InfoInv).           *)
(***************************************************************************)
EXTENDS TileStream, WellFoundedInduction, TLAPS

LEMMA Least ==
  ASSUME NEW T, T \subseteq Nat, T # {}
  PROVE  \E n \in T : \A m \in T : n <= m
<1> DEFINE R == OpToRel(<, Nat)
<1>1. IsWellFoundedOn(R, Nat) BY NatLessThanWellFounded
<1>2. \A a, b \in Nat : a < b => <<a, b>> \in R BY DEF OpToRel
<1> HIDE DEF R
<1>3. PICK n \in T : \A m \in T : ~(<<m, n>> \in R) BY <1>1, WFMin
<1>4. \A m \in T : ~(m < n) BY <1>2, <1>3
<1> QED BY <1>4

LEMMA Induction ==
  ASSUME NEW S, S \subseteq Nat, 0 \in S, \A n \in S : n + 1 \in S
  PROVE  Nat \subseteq S
<1> SUFFICES ASSUME Nat \ S # {} PROVE FALSE OBVIOUS
<1>1. PICK n \in Nat \ S : \A m \in Nat \ S : n <= m BY Least
<1>2. n # 0 /\ n - 1 \in Nat BY <1>1
<1>3. n - 1 \in S BY <1>1, <1>2
<1> QED BY <1>3, <1>1, <1>2

-----------------------------------------------------------------------------
(* The envelope *)

LEMMA Consts ==
  /\ MaxCalls \in Nat \ {0} /\ HeaderBytes \in Nat \ {0} /\ EntryBytes \in Nat \ {0}
  /\ TileSize \in Nat \ {0} /\ WordMax \in Nat \ {0}
  /\ DstCaps \subseteq Nat /\ ResultCaps \subseteq Nat
BY TileStreamAssumption

\* What the parser has established when it accepts.
Admitted(f) ==
  /\ f.count \in Nat \ {0} /\ f.size \in Nat /\ f.last_tile_size \in Nat
  /\ \A i \in Tiles(f) : f.toc[i] \in Nat
  /\ f.toc[0] # 0 /\ f.last_tile_size < TileSize
  /\ Ascends(f) /\ LastEnd(f) <= f.size

LEMMA FileTyped ==
  ASSUME NEW f \in Files
  PROVE  /\ f.count \in Nat /\ f.size \in Nat /\ f.last_tile_size \in Nat
         /\ \A i \in Tiles(f) : f.toc[i] \in Nat
<1>1. IsFile(f) BY TileStreamAssumption
<1>2. f.toc \in [Tiles(f) -> 0 .. WordMax] BY <1>1 DEF IsFile, Tiles
<1>3. \A i \in Tiles(f) : f.toc[i] \in Nat BY <1>2
<1> QED BY <1>1, <1>3 DEF IsFile

LEMMA ParsedIsAdmitted ==
  ASSUME NEW f \in Files, ParseEnvelope(f) = "ok"
  PROVE  Admitted(f)
<1>1. /\ f.count # 0 /\ ~(f.last_tile_size >= TileSize) /\ f.toc[0] # 0
      /\ Ascends(f) /\ ~(LastEnd(f) > f.size)
  BY Zenon DEF ParseEnvelope, Parse
<1>2. f.last_tile_size < TileSize BY <1>1, FileTyped, Consts
<1>3. LastEnd(f) \in Int
  <2>1. 0 \in Tiles(f) /\ f.count - 1 \in Tiles(f) BY FileTyped, <1>1 DEF Tiles
  <2>2. f.toc[0] \in Nat /\ f.toc[f.count - 1] \in Nat BY <2>1, FileTyped
  <2>3. TocEnd(f) \in Nat BY FileTyped, Consts DEF TocEnd
  <2>4. SrcSize(f, f.count - 1) = f.toc[0] BY DEF SrcSize
  <2> QED BY <2>2, <2>3, <2>4 DEF LastEnd, SrcOff
<1> QED BY <1>1, <1>2, <1>3, FileTyped DEF Admitted

LEMMA SourceTyped ==
  ASSUME NEW f, Admitted(f)
  PROVE  TocEnd(f) \in Nat /\ \A i \in Tiles(f) : SrcOff(f, i) \in Nat
<1>1. TocEnd(f) \in Nat BY Consts DEF Admitted, TocEnd
<1> QED BY <1>1 DEF Admitted, SrcOff

LEMMA SourceAscends ==
  ASSUME NEW f, Admitted(f)
  PROVE  \A j \in Tiles(f) : \A i \in Tiles(f) : i < j => SrcOff(f, i) < SrcOff(f, j)
<1> DEFINE S == {j \in Nat : j \in Tiles(f) =>
                   \A i \in Tiles(f) : i < j => SrcOff(f, i) < SrcOff(f, j)}
<1>1. 0 \in S BY DEF Tiles
<1>2. ASSUME NEW j \in S PROVE j + 1 \in S
  <2> SUFFICES ASSUME j + 1 \in Tiles(f), NEW i \in Tiles(f), i < j + 1
               PROVE  SrcOff(f, i) < SrcOff(f, j + 1)
    OBVIOUS
  <2>1. j \in Nat /\ i \in Nat BY DEF Tiles
  <2>2. j \in Tiles(f) /\ j + 1 \in 1 .. f.count - 1 BY <2>1 DEF Tiles, Admitted
  <2>3. SrcOff(f, j) < SrcOff(f, j + 1)
    <3>1. f.toc[j + 1] > SrcOff(f, (j + 1) - 1) BY <2>2 DEF Admitted, Ascends
    <3>2. (j + 1) - 1 = j /\ j + 1 # 0 BY <2>1
    <3>3. SrcOff(f, j + 1) = f.toc[j + 1] BY <3>2 DEF SrcOff
    <3> QED BY <3>1, <3>2, <3>3, SourceTyped, <2>2
  <2>4. i = j \/ i < j BY <2>1
  <2>5. i < j => SrcOff(f, i) < SrcOff(f, j) BY <2>2
  <2> QED BY <2>3, <2>4, <2>5, <2>2, SourceTyped
<1>3. S \subseteq Nat OBVIOUS
<1> HIDE DEF S
<1>4. Nat \subseteq S BY <1>1, <1>2, <1>3, Induction
<1>5. Tiles(f) \subseteq Nat BY DEF Tiles
<1> QED BY <1>4, <1>5 DEF S

\* A tile's bytes end where the next tile's begin, and the last tile's in the stream.
LEMMA SourceRange ==
  ASSUME NEW f, Admitted(f), NEW i \in Tiles(f)
  PROVE  /\ SrcOff(f, i) \in Nat /\ SrcSize(f, i) \in Nat \ {0}
         /\ TocEnd(f) <= SrcOff(f, i) /\ SrcOff(f, i) + SrcSize(f, i) <= f.size
         /\ \A j \in Tiles(f) : i < j => SrcOff(f, i) + SrcSize(f, i) <= SrcOff(f, j)
<1> DEFINE last == f.count - 1
<1>1. 0 \in Tiles(f) /\ last \in Tiles(f) /\ i \in Nat /\ i <= last BY DEF Tiles, Admitted
<1>2. SrcOff(f, i) \in Nat /\ TocEnd(f) \in Nat /\ SrcOff(f, last) \in Nat /\ f.size \in Nat
  BY SourceTyped, <1>1 DEF Admitted
<1>3. TocEnd(f) <= SrcOff(f, i)
  <2>1. SrcOff(f, 0) = TocEnd(f) BY DEF SrcOff
  <2>2. i = 0 \/ 0 < i BY <1>1
  <2> QED BY <2>1, <2>2, <1>1, <1>2, SourceAscends
<1>4. f.toc[0] \in Nat \ {0} BY <1>1 DEF Admitted
<1>5. LastEnd(f) = SrcOff(f, last) + f.toc[0] /\ LastEnd(f) <= f.size
  BY DEF Admitted, LastEnd, SrcSize
<1>6. CASE i = last
  <2>1. SrcSize(f, i) = f.toc[0] BY <1>6 DEF SrcSize
  <2>2. \A j \in Tiles(f) : ~(i < j) BY <1>6 DEF Tiles, Admitted
  <2> QED BY <2>1, <2>2, <1>6, <1>5, <1>4, <1>3, <1>2
<1>7. CASE i # last
  <2>1. i + 1 \in Tiles(f) /\ i < i + 1 BY <1>1, <1>7 DEF Tiles, Admitted
  <2>2. SrcOff(f, i + 1) \in Nat /\ SrcOff(f, i) < SrcOff(f, i + 1)
    BY <2>1, SourceTyped, SourceAscends
  <2>3. SrcSize(f, i) = SrcOff(f, i + 1) - SrcOff(f, i) BY <1>7 DEF SrcSize
  <2>4. SrcSize(f, i) \in Nat \ {0} /\ SrcOff(f, i) + SrcSize(f, i) = SrcOff(f, i + 1)
    BY <2>2, <2>3, <1>2
  <2>5. ASSUME NEW j \in Tiles(f), i < j PROVE SrcOff(f, i + 1) <= SrcOff(f, j)
    <3>1. j \in Nat /\ SrcOff(f, j) \in Nat BY SourceTyped DEF Tiles
    <3>2. j = i + 1 \/ i + 1 < j BY <2>5, <3>1, <1>1
    <3> QED BY <3>1, <3>2, <2>1, <2>2, SourceAscends
  <2>6. SrcOff(f, i + 1) <= SrcOff(f, last)
    <3>1. i < last BY <1>1, <1>7 DEF Admitted
    <3> QED BY <3>1, <2>5, <1>1
  <2>7. SrcOff(f, i) + SrcSize(f, i) <= f.size
    BY <2>2, <2>4, <2>6, <1>2, <1>4, <1>5
  <2> QED BY <2>4, <2>5, <2>7, <1>2, <1>3
<1> QED BY <1>6, <1>7

-----------------------------------------------------------------------------
(* The output *)

LEMMA DstSizes ==
  ASSUME NEW f, Admitted(f), NEW i \in Tiles(f)
  PROVE  /\ DstSize(f, i) \in 1 .. TileSize
         /\ i # f.count - 1 => DstSize(f, i) = TileSize
BY Consts DEF Admitted, DstSize

LEMMA Times ==
  ASSUME NEW k \in Nat
  PROVE  /\ k * TileSize \in Nat /\ (k + 1) * TileSize = k * TileSize + TileSize
         /\ \A n \in Nat : k < n => (k + 1) * TileSize <= n * TileSize
<1>1. k * TileSize \in Nat /\ (k + 1) * TileSize = k * TileSize + TileSize BY Consts
<1>2. ASSUME NEW n \in Nat, k < n PROVE (k + 1) * TileSize <= n * TileSize
  <2>1. PICK d \in Nat : n = (k + 1) + d
    <3>1. n - (k + 1) \in Nat /\ n = (k + 1) + (n - (k + 1)) BY <1>2
    <3> QED BY <3>1
  <2>2. n * TileSize = (k + 1) * TileSize + d * TileSize BY <2>1, Consts
  <2>3. d * TileSize \in Nat /\ (k + 1) * TileSize \in Nat BY Consts
  <2> QED BY <2>2, <2>3
<1> QED BY <1>1, <1>2

IsSum(f, i, g) ==
  g = [k \in 0 .. i |-> IF k = 0 THEN 0 ELSE g[k - 1] + DstSize(f, k - 1)]

\* Only the last tile is short, so every tile begins at a multiple of the tile size.
LEMMA Offsets ==
  ASSUME NEW f, Admitted(f), NEW i \in Tiles(f)
  PROVE  DstOff(f, i) = i * TileSize
<1> DEFINE o[k \in 0 .. i] == IF k = 0 THEN 0 ELSE o[k - 1] + DstSize(f, k - 1)
<1>1. i \in Nat /\ i <= f.count - 1 /\ f.count \in Nat BY DEF Tiles, Admitted
<1>2. \A k \in 1 .. i : DstSize(f, k - 1) = TileSize
  <2> SUFFICES ASSUME NEW k \in 1 .. i PROVE DstSize(f, k - 1) = TileSize OBVIOUS
  <2>1. k - 1 \in Tiles(f) /\ k - 1 # f.count - 1 BY <1>1 DEF Tiles
  <2> QED BY <2>1, DstSizes
<1>3. \E g : IsSum(f, i, g)
  <2> DEFINE g == [k \in 0 .. i |-> k * TileSize]
  <2>1. ASSUME NEW k \in 0 .. i
        PROVE  g[k] = IF k = 0 THEN 0 ELSE g[k - 1] + DstSize(f, k - 1)
    <3>1. CASE k = 0
      <4>1. 0 * TileSize = 0 BY Consts
      <4> QED BY <3>1, <4>1
    <3>2. CASE k # 0
      <4>1. k - 1 \in 0 .. i /\ k - 1 \in Nat /\ k \in 1 .. i /\ (k - 1) + 1 = k BY <3>2, <1>1
      <4>2. k * TileSize = (k - 1) * TileSize + TileSize BY <4>1, Times
      <4>3. g[k] = k * TileSize /\ g[k - 1] = (k - 1) * TileSize BY <4>1
      <4> QED BY <4>1, <4>2, <4>3, <3>2, <1>2
    <3> QED BY <3>1, <3>2
  <2>2. IsSum(f, i, g) BY <2>1 DEF IsSum
  <2> QED BY <2>2
<1>4. o = [k \in 0 .. i |-> IF k = 0 THEN 0 ELSE o[k - 1] + DstSize(f, k - 1)]
  BY <1>3 DEF IsSum
<1>5. DstOff(f, i) = o[i] BY DEF DstOff, o
<1> HIDE DEF o
<1> DEFINE S == {k \in Nat : k <= i => o[k] = k * TileSize}
<1>6. 0 \in S
  <2>1. o[0] = 0 BY <1>4, <1>1
  <2> QED BY <2>1, Consts
<1>7. ASSUME NEW k \in S PROVE k + 1 \in S
  <2> SUFFICES ASSUME k + 1 <= i PROVE o[k + 1] = (k + 1) * TileSize OBVIOUS
  <2>1. k \in Nat /\ k + 1 \in 1 .. i /\ k + 1 \in 0 .. i /\ k <= i /\ (k + 1) - 1 = k
    BY <1>1
  <2>2. o[k + 1] = o[k] + TileSize BY <2>1, <1>4, <1>2
  <2> QED BY <2>1, <2>2, Times
<1>8. S \subseteq Nat OBVIOUS
<1> HIDE DEF S
<1>9. Nat \subseteq S BY <1>6, <1>7, <1>8, Induction
<1> QED BY <1>9, <1>1, <1>5 DEF S

LEMMA Totals ==
  ASSUME NEW f, Admitted(f)
  PROVE  /\ Total(f) \in Nat
         /\ Total(f) = DstOff(f, f.count - 1) + DstSize(f, f.count - 1)
<1>1. f.count - 1 \in Tiles(f) /\ f.count - 1 \in Nat /\ (f.count - 1) + 1 = f.count
  BY DEF Tiles, Admitted
<1>2. DstOff(f, f.count - 1) = (f.count - 1) * TileSize BY <1>1, Offsets
<1>3. f.count * TileSize = (f.count - 1) * TileSize + TileSize BY <1>1, Times
<1>4. (f.count - 1) * TileSize \in Nat BY <1>1, Times
<1> QED BY <1>1, <1>2, <1>3, <1>4, Consts DEF Admitted, Total, DstSize

\* The tiles' ranges follow one another and end at the declared total.
LEMMA OutputRange ==
  ASSUME NEW f, Admitted(f), NEW i \in Tiles(f)
  PROVE  /\ DstOff(f, i) \in Nat /\ DstCap(f, i) \in Nat \ {0}
         /\ DstOff(f, i) + DstCap(f, i) <= Total(f)
         /\ \A j \in Tiles(f) : i < j => DstOff(f, i) + DstCap(f, i) <= DstOff(f, j)
<1> DEFINE last == f.count - 1
<1>1. i \in Nat /\ last \in Nat /\ i <= last /\ last \in Tiles(f) BY DEF Tiles, Admitted
<1>2. DstOff(f, i) = i * TileSize /\ i * TileSize \in Nat BY <1>1, Offsets, Times
<1>3. DstCap(f, i) \in 1 .. TileSize BY DstSizes DEF DstCap
<1>4. DstCap(f, i) \in Nat \ {0} /\ DstCap(f, i) <= TileSize BY <1>3, Consts
<1>5. ASSUME NEW j \in Tiles(f), i < j PROVE DstOff(f, i) + DstCap(f, i) <= DstOff(f, j)
  <2>1. j \in Nat BY DEF Tiles
  <2>2. DstOff(f, j) = j * TileSize /\ j * TileSize \in Nat BY <2>1, Offsets, Times
  <2>3. i * TileSize + TileSize <= j * TileSize BY <1>1, <1>5, <2>1, Times
  <2> QED BY <2>2, <2>3, <1>2, <1>4, Consts
<1>6. DstOff(f, i) + DstCap(f, i) <= Total(f)
  <2>1. CASE i = last BY <2>1, Totals, <1>2, <1>4 DEF DstCap
  <2>2. CASE i # last
    <3>1. i < last BY <1>1, <2>2
    <3>2. DstOff(f, i) + DstCap(f, i) <= DstOff(f, last) BY <3>1, <1>1, <1>5
    <3>3. DstOff(f, last) \in Nat /\ DstSize(f, last) \in Nat
      <4>1. DstSize(f, last) \in 1 .. TileSize BY <1>1, DstSizes
      <4>2. DstOff(f, last) = last * TileSize /\ last * TileSize \in Nat
        BY <1>1, Offsets, Times
      <4> QED BY <4>1, <4>2, Consts
    <3> QED BY <3>2, <3>3, Totals, <1>2, <1>4
  <2> QED BY <2>1, <2>2
<1> QED BY <1>2, <1>4, <1>5, <1>6

\* Every byte below the declared total belongs to a tile.
LEMMA Owner ==
  ASSUME NEW f, Admitted(f), NEW b \in 0 .. Total(f) - 1
  PROVE  \E i \in Tiles(f) : b \in DstOff(f, i) .. DstOff(f, i) + DstCap(f, i) - 1
<1> DEFINE last == f.count - 1
           T == {i \in Tiles(f) : b < DstOff(f, i) + DstCap(f, i)}
<1>1. last \in Tiles(f) /\ b \in Nat /\ Total(f) \in Nat /\ Tiles(f) \subseteq Nat
  BY Totals DEF Tiles, Admitted
<1>2. last \in T BY <1>1, Totals DEF DstCap
<1>3. PICK i \in T : \A m \in T : i <= m BY <1>1, <1>2, Least
<1>4. i \in Nat /\ i \in Tiles(f) BY <1>1, <1>3
<1>5. DstOff(f, i) <= b
  <2>1. CASE i = 0
    <3>1. DstOff(f, 0) = 0 * TileSize BY <1>4, <2>1, Offsets
    <3> QED BY <3>1, <2>1, <1>1, Consts
  <2>2. CASE i # 0
    <3>1. i - 1 \in Tiles(f) /\ i - 1 # last /\ i - 1 \in Nat /\ (i - 1) + 1 = i
      BY <1>4, <2>2 DEF Tiles, Admitted
    <3>2. ~(b < DstOff(f, i - 1) + DstCap(f, i - 1)) BY <3>1, <1>3, <1>4
    <3>3. DstCap(f, i - 1) = TileSize BY <3>1, DstSizes DEF DstCap
    <3>4. DstOff(f, i - 1) = (i - 1) * TileSize /\ DstOff(f, i) = i * TileSize
      BY <3>1, <1>4, Offsets
    <3>5. i * TileSize = (i - 1) * TileSize + TileSize /\ (i - 1) * TileSize \in Nat
      BY <3>1, Times
    <3> QED BY <3>2, <3>3, <3>4, <3>5, <1>1, Consts
  <2> QED BY <2>1, <2>2
<1>6. b < DstOff(f, i) + DstCap(f, i) BY <1>3
<1> QED BY <1>4, <1>5, <1>6, <1>1, OutputRange

-----------------------------------------------------------------------------
(* The plan *)

LEMMA Planned ==
  ASSUME NEW f \in Files, NEW d \in DstCaps, NEW r \in ResultCaps, PlanStatus(f, d, r) = "ok"
  PROVE  /\ Admitted(f) /\ Total(f) <= d /\ f.count <= r
         /\ Tiles(f) \subseteq Slots /\ 0 .. Total(f) - 1 \subseteq Bytes
<1>1. ParseEnvelope(f) = "ok" /\ ~(r < f.count) /\ ~(d < Total(f)) BY Zenon DEF PlanStatus
<1>2. Admitted(f) BY <1>1, ParsedIsAdmitted
<1>3. d \in Nat /\ r \in Nat /\ f.count \in Nat /\ Total(f) \in Nat
  BY <1>2, Consts, Totals DEF Admitted
<1>4. Total(f) <= d /\ f.count <= r BY <1>1, <1>3
<1>5. Tiles(f) \subseteq 0 .. r - 1 /\ 0 .. Total(f) - 1 \subseteq 0 .. d - 1
  BY <1>3, <1>4 DEF Tiles
<1>6. 0 .. r - 1 \subseteq Slots /\ 0 .. d - 1 \subseteq Bytes BY DEF Slots, Bytes
<1> QED BY <1>2, <1>4, <1>5, <1>6

LEMMA AggregateOk ==
  ASSUME NEW f \in Files, NEW r, Aggregate(f, r) = "ok"
  PROVE  \A i \in Tiles(f) : r[i].status = "ok"
<1> DEFINE bad == {i \in Tiles(f) : r[i].status # "ok"}
<1> SUFFICES ASSUME bad # {} PROVE FALSE OBVIOUS
<1>1. bad \subseteq Nat BY DEF Tiles
<1>2. \E x \in bad : \A y \in bad : x <= y BY <1>1, Least
<1>3. Min(bad) \in bad BY <1>2 DEF Min
<1>4. r[Min(bad)].status = "ok" BY Zenon DEF Aggregate
<1> QED BY <1>3, <1>4

-----------------------------------------------------------------------------
(* What the calls leave behind them *)

\* The sizing entry answered for the file every call is about.
InfoInv ==
  \/ info.status \in {"none", "cuda"}
  \/ /\ ParseEnvelope(file) = "ok" /\ info.status = "ok"
     /\ info.tiles = file.count /\ info.size = Total(file)
  \/ ParseEnvelope(file) # "ok" /\ info.status = ParseEnvelope(file)

AskedOk == asked.dst \in DstCaps /\ asked.results \in ResultCaps
AskedPlan == PlanStatus(file, asked.dst, asked.results)

\* What was accepted has a plan, and what was refused has a reason.
AnswerInv ==
  /\ answer.accepted => AskedOk /\ AskedPlan = "ok"
  /\ ~answer.accepted /\ answer.status # "none" =>
       AskedOk /\ answer.status # "ok" /\ answer.status \in {"cuda", AskedPlan}

\* The first half of StreamIsWhole.
SuccessInv ==
  IF answer.status = "ok"
  THEN /\ bytes_written = Total(file)
       /\ \A b \in 0 .. bytes_written - 1 : dst[b] # Caller /\ b \in DstRange(dst[b])
       /\ \A i \in Tiles(file) : records[i] = [status |-> "ok", bytes |-> file.pages[i]]
  ELSE bytes_written = 0

IInv == file \in Files /\ InfoInv /\ AnswerInv /\ SuccessInv

LEMMA InitInv == Init => IInv
BY DEF Init, IInv, InfoInv, AnswerInv, SuccessInv, NoInfo, NoAnswer

\* A run that is not answered with success claims nothing.
LEMMA RunFails ==
  ASSUME NEW r, NEW st, NEW delivered, RunPlan(file, r, st, delivered), st # "ok"
  PROVE  SuccessInv'
<1>1. answer'.status = st /\ bytes_written' = 0 BY DEF RunPlan
<1> QED BY <1>1 DEF SuccessInv

LEMMA RunCompletes ==
  ASSUME file \in Files, file' = file, NEW d \in DstCaps, NEW n \in ResultCaps,
         PlanStatus(file, d, n) = "ok", Completes(file)
  PROVE  SuccessInv'
<1> DEFINE r == Decoded(file, Tiles(file))
           whole == RefuseShort(file, r)
           final == Aggregate(file, whole)
<1>1. RunPlan(file, r, Aggregate(file, r), Tiles(file)) BY DEF Completes
<1>2. CASE Aggregate(file, r) # "ok" BY <1>1, <1>2, RunFails
<1>3. CASE Aggregate(file, r) = "ok"
  <2>1. /\ records' = whole /\ dst' = Stored(file, r, Tiles(file))
        /\ answer' = [status |-> final, accepted |-> TRUE]
        /\ bytes_written' = IF final = "ok" THEN Total(file) ELSE 0
    BY <1>1, <1>3 DEF RunPlan
  <2> HIDE DEF whole, final
  <2>2. CASE final # "ok" BY <2>1, <2>2 DEF SuccessInv
  <2>3. CASE final = "ok"
    <3>1. Admitted(file) /\ Tiles(file) \subseteq Slots /\ 0 .. Total(file) - 1 \subseteq Bytes
      BY Planned
    <3>2. ASSUME NEW i \in Tiles(file)
          PROVE  /\ r[i].status = "ok" /\ r[i].bytes = DstCap(file, i)
                 /\ whole[i] = [status |-> "ok", bytes |-> file.pages[i]]
      <4>1. i \in Slots BY <3>1
      <4>2. whole[i].status = "ok" BY <2>3, AggregateOk DEF final
      <4>3. whole[i] = IF r[i].bytes # DstCap(file, i)
                       THEN [status |-> "corrupt", bytes |-> 0] ELSE r[i]
        BY <4>1 DEF whole, RefuseShort
      <4>4. r[i].bytes = DstCap(file, i) /\ whole[i] = r[i] BY <4>2, <4>3
      <4>5. r[i] = PageResult(file, i) BY <4>1 DEF Decoded
      <4>6. PageResult(file, i).status = "ok" BY <4>2, <4>4, <4>5
      <4>7. PageResult(file, i) = [status |-> "ok", bytes |-> file.pages[i]]
        BY <4>6 DEF PageResult
      <4> QED BY <4>4, <4>5, <4>6, <4>7
    <3> HIDE DEF r
    <3>3. ASSUME NEW b \in 0 .. Total(file) - 1
          PROVE  dst'[b] # Caller /\ b \in DstOff(file, dst'[b]) ..
                                           DstOff(file, dst'[b]) + DstCap(file, dst'[b]) - 1
      <4> DEFINE Owns(i) == b \in DstOff(file, i) .. DstOff(file, i) + DstCap(file, i) - 1
                 mine == {i \in Tiles(file) :
                            /\ r[i].status = "ok"
                            /\ b \in DstOff(file, i) .. DstOff(file, i) + r[i].bytes - 1}
      <4>1. PICK k \in Tiles(file) : Owns(k) BY <3>1, Owner
      <4>2. k \in mine BY <4>1, <3>2
      <4>3. ASSUME NEW i \in mine PROVE i = k
        <5>1. i \in Tiles(file) /\ Owns(i) BY <4>3, <3>2
        <5>2. i \in Nat /\ k \in Nat /\ b \in Nat BY <5>1 DEF Tiles
        <5>3. /\ DstOff(file, i) \in Nat /\ DstCap(file, i) \in Nat
              /\ DstOff(file, k) \in Nat /\ DstCap(file, k) \in Nat
          BY <5>1, <3>1, OutputRange
        <5>4. /\ DstOff(file, i) <= b /\ b < DstOff(file, i) + DstCap(file, i)
              /\ DstOff(file, k) <= b /\ b < DstOff(file, k) + DstCap(file, k)
          BY <5>1, <4>1, <5>2, <5>3
        <5>5. ~(i < k) BY <5>1, <3>1, OutputRange, <5>2, <5>3, <5>4
        <5>6. ~(k < i) BY <5>1, <3>1, OutputRange, <5>2, <5>3, <5>4
        <5> QED BY <5>2, <5>5, <5>6
      <4>4. dst'[b] = IF mine = {} THEN Caller ELSE Max(mine)
        <5>1. b \in Bytes BY <3>1
        <5> QED BY <5>1, <2>1 DEF Stored
      <4> HIDE DEF mine
      <4>5. Max(mine) = k
        <5>1. mine = {k} BY <4>2, <4>3
        <5>2. k \in Nat BY DEF Tiles
        <5> QED BY <5>1, <5>2 DEF Max
      <4>6. dst'[b] = k BY <4>2, <4>4, <4>5
      <4>7. k # Caller BY DEF Caller, Tiles
      <4> QED BY <4>1, <4>6, <4>7
    <3>4. answer'.status = "ok" /\ bytes_written' = Total(file) BY <2>1, <2>3
    <3>5. \A i \in Tiles(file) : records'[i] = [status |-> "ok", bytes |-> file.pages[i]]
      BY <3>2, <2>1
    <3> QED BY <3>3, <3>4, <3>5 DEF SuccessInv, DstRange
  <2> QED BY <2>2, <2>3
<1> QED BY <1>2, <1>3

\* However a plan's run ends.
Runs ==
  \/ Completes(file) \/ Declines(file) \/ NeverRuns(file)
  \/ Faults(file)

LEMMA RunKeeps ==
  ASSUME IInv, NEW d \in DstCaps, NEW n \in ResultCaps, Accepts(d, n), Runs
  PROVE  IInv'
<1>1. /\ file' = file /\ info' = info /\ PlanStatus(file, d, n) = "ok"
      /\ asked'.dst = d /\ asked'.results = n
  BY DEF Accepts, Asks
<1>2. answer'.accepted
  BY DEF Runs, Completes, Declines, NeverRuns, Faults, RunPlan
<1>3. InfoInv' BY <1>1 DEF IInv, InfoInv
<1>4. AnswerInv' BY <1>1, <1>2 DEF AnswerInv, AskedOk, AskedPlan
<1>5. SuccessInv'
  <2>1. CASE Completes(file) BY <2>1, <1>1, RunCompletes DEF IInv
  <2>2. CASE Declines(file) BY <2>2, RunFails DEF Declines
  <2>3. CASE NeverRuns(file) BY <2>3, RunFails DEF NeverRuns
  <2>4. CASE Faults(file)
    <3>1. PICK done \in SUBSET Tiles(file) : \E delivered \in SUBSET done :
            RunPlan(file, Decoded(file, done), "cuda", delivered)
      BY <2>4 DEF Faults
    <3>2. PICK delivered \in SUBSET done :
            RunPlan(file, Decoded(file, done), "cuda", delivered)
      BY <3>1
    <3> QED BY <3>2, RunFails
  <2> QED BY <2>1, <2>2, <2>3, <2>4 DEF Runs
<1> QED BY <1>1, <1>3, <1>4, <1>5 DEF IInv

LEMMA RefuseKeeps ==
  ASSUME IInv, NEW d \in DstCaps, NEW n \in ResultCaps, Refuse(d, n)
  PROVE  IInv'
<1>1. /\ file' = file /\ info' = info /\ asked'.dst = d /\ asked'.results = n
      /\ bytes_written' = 0
  BY DEF Refuse, Asks
<1>2. PICK st \in {"cuda", PlanStatus(file, d, n)} \ {"ok"} :
        answer' = [status |-> st, accepted |-> FALSE]
  BY DEF Refuse
<1>3. answer'.status = st /\ ~answer'.accepted /\ st # "ok" BY <1>2
<1>4. InfoInv' BY <1>1 DEF IInv, InfoInv
<1>5. AnswerInv' BY <1>1, <1>2, <1>3 DEF AnswerInv, AskedOk, AskedPlan
<1>6. SuccessInv' BY <1>1, <1>3 DEF SuccessInv
<1> QED BY <1>1, <1>4, <1>5, <1>6 DEF IInv

LEMMA InfoKeeps ==
  ASSUME IInv, Info
  PROVE  IInv'
<1>1. UNCHANGED <<file, asked, answer, records, bytes_written, dst>> BY DEF Info
<1>2. InfoInv'
  <2>1. CASE info' = [NoInfo EXCEPT !.status = "cuda"]
    <3>1. info'.status = "cuda" BY <2>1 DEF NoInfo
    <3> QED BY <3>1 DEF InfoInv
  <2>2. CASE /\ ParseEnvelope(file) = "ok"
             /\ info' = [status |-> "ok", tiles |-> file.count, size |-> Total(file)]
    BY <2>2, <1>1 DEF InfoInv
  <2>3. CASE /\ ParseEnvelope(file) # "ok"
             /\ info' = [NoInfo EXCEPT !.status = ParseEnvelope(file)]
    <3>1. info'.status = ParseEnvelope(file) BY <2>3 DEF NoInfo
    <3> QED BY <3>1, <2>3, <1>1 DEF InfoInv
  <2> QED BY <2>1, <2>2, <2>3 DEF Info
<1> QED BY <1>1, <1>2
     DEF IInv, AnswerInv, AskedOk, AskedPlan, SuccessInv, DstRange

LEMMA NextInv == IInv /\ [Next]_vars => IInv'
<1> SUFFICES ASSUME IInv, [Next]_vars PROVE IInv' OBVIOUS
<1>1. CASE Info BY <1>1, InfoKeeps
<1>2. CASE CreateContext \/ UNCHANGED vars
  <2>1. UNCHANGED <<file, info, asked, answer, records, bytes_written, dst>>
    BY <1>2 DEF CreateContext, vars
  <2> QED BY <2>1 DEF IInv, InfoInv, AnswerInv, AskedOk, AskedPlan, SuccessInv, DstRange
<1>3. ASSUME NEW d \in DstCaps, NEW n \in ResultCaps, Refuse(d, n) PROVE IInv'
  BY <1>3, RefuseKeeps
<1>4. ASSUME NEW d \in DstCaps, NEW n \in ResultCaps, DecompressCtx(d, n) PROVE IInv'
  BY <1>4, RunKeeps DEF DecompressCtx, Runs
<1>5. ASSUME NEW d \in DstCaps, NEW n \in ResultCaps, OneShot(d, n) PROVE IInv'
  BY <1>5, RunKeeps DEF OneShot, Runs
<1> QED BY <1>1, <1>2, <1>3, <1>4, <1>5 DEF Next

LEMMA Invariance == Spec => []IInv
BY InitInv, NextInv, PTL DEF Spec

LEMMA TilesInv == IInv => TilesHaveTheirOwn
<1> SUFFICES ASSUME IInv, answer.accepted
             PROVE  /\ \A i \in Tiles(file) :
                         /\ SrcRange(i) # {} /\ SrcRange(i) \subseteq TocEnd(file) .. file.size - 1
                         /\ DstRange(i) # {} /\ DstRange(i) \subseteq 0 .. asked.dst - 1
                         /\ i < asked.results
                    /\ \A i, j \in Tiles(file) :
                         i # j => SrcRange(i) \cap SrcRange(j) = {} /\ DstRange(i) \cap DstRange(j) = {}
                    /\ UNION {DstRange(i) : i \in Tiles(file)} = 0 .. Total(file) - 1
  BY DEF TilesHaveTheirOwn
<1>1. file \in Files /\ AskedOk /\ AskedPlan = "ok" BY DEF IInv, AnswerInv
<1>2. Admitted(file) /\ Total(file) <= asked.dst /\ file.count <= asked.results
  BY <1>1, Planned DEF AskedOk, AskedPlan
<1>3. /\ asked.dst \in Nat /\ asked.results \in Nat /\ Total(file) \in Nat
      /\ file.size \in Nat /\ TocEnd(file) \in Nat /\ file.count \in Nat
  BY <1>1, <1>2, Consts, Totals, SourceTyped DEF AskedOk, Admitted
<1>4. ASSUME NEW i \in Tiles(file)
      PROVE  /\ SrcRange(i) # {} /\ SrcRange(i) \subseteq TocEnd(file) .. file.size - 1
             /\ DstRange(i) # {} /\ DstRange(i) \subseteq 0 .. asked.dst - 1
             /\ DstRange(i) \subseteq 0 .. Total(file) - 1
             /\ i < asked.results
  <2>1. /\ SrcOff(file, i) \in Nat /\ SrcSize(file, i) \in Nat \ {0}
        /\ TocEnd(file) <= SrcOff(file, i)
        /\ SrcOff(file, i) + SrcSize(file, i) <= file.size
    BY <1>2, SourceRange
  <2>2. /\ DstOff(file, i) \in Nat /\ DstCap(file, i) \in Nat \ {0}
        /\ DstOff(file, i) + DstCap(file, i) <= Total(file)
    BY <1>2, OutputRange
  <2>3. SrcOff(file, i) \in SrcRange(i) BY <2>1 DEF SrcRange
  <2>4. SrcRange(i) \subseteq TocEnd(file) .. file.size - 1 BY <2>1, <1>3 DEF SrcRange
  <2>5. DstOff(file, i) \in DstRange(i) BY <2>2 DEF DstRange
  <2>6. DstRange(i) \subseteq 0 .. Total(file) - 1 BY <2>2, <1>3 DEF DstRange
  <2>7. 0 .. Total(file) - 1 \subseteq 0 .. asked.dst - 1 BY <1>2, <1>3
  <2>8. i < asked.results BY <1>2, <1>3 DEF Tiles
  <2> QED BY <2>3, <2>4, <2>5, <2>6, <2>7, <2>8
<1>5. ASSUME NEW i \in Tiles(file), NEW j \in Tiles(file), i < j
      PROVE  SrcRange(i) \cap SrcRange(j) = {} /\ DstRange(i) \cap DstRange(j) = {}
  <2>1. /\ SrcOff(file, i) \in Nat /\ SrcSize(file, i) \in Nat /\ SrcOff(file, j) \in Nat
        /\ SrcSize(file, j) \in Nat
        /\ SrcOff(file, i) + SrcSize(file, i) <= SrcOff(file, j)
    BY <1>2, <1>5, SourceRange
  <2>2. /\ DstOff(file, i) \in Nat /\ DstCap(file, i) \in Nat /\ DstOff(file, j) \in Nat
        /\ DstCap(file, j) \in Nat
        /\ DstOff(file, i) + DstCap(file, i) <= DstOff(file, j)
    BY <1>2, <1>5, OutputRange
  <2> QED BY <2>1, <2>2 DEF SrcRange, DstRange
<1>6. \A i, j \in Tiles(file) :
        i # j => SrcRange(i) \cap SrcRange(j) = {} /\ DstRange(i) \cap DstRange(j) = {}
  <2>1. \A i, j \in Tiles(file) : i # j => i < j \/ j < i BY DEF Tiles
  <2> QED BY <2>1, <1>5
<1>7. UNION {DstRange(i) : i \in Tiles(file)} = 0 .. Total(file) - 1
  <2>1. \A b \in 0 .. Total(file) - 1 : \E i \in Tiles(file) : b \in DstRange(i)
    BY <1>2, Owner DEF DstRange
  <2> QED BY <2>1, <1>4
<1> QED BY <1>4, <1>6, <1>7

LEMMA WholeInv == IInv => StreamIsWhole
<1> SUFFICES ASSUME IInv, info.status \notin {"none", "cuda"}, answer.status # "none",
                    ~answer.accepted
             PROVE  \/ answer.status \in {"cuda", info.status}
                    \/ /\ info.status = "ok"
                       /\ (asked.dst < info.size \/ asked.results < info.tiles)
  BY DEF IInv, SuccessInv, StreamIsWhole
<1>1. /\ answer.status # "ok"
      /\ answer.status = "cuda" \/ answer.status = AskedPlan
  BY DEF IInv, AnswerInv
<1>2. CASE answer.status = "cuda" BY <1>2
<1>3. CASE answer.status = AskedPlan
  <2>1. CASE ParseEnvelope(file) # "ok"
    <3>1. AskedPlan = ParseEnvelope(file) BY <2>1 DEF AskedPlan, PlanStatus
    <3>2. info.status = ParseEnvelope(file) BY <2>1 DEF IInv, InfoInv
    <3> QED BY <3>1, <3>2, <1>3
  <2>2. CASE ParseEnvelope(file) = "ok"
    <3>1. info.status = "ok" /\ info.tiles = file.count /\ info.size = Total(file)
      BY <2>2 DEF IInv, InfoInv
    <3>2. asked.results < file.count \/ asked.dst < Total(file)
      BY <2>2, <1>1, <1>3, Zenon DEF AskedPlan, PlanStatus
    <3> QED BY <3>1, <3>2
  <2> QED BY <2>1, <2>2
<1> QED BY <1>1, <1>2, <1>3

\* Whatever a caller does with a TileStream, an accepted envelope gives every tile
\* compressed bytes and output bytes of its own: although only the last tile's end is
\* compared with the stream's, and the table's offsets only with one another.
THEOREM TilesHaveTheirOwnHolds == Spec => []TilesHaveTheirOwn
BY Invariance, TilesInv, PTL

\* Whatever a caller does with a TileStream, success covers exactly the bytes the tiles'
\* own pages decoded to, and what the sizing entry answered holds for the decode.
THEOREM StreamIsWholeHolds == Spec => []StreamIsWhole
BY Invariance, WholeInv, PTL
=============================================================================
