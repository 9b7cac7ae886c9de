---------------------------- MODULE LaunchProofs ----------------------------
(***************************************************************************)
(* Who launches the kernels, and what comes of it, for every geometry,     *)
(* batch size, corpus and fault: every grid takes every chunk once and     *)
(* whole waves, an OK of submit_batch means such a grid, and a benchmark   *)
(* reports nothing it has not measured on a corpus it has checked.         *)
(***************************************************************************)
EXTENDS Launches, FiniteSetTheorems, FunctionTheorems, TLAPS

-----------------------------------------------------------------------------
(* Division by the wave size.                                              *)

LEMMA ModRange ==
  ASSUME NEW a \in Nat, NEW w \in Nat \ {0}
  PROVE  a % w \in 0..w - 1
BY SMT

LEMMA ModOfLane ==
  ASSUME NEW w \in Nat \ {0}, NEW a \in 0..w - 1
  PROVE  a % w = a
BY SMT

LEMMA ModUnique ==
  ASSUME NEW w \in Nat \ {0}, NEW q \in Nat, NEW r \in 0..w - 1
  PROVE  (w * q + r) % w = r
BY SMT

LEMMA DivMod ==
  ASSUME NEW a \in Nat, NEW w \in Nat \ {0}
  PROVE  a \div w \in Nat /\ a = w * (a \div w) + (a % w)
BY SMT

-----------------------------------------------------------------------------
(* Which thread decodes which chunk.                                       *)

LEMMA GridConsts ==
  /\ Widths \subseteq Nat \ {0} /\ BlockWarps \in Nat \ {0} /\ kZstdBlockThreads \in Nat \ {0}
  /\ MaxBlocks \in Nat \ {0} /\ Grids \subseteq Nat \ {0} /\ Dims \subseteq Nat \ {0}
  /\ Counts \subseteq Nat \ {0} /\ IndexLimit \in Nat \ {0}
  /\ \A w \in Widths : IndexLimit % w = 0
  /\ kMaxBatchChunks \in Nat /\ kCudaWaveSize \in Widths
BY LaunchAssumption, BenchAssumption DEF Grid!GeometryConstants, Submit!SubmitConstants

\* The launches there may be.
Launchable == [kernel : Grid!Kernels, width : Widths, blocks : Nat, dim : Nat, count : Nat]
Admits(s) == s \in Launchable /\ ~Grid!Refuses(s)
NoWrap(s) == s.kernel = "zstd" \/ s.blocks * s.dim <= IndexLimit

\* A multiple is divided without rest.
LEMMA Divided ==
  ASSUME NEW a \in Nat, NEW w \in Nat \ {0}, a % w = 0
  PROVE  \E q \in Nat : a = w * q /\ a \div w = q
<1>1. a \div w \in Nat /\ a = w * (a \div w) + (a % w) BY DivMod
<1>2. PICK q \in Nat : q = a \div w BY <1>1
<1>3. PICK p \in Nat : p = w * q OBVIOUS
<1>4. a = p BY <1>1, <1>2, <1>3
<1> QED BY <1>2, <1>3, <1>4

LEMMA DivUnique ==
  ASSUME NEW w \in Nat \ {0}, NEW q \in Nat, NEW r \in 0..w - 1
  PROVE  (w * q + r) \div w = q
BY SMT

LEMMA MulAssoc == \A a, b, c \in Nat : (a * b) * c = a * (b * c)
BY SMT
LEMMA MulComm == \A a, b \in Nat : a * b = b * a /\ a * b \in Nat
BY SMT
LEMMA Distrib == \A a, b, c \in Nat : a * (b + c) = a * b + a * c
BY SMT
\* A position in row e of rows of w is below every row further down.
LEMMA InRow ==
  ASSUME NEW w \in Nat, NEW e \in Nat, NEW n \in Nat, e < n, NEW r \in Nat, r < w
  PROVE  w * e + r < w * n
<1>1. PICK d \in Nat : n = e + 1 + d BY n - e - 1 \in Nat
<1>2. w * n = w * (e + 1) + w * d BY <1>1, Distrib
<1>3. w * (e + 1) = w * e + w * 1 BY Distrib
<1>4. w * 1 = w /\ w * d \in Nat /\ w * e \in Nat BY MulComm
<1> QED BY <1>2, <1>3, <1>4

\* The index wraps at a multiple of the width: it wraps at a whole wave.
LEMMA WrapsWhole ==
  ASSUME NEW w \in Nat \ {0}, NEW q \in Nat \ {0}, NEW z \in Nat, NEW r \in 0..w - 1
  PROVE  ((w * z + r) % (w * q)) \div w = z % q
<1>1. PICK i \in Nat, j \in Nat : i = z \div q /\ j = z % q /\ j < q /\ z = q * i + j
  BY DivMod, ModRange
<1>2. PICK p \in Nat : p = w * j + r BY MulComm
<1>3. PICK m \in Nat : m = w * q BY MulComm
<1>4. p < m BY <1>1, <1>2, <1>3, InRow
<1>5. w * z = m * i + w * j
  <2>1. w * z = w * (q * i) + w * j BY <1>1, Distrib, MulComm
  <2>2. w * (q * i) = m * i BY <1>3, MulAssoc
  <2> QED BY <2>1, <2>2
<1>6. w * z + r = m * i + p
  <2>1. w * j \in Nat /\ m * i \in Nat BY MulComm
  <2> QED BY <2>1, <1>5, <1>2
<1>7. m \in Nat \ {0} /\ p \in 0..m - 1 BY <1>4
<1>8. (m * i + p) % m = p BY <1>7, ModUnique
<1>9. p \div w = j BY <1>2, DivUnique
<1> QED BY <1>1, <1>3, <1>6, <1>8, <1>9

\* A block is m whole waves, the index q of them before it wraps.
Wave(s, m, q) ==
  /\ s.dim = s.width * m /\ IndexLimit = s.width * q
  /\ Grid!Stride(s) = s.blocks * m
Seat(s, b, y, r) == <<b, s.width * y + r>>

LEMMA Waves ==
  ASSUME NEW s, Admits(s), s.kernel # "zstd"
  PROVE  \E m, q \in Nat \ {0} : Wave(s, m, q) /\ s.blocks \in Nat \ {0}
<1>1. /\ s.width \in Nat \ {0} /\ s.dim \in Nat /\ s.blocks \in Nat
      /\ s.dim % s.width = 0 /\ Grid!TotalWaves(s) # 0 /\ IndexLimit % s.width = 0
  BY GridConsts DEF Admits, Launchable, Grid!Refuses
<1>2. PICK m \in Nat : s.dim = s.width * m BY <1>1, Divided
<1>3. PICK q \in Nat : IndexLimit = s.width * q BY <1>1, GridConsts, Divided
<1>4. Grid!TotalWaves(s) = s.blocks * m
  <2>1. s.blocks * s.dim = s.width * (s.blocks * m)
    <3>1. s.blocks * (s.width * m) = (s.blocks * s.width) * m BY <1>1, MulAssoc
    <3>2. (s.width * s.blocks) * m = s.width * (s.blocks * m) BY <1>1, MulAssoc
    <3>3. s.blocks * s.width = s.width * s.blocks BY <1>1, MulComm
    <3> QED BY <1>2, <3>1, <3>2, <3>3
  <2>2. PICK e \in Nat : e = s.blocks * m BY <1>1, MulComm
  <2>3. PICK p \in Nat : p = s.width * e BY <1>1, MulComm
  <2>4. (s.width * e + 0) \div s.width = e BY <1>1, DivUnique
  <2>5. s.width * e + 0 = s.width * e BY <2>3
  <2> QED BY <2>1, <2>2, <2>4, <2>5 DEF Grid!TotalWaves
<1>5. m # 0 /\ s.blocks # 0
  <2>1. 0 * m = 0 /\ s.blocks * 0 = 0 BY <1>1
  <2> QED BY <1>1, <1>4, <2>1
<1>6. q # 0
  <2>1. s.width * 0 = 0 BY <1>1
  <2> QED BY <1>3, <2>1, GridConsts
<1> QED BY <1>1, <1>2, <1>3, <1>4, <1>5, <1>6 DEF Wave, Grid!Stride

LEMMA Seats ==
  ASSUME NEW s, Admits(s), s.kernel # "zstd", NEW m \in Nat \ {0}, NEW q \in Nat \ {0}, Wave(s, m, q),
         NEW b \in 0..s.blocks - 1, NEW y \in 0..m - 1, NEW r \in 0..s.width - 1
  PROVE  /\ Seat(s, b, y, r) \in Grid!Threads(s)
         /\ Grid!First(s, Seat(s, b, y, r)) = (b * m + y) % q
         /\ Grid!LaneOf(s, Seat(s, b, y, r)) = r
         /\ Seat(s, b, y, r)[2] \div s.width = y
<1>1. s.width \in Nat \ {0} /\ s.blocks \in Nat /\ s.dim = s.width * m
  BY GridConsts DEF Admits, Launchable, Wave
<1>2. PICK x \in Nat : x = s.width * y + r BY <1>1, MulComm
<1>3. x < s.dim BY <1>1, <1>2, InRow
<1>4. x % s.width = r
  <2>1. y \in Nat /\ s.width \in Nat \ {0} BY <1>1
  <2>2. (s.width * y + r) % s.width = r BY <2>1, ModUnique
  <2> QED BY <1>2, <2>2
<1>5. ((b * s.dim + x) % IndexLimit) \div s.width = (b * m + y) % q
  <2>1. PICK z \in Nat : z = b * m + y BY <1>1, MulComm
  <2>2. b * s.dim + x = s.width * z + r
    <3>1. b * s.dim = s.width * (b * m)
      <4>1. b \in Nat BY <1>1
      <4>2. b * (s.width * m) = (b * s.width) * m /\ (s.width * b) * m = s.width * (b * m)
        BY <1>1, <4>1, MulAssoc
      <4>3. b * s.width = s.width * b BY <1>1, <4>1, MulComm
      <4> QED BY <1>1, <4>2, <4>3
    <3>2. s.width * z = s.width * (b * m) + s.width * y
      <4>1. b \in Nat /\ b * m \in Nat /\ y \in Nat BY <1>1, MulComm
      <4> QED BY <1>1, <2>1, <4>1, Distrib
    <3>3. s.width * (b * m) \in Nat /\ s.width * y \in Nat
      <4>1. b \in Nat /\ b * m \in Nat /\ y \in Nat BY <1>1, MulComm
      <4> QED BY <1>1, <4>1, MulComm
    <3> QED BY <1>2, <3>1, <3>2, <3>3
  <2>3. ((s.width * z + r) % (s.width * q)) \div s.width = z % q BY <1>1, WrapsWhole
  <2> QED BY <2>1, <2>2, <2>3 DEF Wave
<1>6. x \div s.width = y BY <1>1, <1>2, DivUnique
<1>7. Seat(s, b, y, r) = <<b, x>> BY <1>2 DEF Seat
<1>8. x \in 0..s.dim - 1
  <2>1. s.dim \in Nat BY DEF Admits, Launchable
  <2> QED BY <1>2, <1>3, <2>1
<1> QED BY <1>4, <1>5, <1>6, <1>7, <1>8 DEF Grid!Threads, Grid!First, Grid!LaneOf

LEMMA Seated ==
  ASSUME NEW s, Admits(s), s.kernel # "zstd", NEW m \in Nat \ {0}, NEW q \in Nat \ {0}, Wave(s, m, q),
         NEW t \in Grid!Threads(s)
  PROVE  \E b \in 0..s.blocks - 1, y \in 0..m - 1, r \in 0..s.width - 1 : t = Seat(s, b, y, r)
<1>1. s.width \in Nat \ {0} /\ s.blocks \in Nat /\ s.dim = s.width * m /\ s.dim \in Nat
  BY GridConsts DEF Admits, Launchable, Wave
<1>2. PICK b \in 0..s.blocks - 1, x \in 0..s.dim - 1 : t = <<b, x>> BY DEF Grid!Threads
<1>3. PICK y \in Nat, r \in 0..s.width - 1 : y = x \div s.width /\ x = s.width * y + r
  <2>1. x \in Nat BY <1>1
  <2>2. x \div s.width \in Nat /\ x = s.width * (x \div s.width) + (x % s.width)
    BY <1>1, <2>1, DivMod
  <2>3. x % s.width \in 0..s.width - 1 BY <1>1, <2>1, ModRange
  <2> QED BY <2>2, <2>3
<1>4. y < m
  <2>1. SUFFICES ASSUME y >= m PROVE FALSE BY <1>3
  <2>2. PICK d \in Nat : y = m + d BY <2>1, y - m \in Nat
  <2>3. s.width * y = s.width * m + s.width * d BY <1>1, <2>2, Distrib
  <2>4. s.width * d \in Nat BY <1>1, MulComm
  <2> QED BY <1>1, <1>3, <2>3, <2>4
<1> QED BY <1>2, <1>3, <1>4 DEF Seat

\* The threads that come to chunk e of a pass in lane l, and where the thread of another
\* lane sits.
Sharing(s, e, l) == {t \in Grid!Threads(s) : Grid!First(s, t) = e /\ Grid!LaneOf(s, t) = l}
Beside(t, l, k) == <<t[1], (t[2] - l) + k>>

LEMMA BesideShares ==
  ASSUME NEW s, Admits(s), NEW e, NEW l \in Grid!Lanes(s), NEW k \in Grid!Lanes(s),
         NEW t \in Sharing(s, e, l)
  PROVE  Beside(t, l, k) \in Sharing(s, e, k) /\ Beside(Beside(t, l, k), k, l) = t
<1>1. s.width \in Nat \ {0} /\ s.blocks \in Nat /\ s.dim \in Nat
  BY GridConsts DEF Admits, Launchable
<1>2. t \in Grid!Threads(s) /\ Grid!First(s, t) = e /\ Grid!LaneOf(s, t) = l BY DEF Sharing
<1>3. CASE s.kernel = "zstd"
  <2>1. l \in 0..s.dim - 1 /\ k \in 0..s.dim - 1 BY <1>3 DEF Grid!Lanes
  <2>2. PICK b \in 0..s.blocks - 1, x \in 0..s.dim - 1 : t = <<b, x>> BY <1>2 DEF Grid!Threads
  <2>3. b = e /\ x = l BY <1>2, <1>3, <2>2 DEF Grid!First, Grid!LaneOf
  <2>4. Beside(t, l, k) = <<b, k>> BY <1>1, <2>1, <2>2, <2>3 DEF Beside
  <2>5. Beside(Beside(t, l, k), k, l) = <<b, l>> BY <1>1, <2>1, <2>4 DEF Beside
  <2>6. <<b, k>> \in Sharing(s, e, k)
    BY <1>3, <2>1, <2>3 DEF Sharing, Grid!Threads, Grid!First, Grid!LaneOf
  <2> QED BY <2>2, <2>3, <2>4, <2>5, <2>6
<1>4. CASE s.kernel # "zstd"
  <2>1. l \in 0..s.width - 1 /\ k \in 0..s.width - 1 BY <1>4 DEF Grid!Lanes
  <2>2. PICK m \in Nat \ {0}, q \in Nat \ {0} : Wave(s, m, q) BY <1>4, Waves
  <2>3. PICK b \in 0..s.blocks - 1, y \in 0..m - 1, r \in 0..s.width - 1 : t = Seat(s, b, y, r)
    BY <1>2, <1>4, <2>2, Seated
  <2>4. r = l /\ e = (b * m + y) % q BY <1>2, <1>4, <2>2, <2>3, Seats
  <2>5. Seat(s, b, y, k) \in Sharing(s, e, k) BY <1>4, <2>1, <2>2, <2>4, Seats DEF Sharing
  <2>6. PICK p \in Nat : p = s.width * y
    <3>1. y \in Nat BY <2>2
    <3> QED BY <1>1, <3>1, MulComm
  <2>7. Beside(t, l, k) = <<b, p + k>> /\ Seat(s, b, y, k) = <<b, p + k>>
    BY <1>1, <2>1, <2>3, <2>4, <2>6 DEF Beside, Seat
  <2>8. Beside(<<b, p + k>>, k, l) = <<b, p + l>> /\ t = <<b, p + l>>
    BY <1>1, <2>1, <2>3, <2>4, <2>6 DEF Beside, Seat
  <2> QED BY <2>5, <2>7, <2>8
<1> QED BY <1>3, <1>4

LEMMA ThreadsFinite ==
  ASSUME NEW s, Admits(s)
  PROVE  \A S \in SUBSET Grid!Threads(s) : IsFiniteSet(S) /\ Cardinality(S) \in Nat
<1>1. s.blocks - 1 \in Int /\ s.dim - 1 \in Int BY DEF Admits, Launchable
<1>2. IsFiniteSet(0..s.blocks - 1) /\ IsFiniteSet(0..s.dim - 1) BY <1>1, FS_Interval
<1>3. IsFiniteSet(Grid!Threads(s)) BY <1>2, FS_Product DEF Grid!Threads
<1> QED BY <1>3, FS_Subset, FS_CardinalityType

\* Every lane of a wave, or thread of a Zstd block, comes to a chunk as often as any other.
LEMMA SameNumber ==
  ASSUME NEW s, Admits(s), NEW e, NEW l \in Grid!Lanes(s), NEW k \in Grid!Lanes(s)
  PROVE  Cardinality(Sharing(s, e, l)) = Cardinality(Sharing(s, e, k))
<1> DEFINE S == Sharing(s, e, l)
           T == Sharing(s, e, k)
           F == [t \in S |-> Beside(t, l, k)]
<1>1. F \in [S -> T] BY BesideShares
<1>2. \A a, b \in S : F[a] = F[b] => a = b
  <2> SUFFICES ASSUME NEW a \in S, NEW b \in S, F[a] = F[b] PROVE a = b OBVIOUS
  <2>1. Beside(a, l, k) = Beside(b, l, k) OBVIOUS
  <2>2. Beside(Beside(a, l, k), k, l) = a BY BesideShares
  <2>3. Beside(Beside(b, l, k), k, l) = b BY BesideShares
  <2> HIDE DEF S, F
  <2> QED BY <2>1, <2>2, <2>3
<1>3. \A t \in T : \E a \in S : F[a] = t
  <2> SUFFICES ASSUME NEW t \in T PROVE \E a \in S : F[a] = t OBVIOUS
  <2>1. Beside(t, k, l) \in S /\ Beside(Beside(t, k, l), l, k) = t BY BesideShares
  <2> QED BY <2>1
<1>4. F \in Bijection(S, T)
  <2> HIDE DEF S, T, F
  <2> QED BY <1>1, <1>2, <1>3, Fun_IsBij
<1>5. ExistsBijection(S, T)
  <2> HIDE DEF S, T, F
  <2> QED BY <1>4, Fun_ExistsBij
<1>6. IsFiniteSet(S) BY ThreadsFinite DEF Sharing
<1> HIDE DEF S, T, F
<1>7. Cardinality(T) = Cardinality(S) BY <1>5, <1>6, FS_Bijection
<1> QED BY <1>7 DEF S, T

LEMMA StrideOf ==
  ASSUME NEW s, Admits(s)
  PROVE  /\ Grid!Stride(s) \in Nat \ {0}
         /\ \A t \in Grid!Threads(s) : Grid!First(s, t) \in Nat /\ Grid!LaneOf(s, t) \in Grid!Lanes(s)
         /\ \E t \in Grid!Threads(s) : Grid!First(s, t) = 0
<1>1. s.width \in Nat \ {0} /\ s.blocks \in Nat /\ s.dim \in Nat
  BY GridConsts DEF Admits, Launchable
<1>2. CASE s.kernel = "zstd"
  <2>1. s.dim = kZstdBlockThreads /\ s.blocks # 0 BY <1>2 DEF Admits, Grid!Refuses
  <2>2. <<0, 0>> \in Grid!Threads(s) BY <1>1, <2>1, GridConsts DEF Grid!Threads
  <2>3. Grid!First(s, <<0, 0>>) = 0 BY <1>2 DEF Grid!First
  <2>4. ASSUME NEW t \in Grid!Threads(s)
        PROVE  Grid!First(s, t) \in Nat /\ Grid!LaneOf(s, t) \in Grid!Lanes(s)
    BY <1>1, <1>2 DEF Grid!Threads, Grid!First, Grid!LaneOf, Grid!Lanes
  <2> QED BY <1>1, <1>2, <2>1, <2>2, <2>3, <2>4 DEF Grid!Stride
<1>3. CASE s.kernel # "zstd"
  <2>1. PICK m \in Nat \ {0}, q \in Nat \ {0} : Wave(s, m, q) /\ s.blocks \in Nat \ {0}
    BY <1>3, Waves
  <2>2. s.blocks * m \in Nat \ {0}
    <3>1. m * 0 + 0 < m * s.blocks BY <2>1, InRow
    <3>2. m * s.blocks = s.blocks * m /\ m * 0 \in Nat /\ s.blocks * m \in Nat BY <2>1, MulComm
    <3> QED BY <3>1, <3>2
  <2>3. Grid!Stride(s) \in Nat \ {0} BY <2>1, <2>2 DEF Wave
  <2>4. ASSUME NEW t \in Grid!Threads(s)
        PROVE  Grid!First(s, t) \in Nat /\ Grid!LaneOf(s, t) \in Grid!Lanes(s)
    <3>1. PICK b \in 0..s.blocks - 1, y \in 0..m - 1, r \in 0..s.width - 1 : t = Seat(s, b, y, r)
      BY <1>3, <2>1, Seated
    <3>2. Grid!First(s, t) = (b * m + y) % q /\ Grid!LaneOf(s, t) = r BY <1>3, <2>1, <3>1, Seats
    <3>3. b * m + y \in Nat
      <4>1. b \in Nat /\ b * m \in Nat BY <1>1, <2>1, MulComm
      <4> QED BY <2>1, <4>1
    <3>4. (b * m + y) % q \in 0..q - 1 BY <2>1, <3>3, ModRange
    <3>5. (b * m + y) % q \in Nat BY <2>1, <3>4
    <3> QED BY <1>3, <3>2, <3>5 DEF Grid!Lanes
  <2>5. \E t \in Grid!Threads(s) : Grid!First(s, t) = 0
    <3>1. 0 \in 0..s.blocks - 1 /\ 0 \in 0..m - 1 /\ 0 \in 0..s.width - 1 BY <1>1, <2>1
    <3>2. Seat(s, 0, 0, 0) \in Grid!Threads(s) /\ Grid!First(s, Seat(s, 0, 0, 0)) = (0 * m + 0) % q
      BY <1>3, <2>1, <3>1, Seats
    <3>3. 0 * m + 0 = 0 /\ 0 % q = 0
      <4>1. 0 \in 0..q - 1 BY <2>1
      <4> QED BY <2>1, <4>1, ModOfLane
    <3> QED BY <3>2, <3>3
  <2> QED BY <2>3, <2>4, <2>5
<1> QED BY <1>2, <1>3

\* Below the index limit a pass takes the chunks from 0 to the stride, each lane once.
LEMMA OneEach ==
  ASSUME NEW s, Admits(s), NoWrap(s), NEW e \in Nat, NEW l \in Grid!Lanes(s)
  PROVE  Cardinality(Sharing(s, e, l)) = IF e < Grid!Stride(s) THEN 1 ELSE 0
<1>1. s.width \in Nat \ {0} /\ s.blocks \in Nat /\ s.dim \in Nat
  BY GridConsts DEF Admits, Launchable
<1>2. CASE s.kernel = "zstd"
  <2>1. l \in 0..s.dim - 1 BY <1>2 DEF Grid!Lanes
  <2>2. Sharing(s, e, l) = IF e < s.blocks THEN {<<e, l>>} ELSE {}
    <3>1. ASSUME NEW t \in Sharing(s, e, l) PROVE t = <<e, l>> /\ e < s.blocks
      BY <1>1, <1>2 DEF Sharing, Grid!Threads, Grid!First, Grid!LaneOf
    <3>2. e < s.blocks => <<e, l>> \in Sharing(s, e, l)
      BY <1>1, <1>2, <2>1 DEF Sharing, Grid!Threads, Grid!First, Grid!LaneOf
    <3> QED BY <3>1, <3>2
  <2>3. Grid!Stride(s) = s.blocks BY <1>2 DEF Grid!Stride
  <2> QED BY <2>2, <2>3, FS_Singleton, FS_EmptySet
<1>3. CASE s.kernel # "zstd"
  <2>1. PICK m \in Nat \ {0}, q \in Nat \ {0} : Wave(s, m, q) BY <1>3, Waves
  <2>2. PICK n \in Nat : n = s.blocks * m BY <1>1, <2>1, MulComm
  <2>3. n <= q
    <3>1. SUFFICES ASSUME q < n PROVE FALSE BY <2>1, <2>2
    <3>2. s.width * q + 0 < s.width * n BY <1>1, <2>1, <2>2, <3>1, InRow
    <3>3. s.blocks * s.dim = s.width * n
      <4>1. s.blocks * (s.width * m) = (s.blocks * s.width) * m BY <1>1, <2>1, MulAssoc
      <4>2. (s.width * s.blocks) * m = s.width * (s.blocks * m) BY <1>1, <2>1, MulAssoc
      <4>3. s.blocks * s.width = s.width * s.blocks BY <1>1, MulComm
      <4> QED BY <2>1, <2>2, <4>1, <4>2, <4>3 DEF Wave
    <3>4. s.width * n <= s.width * q BY <1>3, <2>1, <3>3 DEF NoWrap, Wave
    <3>5. s.width * n \in Nat /\ s.width * q \in Nat BY <1>1, <2>1, <2>2, MulComm
    <3> QED BY <3>2, <3>4, <3>5
  <2>4. ASSUME NEW b \in 0..s.blocks - 1, NEW y \in 0..m - 1
        PROVE  b * m + y \in Nat /\ b * m + y < n /\ (b * m + y) % q = b * m + y
    <3>1. b \in Nat /\ y \in Nat /\ b < s.blocks /\ y < m BY <1>1, <2>1
    <3>2. m * b + y < m * s.blocks BY <1>1, <2>1, <3>1, InRow
    <3>3. m * b = b * m /\ m * s.blocks = n /\ b * m \in Nat BY <1>1, <2>1, <2>2, <3>1, MulComm
    <3>4. PICK z \in Nat : z = b * m + y BY <3>1, <3>3
    <3>5. z < n BY <3>2, <3>3, <3>4
    <3>6. z \in 0..q - 1 BY <2>1, <2>2, <2>3, <3>5
    <3>7. z % q = z BY <2>1, <3>6, ModOfLane
    <3> QED BY <3>4, <3>5, <3>7
  <2>5. Grid!Stride(s) = n BY <2>1, <2>2 DEF Wave
  <2>6. l \in 0..s.width - 1 BY <1>3 DEF Grid!Lanes
  <2>7. ASSUME NEW t \in Sharing(s, e, l)
        PROVE  e < n /\ t = Seat(s, e \div m, e % m, l)
    <3>1. t \in Grid!Threads(s) /\ Grid!First(s, t) = e /\ Grid!LaneOf(s, t) = l BY DEF Sharing
    <3>2. PICK b \in 0..s.blocks - 1, y \in 0..m - 1, r \in 0..s.width - 1 : t = Seat(s, b, y, r)
      BY <1>3, <2>1, <3>1, Seated
    <3>3. e = (b * m + y) % q /\ r = l BY <1>3, <2>1, <3>1, <3>2, Seats
    <3>4. e = b * m + y /\ e < n BY <2>4, <3>3
    <3>5. e \div m = b /\ e % m = y
      <4>1. b \in Nat BY <1>1
      <4>2. (m * b + y) % m = y /\ (m * b + y) \div m = b BY <2>1, <4>1, ModUnique, DivUnique
      <4>3. m * b = b * m BY <2>1, <4>1, MulComm
      <4> QED BY <3>4, <4>2, <4>3
    <3> QED BY <3>2, <3>3, <3>4, <3>5
  <2>8. ASSUME e < n PROVE Seat(s, e \div m, e % m, l) \in Sharing(s, e, l)
    <3>1. PICK b \in Nat, y \in 0..m - 1 : b = e \div m /\ y = e % m /\ e = m * b + y
      BY <2>1, DivMod, ModRange
    <3>2. b < s.blocks
      <4>1. SUFFICES ASSUME s.blocks <= b PROVE FALSE BY <1>1
      <4>2. PICK d \in Nat : b = s.blocks + d BY <1>1, <4>1, b - s.blocks \in Nat
      <4>3. m * b = m * s.blocks + m * d BY <1>1, <2>1, <4>2, Distrib
      <4>4. m * s.blocks = n /\ m * d \in Nat BY <1>1, <2>1, <2>2, MulComm
      <4> QED BY <2>1, <2>2, <2>8, <3>1, <4>3, <4>4
    <3>3. b \in 0..s.blocks - 1 BY <1>1, <3>2
    <3>4. m * b = b * m BY <2>1, MulComm
    <3>5. e = b * m + y BY <3>1, <3>4
    <3>6. (b * m + y) % q = e BY <2>4, <3>3, <3>5
    <3>7. /\ Seat(s, b, y, l) \in Grid!Threads(s) /\ Grid!LaneOf(s, Seat(s, b, y, l)) = l
          /\ Grid!First(s, Seat(s, b, y, l)) = (b * m + y) % q
      BY <1>3, <2>1, <2>6, <3>3, Seats
    <3>8. Seat(s, b, y, l) \in Sharing(s, e, l) BY <3>6, <3>7 DEF Sharing
    <3> QED BY <3>1, <3>8
  <2>9. Sharing(s, e, l) = IF e < n THEN {Seat(s, e \div m, e % m, l)} ELSE {}
    BY <2>7, <2>8
  <2> QED BY <2>5, <2>9, FS_Singleton, FS_EmptySet
<1> QED BY <1>2, <1>3

-----------------------------------------------------------------------------
(* The passes of the threads over the chunks.                              *)

\* After p passes: where each thread is, that the lanes of a chunk go together, and
\* below the index limit which chunks are taken.
Here(t, p) == Grid!First(shape, t) + p * Grid!Stride(shape)
Passed(p) ==
  /\ \A t \in Grid!Threads(shape) :
       IF Here(t, p) < shape.count THEN at[t] = Here(t, p) ELSE at[t] >= shape.count
  /\ \A c \in 0..shape.count - 1 : \A l, k \in Grid!Lanes(shape) : visits[<<c, l>>] = visits[<<c, k>>]
  /\ NoWrap(shape) =>
       \A c \in 0..shape.count - 1 : \A l \in Grid!Lanes(shape) :
         visits[<<c, l>>] = IF c < p * Grid!Stride(shape) THEN 1 ELSE 0
GridTyped ==
  /\ shape \in Launchable /\ at \in [Grid!Threads(shape) -> Nat]
  /\ visits \in [(0..shape.count - 1) \X Grid!Lanes(shape) -> Nat]
Untouched ==
  /\ \A t \in Grid!Threads(shape) : at[t] = shape.count
  /\ \A v \in (0..shape.count - 1) \X Grid!Lanes(shape) : visits[v] = 0
GridInv ==
  \/ shape = Grid!NoLaunch /\ at = <<>> /\ visits = <<>>
  \/ /\ GridTyped
     /\ IF Grid!Refuses(shape) THEN Untouched ELSE \E p \in Nat : Passed(p)

LEMMA LaunchInv == ASSUME NEW s \in Launchable, Grid!Launch(s) PROVE GridInv'
<1>1. /\ shape' = s
      /\ at' = [t \in Grid!Threads(s) |-> IF Grid!Refuses(s) THEN s.count ELSE Grid!First(s, t)]
      /\ visits' = [v \in (0..s.count - 1) \X Grid!Lanes(s) |-> 0]
  BY DEF Grid!Launch
<1>2. s.count \in Nat BY DEF Launchable
<1>3. CASE Grid!Refuses(s)
  <2>1. GridTyped' BY <1>1, <1>2, <1>3 DEF GridTyped
  <2>2. Untouched' BY <1>1, <1>3 DEF Untouched
  <2> QED BY <1>1, <1>3, <2>1, <2>2 DEF GridInv
<1>4. CASE ~Grid!Refuses(s)
  <2>1. Admits(s) BY <1>4 DEF Admits
  <2>2. \A t \in Grid!Threads(s) : at'[t] = Grid!First(s, t) /\ Grid!First(s, t) \in Nat
    BY <1>1, <1>4, <2>1, StrideOf
  <2>3. GridTyped' BY <1>1, <1>4, <2>2 DEF GridTyped
  <2>4. Grid!Stride(s) \in Nat BY <2>1, StrideOf
  <2>5. 0 * Grid!Stride(s) = 0 BY <2>4
  <2>6. Passed(0)' BY <1>1, <1>2, <2>2, <2>5 DEF Passed, Here
  <2> QED BY <1>1, <1>4, <2>3, <2>6 DEF GridInv
<1> QED BY <1>3, <1>4

Comers(v) == {t \in Grid!Running : <<at[t], Grid!LaneOf(shape, t)>> = v}

LEMMA SameCount == \A S : Grid!Cardinality(S) = Cardinality(S)
BY DEF Grid!Cardinality, Cardinality

\* The threads that come to a chunk in a lane in pass p.
LEMMA ComeTo ==
  ASSUME GridTyped, Admits(shape), NEW p \in Nat, Passed(p), NEW c \in 0..shape.count - 1,
         NEW l \in Grid!Lanes(shape)
  PROVE  Comers(<<c, l>>) =
           IF p * Grid!Stride(shape) <= c THEN Sharing(shape, c - p * Grid!Stride(shape), l) ELSE {}
<1>1. PICK d \in Nat : d = p * Grid!Stride(shape) BY StrideOf, MulComm
<1>2. shape.count \in Nat BY DEF GridTyped, Launchable
<1>3. \A t \in Grid!Threads(shape) :
        /\ Grid!First(shape, t) \in Nat /\ at[t] \in Nat
        /\ IF Grid!First(shape, t) + d < shape.count THEN at[t] = Grid!First(shape, t) + d
           ELSE at[t] >= shape.count
  BY <1>1, StrideOf DEF GridTyped, Passed, Here
<1>4. ASSUME NEW t \in Grid!Threads(shape)
      PROVE  t \in Grid!Running /\ at[t] = c <=> d <= c /\ Grid!First(shape, t) = c - d
  BY <1>2, <1>3 DEF Grid!Running
<1>5. Grid!Running \subseteq Grid!Threads(shape) BY DEF Grid!Running
<1> QED BY <1>1, <1>4, <1>5 DEF Sharing, Comers

LEMMA PassInv == ASSUME GridInv, Grid!Pass PROVE GridInv'
<1>0. visits' = [v \in DOMAIN visits |-> visits[v] + Cardinality(Comers(v))]
  <2>1. visits' = [v \in DOMAIN visits |-> visits[v] + Grid!Cardinality(Comers(v))]
    BY DEF Grid!Pass, Comers
  <2> QED BY <2>1, SameCount
<1>1. GridTyped /\ Admits(shape) /\ shape # Grid!NoLaunch
  <2>1. \E t \in Grid!Threads(shape) : at[t] < shape.count BY DEF Grid!Pass, Grid!Running
  <2>2. shape # Grid!NoLaunch
    <3>1. Grid!Threads(Grid!NoLaunch) = {} BY DEF Grid!Threads, Grid!NoLaunch
    <3> QED BY <2>1, <3>1
  <2>3. ~Grid!Refuses(shape)
    <3>1. GridTyped => shape.count \in Nat BY DEF GridTyped, Launchable
    <3> QED BY <2>1, <2>2, <3>1 DEF GridInv, Untouched
  <2> QED BY <2>2, <2>3 DEF GridInv, Admits, GridTyped
<1>2. PICK p \in Nat : Passed(p) BY <1>1 DEF GridInv, Admits
<1>3. PICK n \in Nat \ {0} : n = Grid!Stride(shape) BY <1>1, StrideOf
<1>4. PICK d \in Nat : d = p * n BY <1>3, MulComm
<1>5. (p + 1) * n = d + n
  <2>1. n * (p + 1) = n * p + n * 1 /\ n * p = p * n /\ (p + 1) * n = n * (p + 1) /\ n * 1 = n
    BY <1>3, MulComm, Distrib
  <2> QED BY <1>4, <2>1
<1>6. shape' = shape /\ shape.count \in Nat BY <1>1 DEF Grid!Pass, GridTyped, Launchable
<1>7. at' \in [Grid!Threads(shape) -> Nat]
  <2>1. at' = [t \in Grid!Threads(shape) |->
                 IF t \in Grid!Running THEN at[t] + n ELSE at[t]]
    BY <1>3 DEF Grid!Pass
  <2> QED BY <1>1, <1>3, <2>1 DEF GridTyped
<1>8. \A t \in Grid!Threads(shape) :
        IF Here(t, p + 1) < shape.count THEN at'[t] = Here(t, p + 1) ELSE at'[t] >= shape.count
  <2> SUFFICES ASSUME NEW t \in Grid!Threads(shape)
               PROVE  IF Here(t, p + 1) < shape.count THEN at'[t] = Here(t, p + 1)
                      ELSE at'[t] >= shape.count
    OBVIOUS
  <2>1. at'[t] = IF at[t] < shape.count THEN at[t] + n ELSE at[t]
    BY <1>3 DEF Grid!Pass, Grid!Running
  <2>2. PICK f \in Nat : f = Grid!First(shape, t) BY <1>1, StrideOf
  <2>3. Here(t, p) = f + d /\ Here(t, p + 1) = f + (d + n) BY <1>3, <1>4, <1>5, <2>2 DEF Here
  <2>4. IF f + d < shape.count THEN at[t] = f + d ELSE at[t] >= shape.count
    BY <1>2, <2>3 DEF Passed
  <2>5. at[t] \in Nat BY <1>1 DEF GridTyped
  <2> QED BY <1>3, <1>6, <2>1, <2>3, <2>4, <2>5
<1>9. ASSUME NEW c \in 0..shape.count - 1, NEW l \in Grid!Lanes(shape)
      PROVE  visits'[<<c, l>>] =
               visits[<<c, l>>] + (IF d <= c THEN Cardinality(Sharing(shape, c - d, l)) ELSE 0)
  <2>1. Comers(<<c, l>>) = IF d <= c THEN Sharing(shape, c - d, l) ELSE {}
    BY <1>1, <1>2, <1>3, <1>4, ComeTo
  <2>2. <<c, l>> \in DOMAIN visits BY <1>1 DEF GridTyped
  <2>3. visits'[<<c, l>>] = visits[<<c, l>>] + Cardinality(Comers(<<c, l>>)) BY <1>0, <2>2
  <2>4. CASE d <= c
    <3>1. Comers(<<c, l>>) = Sharing(shape, c - d, l)
      BY <2>1, <2>4
    <3> QED BY <2>3, <2>4, <3>1
  <2>5. CASE ~(d <= c)
    <3>1. Cardinality({}) = 0 BY FS_EmptySet
    <3> QED BY <2>1, <2>3, <2>5, <3>1
  <2> QED BY <2>4, <2>5
<1>10. \A c \in 0..shape.count - 1 : \A l, k \in Grid!Lanes(shape) : visits'[<<c, l>>] = visits'[<<c, k>>]
  <2> SUFFICES ASSUME NEW c \in 0..shape.count - 1, NEW l \in Grid!Lanes(shape),
                      NEW k \in Grid!Lanes(shape)
               PROVE  visits'[<<c, l>>] = visits'[<<c, k>>]
    OBVIOUS
  <2>1. visits[<<c, l>>] = visits[<<c, k>>] BY <1>2 DEF Passed
  <2>2. Cardinality(Sharing(shape, c - d, l)) = Cardinality(Sharing(shape, c - d, k))
    BY <1>1, SameNumber
  <2> QED BY <1>9, <2>1, <2>2
<1>11. ASSUME NoWrap(shape), NEW c \in 0..shape.count - 1, NEW l \in Grid!Lanes(shape)
       PROVE  visits'[<<c, l>>] = IF c < (p + 1) * n THEN 1 ELSE 0
  <2>1. visits[<<c, l>>] = IF c < d THEN 1 ELSE 0 BY <1>2, <1>3, <1>4, <1>11 DEF Passed
  <2>2. CASE d <= c
    <3>1. c - d \in Nat BY <1>6, <2>2
    <3>2. Cardinality(Sharing(shape, c - d, l)) = IF c - d < n THEN 1 ELSE 0
      BY <1>1, <1>3, <1>11, <3>1, OneEach
    <3>3. visits'[<<c, l>>] = 0 + (IF c - d < n THEN 1 ELSE 0)
      BY <1>6, <1>9, <2>1, <2>2, <3>2
    <3> QED BY <1>3, <1>5, <1>6, <2>2, <3>3
  <2>3. CASE c < d BY <1>3, <1>5, <1>6, <1>9, <2>1, <2>3
  <2> QED BY <1>6, <2>2, <2>3
<1>12. visits' \in [(0..shape.count - 1) \X Grid!Lanes(shape) -> Nat]
  <2> DEFINE Cells == (0..shape.count - 1) \X Grid!Lanes(shape)
             After(v) == visits[v] + Cardinality(Comers(v))
  <2>1. visits' = [v \in Cells |-> After(v)]
    <3>1. DOMAIN visits = (0..shape.count - 1) \X Grid!Lanes(shape) BY <1>1 DEF GridTyped
    <3> QED BY <1>0, <3>1
  <2>2. ASSUME NEW v \in Cells PROVE After(v) \in Nat
    <3>1. Cardinality(Comers(v)) \in Nat BY <1>1, ThreadsFinite DEF Grid!Running, Comers
    <3>2. visits[v] \in Nat BY <1>1 DEF GridTyped
    <3> QED BY <3>1, <3>2
  <2>3. visits' \in [Cells -> Nat]
    <3> HIDE DEF Cells, After
    <3> QED BY <2>1, <2>2
  <2> QED BY <2>3
<1>13. GridTyped' BY <1>1, <1>6, <1>7, <1>12 DEF GridTyped
<1>14. Passed(p + 1)' BY <1>3, <1>6, <1>8, <1>10, <1>11 DEF Passed, Here
<1>15. ~Grid!Refuses(shape)' BY <1>1, <1>6 DEF Admits
<1> QED BY <1>13, <1>14, <1>15 DEF GridInv

\* A kernel of waves admits every grid of shipped blocks.
LEMMA WholeWaves ==
  ASSUME NEW s, s.kernel # "zstd", s.width \in Widths, s.blocks \in Nat \ {0},
         s.dim = Grid!BlockThreads(s.width)
  PROVE  ~Grid!Refuses(s)
<1>0. PICK w \in Widths : w = s.width OBVIOUS
<1>1. w \in Nat \ {0} /\ BlockWarps \in Nat \ {0} BY GridConsts
<1>2. s.dim = w * BlockWarps BY <1>0 DEF Grid!BlockThreads
<1>3. w * BlockWarps \in Nat /\ (w * BlockWarps + 0) % w = 0 BY <1>1, MulComm, ModUnique
<1>4. s.dim % s.width = 0 BY <1>0, <1>2, <1>3
<1>5. Grid!TotalWaves(s) # 0
  <2>1. PICK n \in Nat : n = s.blocks * BlockWarps BY <1>1, MulComm
  <2>2. n # 0
    <3>1. BlockWarps * 0 + 0 < BlockWarps * s.blocks BY <1>1, InRow
    <3>2. BlockWarps * s.blocks = n /\ BlockWarps * 0 = 0 BY <1>1, <2>1, MulComm
    <3> QED BY <3>1, <3>2
  <2>3. s.blocks * s.dim = w * n
    <3>1. s.blocks * (w * BlockWarps) = (s.blocks * w) * BlockWarps BY <1>1, MulAssoc
    <3>2. (w * s.blocks) * BlockWarps = w * (s.blocks * BlockWarps) BY <1>1, MulAssoc
    <3>3. s.blocks * w = w * s.blocks BY <1>1, MulComm
    <3> QED BY <1>2, <2>1, <3>1, <3>2, <3>3
  <2>4. (w * n + 0) \div w = n /\ w * n \in Nat BY <1>1, DivUnique, MulComm
  <2> QED BY <1>0, <2>2, <2>3, <2>4 DEF Grid!TotalWaves
<1>6. ~(s.dim > Grid!BlockThreads(s.width))
  BY <1>0, <1>2, <1>3 DEF Grid!BlockThreads
<1> QED BY <1>4, <1>5, <1>6 DEF Grid!Refuses

\* A shipped grid has blocks, and no more than the cap.
LEMMA SomeBlocks ==
  ASSUME NEW count \in Nat \ {0}
  PROVE  Grid!GridBlocks(count) \in Nat \ {0} /\ Grid!GridBlocks(count) <= MaxBlocks
<1>1. PICK a \in Nat : a = count + BlockWarps - 1 BY GridConsts
<1>2. a \div BlockWarps \in Nat /\ a = BlockWarps * (a \div BlockWarps) + (a % BlockWarps)
  BY <1>1, GridConsts, DivMod
<1>3. a % BlockWarps \in 0..BlockWarps - 1 BY GridConsts, ModRange
<1>4. a \div BlockWarps # 0
  <2>1. SUFFICES ASSUME a \div BlockWarps = 0 PROVE FALSE OBVIOUS
  <2>2. BlockWarps * 0 = 0 BY GridConsts
  <2>3. a = a % BlockWarps BY <1>2, <1>3, <2>1, <2>2, GridConsts
  <2> QED BY <1>1, <1>3, <2>3, GridConsts
<1> QED BY <1>1, <1>2, <1>4, GridConsts DEF Grid!GridBlocks, Grid!Capped

\* A shipped grid over some chunks is one its kernel admits.
LEMMA ShippedAdmitted ==
  ASSUME NEW kernel, NEW w \in Widths, NEW count \in Nat \ {0}
  PROVE  ~Grid!Refuses(Grid!Shipped(kernel, w, count))
<1> DEFINE s == Grid!Shipped(kernel, w, count)
<1> SUFFICES ~Grid!Refuses(s) OBVIOUS
<1>1. s.kernel = kernel /\ s.width = w BY DEF Grid!Shipped
<1>2. CASE kernel = "zstd"
  <2>1. s.dim = kZstdBlockThreads /\ s.blocks # 0
    BY <1>2, GridConsts DEF Grid!Shipped, Grid!ZstdGridBlocks, Grid!Capped
  <2> HIDE DEF s
  <2> QED BY <1>1, <1>2, <2>1 DEF Grid!Refuses
<1>3. CASE kernel # "zstd"
  <2>1. s.dim = Grid!BlockThreads(w) /\ s.blocks = Grid!GridBlocks(count)
    BY <1>3 DEF Grid!Shipped
  <2> HIDE DEF s
  <2> QED BY <1>1, <1>3, <2>1, SomeBlocks, WholeWaves
<1> QED BY <1>2, <1>3

\* A team's tables: of its own, and there.
LEMMA OwnTables ==
  ASSUME NEW s, Admits(s), s.kernel = "gdeflate", NEW t \in Grid!Threads(s), NEW u \in Grid!Threads(s)
  PROVE  /\ Grid!SlotOf(s, t) < BlockWarps
         /\ t[1] = u[1] /\ Grid!SlotOf(s, t) = Grid!SlotOf(s, u)
              => Grid!First(s, t) = Grid!First(s, u)
<1>1. s.width \in Nat \ {0} /\ s.dim \in Nat /\ s.blocks \in Nat /\ BlockWarps \in Nat \ {0}
  BY GridConsts DEF Admits, Launchable
<1>2. PICK m \in Nat \ {0}, q \in Nat \ {0} : Wave(s, m, q) BY Waves
<1>3. PICK b \in 0..s.blocks - 1, y \in 0..m - 1, r \in 0..s.width - 1 : t = Seat(s, b, y, r)
  BY <1>2, Seated
<1>4. PICK d \in 0..s.blocks - 1, z \in 0..m - 1, l \in 0..s.width - 1 : u = Seat(s, d, z, l)
  BY <1>2, Seated
<1>5. Grid!SlotOf(s, t) = y /\ Grid!First(s, t) = (b * m + y) % q /\ t[1] = b
  BY <1>2, <1>3, Seats DEF Grid!SlotOf, Seat
<1>6. Grid!SlotOf(s, u) = z /\ Grid!First(s, u) = (d * m + z) % q /\ u[1] = d
  BY <1>2, <1>4, Seats DEF Grid!SlotOf, Seat
<1>7. m <= BlockWarps
  <2>1. SUFFICES ASSUME BlockWarps < m PROVE FALSE BY <1>1, <1>2
  <2>2. s.width * BlockWarps + 0 < s.width * m BY <1>1, <1>2, <2>1, InRow
  <2>3. ~(s.dim > s.width * BlockWarps) BY DEF Admits, Grid!Refuses, Grid!BlockThreads
  <2>4. s.width * BlockWarps \in Nat /\ s.width * m = s.dim BY <1>1, <1>2, MulComm DEF Wave
  <2> QED BY <1>1, <2>2, <2>3, <2>4
<1>8. Grid!SlotOf(s, t) < BlockWarps BY <1>1, <1>2, <1>5, <1>7
<1> QED BY <1>5, <1>6, <1>8

LEMMA OnceInv == GridInv => Grid!EachChunkOnce
<1> SUFFICES ASSUME GridInv PROVE Grid!EachChunkOnce OBVIOUS
<1>1. CASE shape = Grid!NoLaunch /\ visits = <<>>
  <2>1. shape.count = 0 /\ shape.kernel = "chunk" /\ DOMAIN visits = {} BY <1>1 DEF Grid!NoLaunch
  <2> QED BY <2>1 DEF Grid!EachChunkOnce
<1>2. CASE GridTyped /\ Grid!Refuses(shape) /\ Untouched
  <2>1. shape.count \in Nat /\ DOMAIN visits = (0..shape.count - 1) \X Grid!Lanes(shape)
    BY <1>2 DEF GridTyped, Launchable
  <2>2. Grid!Running = {} BY <1>2, <2>1 DEF Grid!Running, Untouched
  <2>3. \A c \in 0..shape.count - 1 : \A l, k \in Grid!Lanes(shape) : visits[<<c, l>>] = visits[<<c, k>>]
    <3>1. \A c \in 0..shape.count - 1 : \A l \in Grid!Lanes(shape) : visits[<<c, l>>] = 0
      <4>1. \A c \in 0..shape.count - 1 : \A l \in Grid!Lanes(shape) :
              <<c, l>> \in (0..shape.count - 1) \X Grid!Lanes(shape)
        OBVIOUS
      <4> QED BY <1>2, <4>1, Zenon DEF Untouched
    <3> QED BY <3>1
  <2>4. Grid!IsShipped => \A v \in DOMAIN visits : visits[v] = 1
    <3>1. Grid!IsShipped => ~(shape.count \in Nat \ {0})
      BY <1>2, ShippedAdmitted DEF Grid!IsShipped
    <3> QED BY <2>1, <3>1
  <2> QED BY <1>2, <2>2, <2>3, <2>4 DEF Grid!EachChunkOnce
<1>3. CASE GridTyped /\ ~Grid!Refuses(shape) /\ \E p \in Nat : Passed(p)
  <2>1. Admits(shape) BY <1>3 DEF Admits, GridTyped
  <2>2. PICK p \in Nat : Passed(p) BY <1>3
  <2>3. \A c \in 0..shape.count - 1 : \A l, k \in Grid!Lanes(shape) : visits[<<c, l>>] = visits[<<c, k>>]
    BY <2>2 DEF Passed
  <2>4. ASSUME Grid!Ended, NoWrap(shape), NEW v \in DOMAIN visits PROVE visits[v] = 1
    <3>1. PICK c \in 0..shape.count - 1, l \in Grid!Lanes(shape) : v = <<c, l>>
      BY <1>3 DEF GridTyped
    <3>2. PICK t \in Grid!Threads(shape) : Grid!First(shape, t) = 0 BY <2>1, StrideOf
    <3>3. ~(at[t] < shape.count) BY <2>4, <3>2 DEF Grid!Ended, Grid!Running
    <3>4. PICK d \in Nat : d = p * Grid!Stride(shape) BY <2>1, StrideOf, MulComm
    <3>5. Here(t, p) = d BY <3>2, <3>4 DEF Here
    <3>6. shape.count \in Nat /\ at[t] \in Nat BY <1>3 DEF GridTyped, Launchable
    <3>7. ~(d < shape.count) BY <2>2, <3>3, <3>5, <3>6 DEF Passed
    <3>8. c < d BY <3>6, <3>7
    <3> QED BY <2>2, <2>4, <3>1, <3>4, <3>8 DEF Passed
  <2>5. ASSUME shape.kernel = "gdeflate", NEW t \in Grid!Running, NEW u \in Grid!Running
        PROVE  /\ Grid!SlotOf(shape, t) < BlockWarps
               /\ t[1] = u[1] /\ at[t] # at[u] => Grid!SlotOf(shape, t) # Grid!SlotOf(shape, u)
    <3>1. t \in Grid!Threads(shape) /\ u \in Grid!Threads(shape)
          /\ at[t] < shape.count /\ at[u] < shape.count
      BY DEF Grid!Running
    <3>2. at[t] = Here(t, p) /\ at[u] = Here(u, p)
      <4>1. shape.count \in Nat /\ at[t] \in Nat /\ at[u] \in Nat
        BY <1>3, <3>1 DEF GridTyped, Launchable
      <4> QED BY <2>2, <3>1, <4>1 DEF Passed
    <3> QED BY <2>1, <2>5, <3>1, <3>2, OwnTables DEF Here
  <2> QED BY <1>3, <2>3, <2>4, <2>5 DEF Grid!EachChunkOnce, NoWrap
<1> QED BY <1>1, <1>2, <1>3 DEF GridInv

-----------------------------------------------------------------------------
(* Who launches: a batch entry point, a caller, or a benchmark.            *)

LEMMA BenchConsts ==
  /\ {kLevelCount, kForcedFamilyCount, StepShare, ZstdCells} \subseteq Nat \ {0}
  /\ Residents \subseteq Nat /\ kTailwasteGridMultiples \in Seq(Nat)
  /\ \A j \in Jobs : "kernel" \in DOMAIN j /\ j.kernel \in Grid!Kernels
  /\ \A b \in Batches : Len(b.chunks) \in Nat /\ (b.chunks # <<>> => Len(b.chunks) # 0)
<1>1. \A b \in Batches : b.chunks \in Seq([round_trips : BOOLEAN, parses : BOOLEAN,
                                         device : {"whole", "short", "refused"}])
  BY BenchAssumption
<1>2. ASSUME NEW b \in Batches
      PROVE  Len(b.chunks) \in Nat /\ (b.chunks # <<>> => Len(b.chunks) # 0)
  <2>1. PICK c \in Seq([round_trips : BOOLEAN, parses : BOOLEAN,
                       device : {"whole", "short", "refused"}]) : c = b.chunks
    BY <1>1
  <2>2. Len(c) \in Nat /\ (c # <<>> => Len(c) # 0) OBVIOUS
  <2> QED BY <2>1, <2>2
<1>3. ASSUME NEW j \in Jobs PROVE "kernel" \in DOMAIN j /\ j.kernel \in Grid!Kernels
  BY BenchAssumption DEF JobRecords
<1> QED BY <1>2, <1>3, BenchAssumption

\* The grid is the same one, whoever speaks of it.
LEMMA SubmitGrid ==
  /\ \A s : Submit!Grid!Launch(s) <=> Grid!Launch(s)
  /\ \A k, w, n : Submit!Grid!Shipped(k, w, n) = Grid!Shipped(k, w, n)
  /\ \A s : Submit!Grid!Refuses(s) <=> Grid!Refuses(s)
  /\ Submit!Grid!NoLaunch = Grid!NoLaunch /\ Submit!Grid!Kernels = Grid!Kernels
BY DEF Submit!Grid!Launch, Grid!Launch, Grid!Threads, Submit!Grid!Threads, Grid!Refuses,
       Submit!Grid!Refuses, Grid!First, Submit!Grid!First, Grid!Lanes, Submit!Grid!Lanes,
       Grid!TotalWaves, Submit!Grid!TotalWaves, Grid!BlockThreads, Submit!Grid!BlockThreads,
       Grid!Shipped, Submit!Grid!Shipped, Grid!GridBlocks, Submit!Grid!GridBlocks,
       Grid!ZstdGridBlocks, Submit!Grid!ZstdGridBlocks, Grid!Capped, Submit!Grid!Capped,
       Grid!NoLaunch, Submit!Grid!NoLaunch, Grid!Kernels, Submit!Grid!Kernels

LEMMA BenchGrid ==
  /\ \A s : Bench!Grid!Launch(s) <=> Grid!Launch(s)
  /\ \A k, w, n : Bench!Grid!Shipped(k, w, n) = Grid!Shipped(k, w, n)
  /\ \A n : Bench!Grid!GridBlocks(n) = Grid!GridBlocks(n)
  /\ \A w : Bench!Grid!BlockThreads(w) = Grid!BlockThreads(w)
BY DEF Bench!Grid!Launch, Grid!Launch, Grid!Threads, Bench!Grid!Threads, Grid!Refuses,
       Bench!Grid!Refuses, Grid!First, Bench!Grid!First, Grid!Lanes, Bench!Grid!Lanes,
       Grid!TotalWaves, Bench!Grid!TotalWaves, Grid!BlockThreads, Bench!Grid!BlockThreads,
       Grid!Shipped, Bench!Grid!Shipped, Grid!GridBlocks, Bench!Grid!GridBlocks,
       Grid!ZstdGridBlocks, Bench!Grid!ZstdGridBlocks, Grid!Capped, Bench!Grid!Capped

LEMMA GridBlocksNat == \A n \in Nat : Grid!GridBlocks(n) \in Nat
<1> SUFFICES ASSUME NEW n \in Nat PROVE Grid!GridBlocks(n) \in Nat OBVIOUS
<1>1. PICK a \in Nat : a = n + BlockWarps - 1 BY GridConsts
<1>2. a \div BlockWarps \in Nat BY <1>1, GridConsts, DivMod
<1> QED BY <1>1, <1>2, GridConsts DEF Grid!GridBlocks, Grid!Capped

LEMMA ShippedLaunchable ==
  ASSUME NEW k \in Grid!Kernels, NEW w \in Widths, NEW n \in Nat
  PROVE  Grid!Shipped(k, w, n) \in Launchable
<1>1. w * BlockWarps \in Nat BY GridConsts, MulComm
<1>2. Grid!ZstdGridBlocks(n) \in Nat BY GridConsts DEF Grid!ZstdGridBlocks, Grid!Capped
<1> QED BY <1>1, <1>2, GridBlocksNat, GridConsts
        DEF Grid!Shipped, Launchable, Grid!BlockThreads

\* A submission: no grid before its launch, the shipped one behind it or none.
Submitted == /\ width \in Widths /\ Submit!ValidArgs
             /\ shape = Grid!Shipped(call.kernel, width, call.count)
SubmitInv ==
  /\ pc \in {"idle", "validate", "drain", "query", "launch"} => shape = Grid!NoLaunch
  /\ pc \in {"validate", "drain", "query", "launch", "check", "returned"} => call \in Submit!Calls
  /\ pc \in {"drain", "query", "launch", "check"} => Submit!ValidArgs
  /\ pc \in {"query", "launch"} => pending = "none"
  /\ pc = "check" => IF pending = "none" THEN Submitted ELSE shape = Grid!NoLaunch
  /\ pc = "returned" => IF status = "OK" THEN Submitted ELSE shape = Grid!NoLaunch

LEMMA AnswerInv == SubmitInv => Submit!AnswerIsLaunch
<1> SUFFICES ASSUME SubmitInv, pc = "returned"
             PROVE  /\ status = "OK" => /\ ~Grid!Refuses(shape) /\ shape.width = width
                                        /\ shape.kernel = call.kernel /\ shape.count = call.count
                    /\ status # "OK" => shape = Grid!NoLaunch
  BY SubmitGrid DEF Submit!AnswerIsLaunch
<1>1. ASSUME status = "OK"
      PROVE  /\ ~Grid!Refuses(shape) /\ shape.width = width
             /\ shape.kernel = call.kernel /\ shape.count = call.count
  <2>1. Submitted /\ call \in Submit!Calls BY <1>1 DEF SubmitInv
  <2>2. call.count \in Nat \ {0}
    BY <2>1, GridConsts DEF Submitted, Submit!Calls, Submit!ValidArgs
  <2>3. ~Grid!Refuses(shape) BY <2>1, <2>2, ShippedAdmitted DEF Submitted
  <2> QED BY <2>1, <2>3 DEF Submitted, Grid!Shipped
<1> QED BY <1>1 DEF SubmitInv

\* A grid nobody touches.
LEMMA GridStays == ASSUME GridInv, UNCHANGED gridVars PROVE GridInv'
<1>1. shape' = shape /\ at' = at /\ visits' = visits BY DEF gridVars
<1>2. GridTyped => GridTyped' BY <1>1 DEF GridTyped
<1>3. Untouched => Untouched' BY <1>1 DEF Untouched
<1>4. \A p \in Nat : Passed(p) => Passed(p)' BY <1>1 DEF Passed, Here
<1>5. CASE shape = Grid!NoLaunch /\ at = <<>> /\ visits = <<>> BY <1>1, <1>5 DEF GridInv
<1>6. CASE GridTyped /\ Grid!Refuses(shape) /\ Untouched BY <1>1, <1>2, <1>3, <1>6 DEF GridInv
<1>7. CASE GridTyped /\ ~Grid!Refuses(shape) /\ \E p \in Nat : Passed(p)
  <2>1. PICK p \in Nat : Passed(p)' BY <1>4, <1>7
  <2>2. ~Grid!Refuses(shape)' BY <1>1, <1>7
  <2> QED BY <1>2, <1>7, <2>1, <2>2 DEF GridInv
<1> QED BY <1>5, <1>6, <1>7 DEF GridInv

LEMMA SubmissionInv ==
  ASSUME GridInv, SubmitInv, Submit!Next PROVE GridInv' /\ SubmitInv'
<1>1. CASE Submit!Enter
  <2>1. UNCHANGED gridVars BY <1>1 DEF Submit!Enter, Submit!gridVars, gridVars
  <2>2. SubmitInv' BY <1>1, <2>1 DEF SubmitInv, gridVars, Submit!Enter
  <2> QED BY <2>1, <2>2, GridStays
<1>2. CASE Submit!Validate
  <2>1. UNCHANGED gridVars BY <1>2 DEF Submit!Validate, Submit!gridVars, gridVars
  <2>2. SubmitInv'
    BY <1>2, <2>1 DEF SubmitInv, gridVars, Submit!Validate, Submit!Answer, Submit!ValidArgs
  <2> QED BY <2>1, <2>2, GridStays
<1>3. CASE Submit!Drain
  <2>1. UNCHANGED gridVars BY <1>3 DEF Submit!Drain, Submit!gridVars, gridVars
  <2>2. SubmitInv' BY <1>3, <2>1 DEF SubmitInv, gridVars, Submit!Drain, Submit!ValidArgs
  <2> QED BY <2>1, <2>2, GridStays
<1>4. CASE Submit!QueryWidth
  <2>1. UNCHANGED gridVars BY <1>4 DEF Submit!QueryWidth, Submit!gridVars, gridVars
  <2>2. SubmitInv'
    BY <1>4, <2>1 DEF SubmitInv, gridVars, Submit!QueryWidth, Submit!Answer, Submit!ValidArgs
  <2> QED BY <2>1, <2>2, GridStays
<1>5. CASE Submit!Launch
  <2>0. pc = "launch" /\ UNCHANGED <<call, width>> BY <1>5 DEF Submit!Launch
  <2>1. /\ shape = Grid!NoLaunch /\ call \in Submit!Calls /\ Submit!ValidArgs /\ pending = "none"
    BY <2>0 DEF SubmitInv
  <2>2. call.kernel \in Grid!Kernels /\ call.count \in Nat
    <3>1. call \in [kernel : Grid!Kernels, arrays : BOOLEAN, count : Counts \cup {0}]
      BY <2>1, SubmitGrid DEF Submit!Calls
    <3>2. call.kernel \in Grid!Kernels /\ call.count \in Counts \cup {0} BY <3>1
    <3>3. Counts \subseteq Nat BY GridConsts
    <3>4. \A n \in Counts \cup {0} : n \in Nat BY <3>3
    <3> QED BY <3>2, <3>4
  <2>3. CASE /\ width \in Widths /\ pc' = "check" /\ UNCHANGED <<status, pending>>
             /\ Grid!Launch(Grid!Shipped(call.kernel, width, call.count))
    <3>1. Grid!Shipped(call.kernel, width, call.count) \in Launchable
      BY <2>2, <2>3, ShippedLaunchable
    <3>2. GridInv' BY <2>3, <3>1, LaunchInv
    <3>3. shape' = Grid!Shipped(call.kernel, width, call.count) BY <2>3 DEF Grid!Launch
    <3>4. SubmitInv' BY <2>0, <2>1, <2>3, <3>3 DEF SubmitInv, Submitted, Submit!ValidArgs
    <3> QED BY <3>2, <3>4
  <2>4. CASE pc' = "check" /\ pending' = "own" /\ UNCHANGED gridVars
    <3>1. SubmitInv' BY <2>0, <2>1, <2>4 DEF SubmitInv, Submit!ValidArgs, gridVars
    <3> QED BY <2>4, <3>1, GridStays
  <2>5. CASE Submit!Answer("UNSUPPORTED") /\ UNCHANGED gridVars
    <3>1. SubmitInv' BY <2>0, <2>1, <2>5 DEF SubmitInv, Submit!Answer, gridVars
    <3> QED BY <2>5, <3>1, GridStays
  <2> QED BY <1>5, <2>3, <2>4, <2>5, SubmitGrid DEF Submit!Launch, Submit!gridVars, gridVars
<1>6. CASE Submit!Check
  <2>1. UNCHANGED gridVars BY <1>6 DEF Submit!Check, Submit!gridVars, gridVars
  <2>2. SubmitInv'
    BY <1>6, <2>1 DEF SubmitInv, gridVars, Submit!Check, Submit!Answer, Submitted, Submit!ValidArgs
  <2> QED BY <2>1, <2>2, GridStays
<1> QED BY <1>1, <1>2, <1>3, <1>4, <1>5, <1>6 DEF Submit!Next

\* A benchmark: from its kernels' timing on there are series, each of a grid that may be
\* launched, and so is every launch on the stream.
Series == [row : {"full", "parse_only", "grid"}, shape : Launchable]
Ops == [kind : {"launch"}, row : {"verify", "full", "parse_only", "grid"}, shape : Launchable]
       \cup [kind : {"record"}, event : {"start", "launch", "stop"}]
TimingPlaces == {"warmup", "start", "launch", "stop", "await", "median"}
KernelPlaces == TimingPlaces \cup {"upload", "first_launch", "first_result", "series"}
BenchTyped ==
  /\ doing # "idle" => "kernel" \in DOMAIN job /\ job.kernel \in Grid!Kernels
  /\ doing \notin {"idle", "options", "build", "exited"} => batch \in Batches
  /\ doing = "residency" => batch.chunks # <<>>
  /\ doing \in KernelPlaces => todo \in Seq(Series)
  /\ doing \in TimingPlaces => todo # <<>>
  /\ queue \in Seq(Ops)
  /\ pc # "bench" => doing = "idle" /\ queue = <<>>

LEMMA PagesNat == batch \in Batches => Bench!Pages \in Nat /\ (batch.chunks # <<>> => Bench!Pages # 0)
BY BenchConsts DEF Bench!Pages

LEMMA FullShapeLaunchable ==
  ASSUME batch \in Batches, job.kernel \in Grid!Kernels
  PROVE  Bench!FullShape \in Launchable
BY PagesNat, BenchGrid, ShippedLaunchable, GridConsts DEF Bench!FullShape

LEMMA BatchSeriesTyped ==
  ASSUME batch \in Batches, job.kernel \in Grid!Kernels
  PROVE  Bench!BatchSeries \in Seq(Series)
<1>1. PICK f \in Launchable : f = Bench!FullShape BY FullShapeLaunchable
<1>2. [row |-> "full", shape |-> f] \in Series /\ [row |-> "parse_only", shape |-> f] \in Series
  BY DEF Series
<1>3. PICK a \in Series, b \in Series :
        a = [row |-> "full", shape |-> f] /\ b = [row |-> "parse_only", shape |-> f]
  BY <1>2
<1>4. <<a>> \o <<b>> \in Seq(Series) /\ <<a>> \o <<>> \in Seq(Series) OBVIOUS
<1>5. Bench!BatchSeries = <<a>> \o IF job.kernel = "chunk" THEN <<b>> ELSE <<>>
  BY <1>1, <1>3 DEF Bench!BatchSeries
<1> QED BY <1>4, <1>5

\* The points of the sweep over the grid are of some pages, on a grid of the shipped size
\* or of a multiple of what the device holds.
Point == [pages : Nat, blocks : Nat]
PointSeries(p) ==
  [row |-> "grid",
   shape |-> [kernel |-> "gdeflate", width |-> kCudaWaveSize, count |-> p.pages,
              blocks |-> IF p.blocks = 0 THEN Grid!GridBlocks(p.pages) ELSE p.blocks,
              dim |-> Grid!BlockThreads(kCudaWaveSize)]]

LEMMA PointSeriesTyped == \A p \in Point : PointSeries(p) \in Series
<1> SUFFICES ASSUME NEW p \in Point PROVE PointSeries(p) \in Series OBVIOUS
<1>1. p.pages \in Nat /\ p.blocks \in Nat BY DEF Point
<1>2. Grid!GridBlocks(p.pages) \in Nat BY <1>1, GridBlocksNat
<1>3. Grid!BlockThreads(kCudaWaveSize) \in Nat BY GridConsts, MulComm DEF Grid!BlockThreads
<1> QED BY <1>1, <1>2, <1>3, GridConsts DEF PointSeries, Series, Launchable, Grid!Kernels

LEMMA FunSeq == ASSUME NEW S, NEW n \in Nat, NEW f \in [1..n -> S] PROVE f \in Seq(S)
OBVIOUS
LEMMA ConcatSeq == ASSUME NEW S, NEW f \in Seq(S), NEW g \in Seq(S) PROVE f \o g \in Seq(S)
OBVIOUS

LEMMA SweepTyped ==
  ASSUME batch \in Batches, batch.chunks # <<>>, NEW resident \in Residents
  PROVE  Bench!SweepSeries(Bench!SweepPoints(resident)) \in Seq(Series)
<1>1. PICK n \in Nat \ {0} : n = Bench!Pages BY PagesNat
<1>2. resident \in Nat /\ resident * BlockWarps \in Nat /\ StepShare \in Nat \ {0}
  BY BenchConsts, GridConsts, MulComm
<1>3. PICK apart \in Nat \ {0} :
        apart = (LET share == (resident * BlockWarps) \div StepShare
                 IN IF share \in 1..n THEN share ELSE n)
  BY <1>1, <1>2
<1>4. PICK k \in Nat : k = n \div apart BY <1>1, <1>3, DivMod
<1>5. PICK f \in Seq(Point) :
        f = [i \in DOMAIN kTailwasteGridMultiples |->
               [pages |-> n, blocks |-> kTailwasteGridMultiples[i] * resident]]
  <2>1. PICK s \in Seq(Nat) : s = kTailwasteGridMultiples BY BenchConsts
  <2>2. DOMAIN s = 1..Len(s) /\ Len(s) \in Nat /\ \A i \in 1..Len(s) : s[i] \in Nat OBVIOUS
  <2>3. \A i \in 1..Len(s) : [pages |-> n, blocks |-> s[i] * resident] \in Point
    BY <1>2, <2>2, MulComm DEF Point
  <2>4. [i \in 1..Len(s) |-> [pages |-> n, blocks |-> s[i] * resident]] \in [1..Len(s) -> Point]
    BY <2>3
  <2>5. [i \in 1..Len(s) |-> [pages |-> n, blocks |-> s[i] * resident]] \in Seq(Point)
    BY <2>2, <2>4, FunSeq
  <2> QED BY <2>1, <2>2, <2>5
<1>6. PICK g \in Seq(Point) : g = [i \in 1..k |-> [pages |-> i * apart, blocks |-> 0]]
  <2>1. \A i \in 1..k : [pages |-> i * apart, blocks |-> 0] \in Point BY <1>3, MulComm DEF Point
  <2>2. [i \in 1..k |-> [pages |-> i * apart, blocks |-> 0]] \in [1..k -> Point] BY <2>1
  <2>3. [i \in 1..k |-> [pages |-> i * apart, blocks |-> 0]] \in Seq(Point) BY <2>2, FunSeq
  <2> QED BY <2>3
<1>7. Bench!SweepPoints(resident) = f \o g
  BY <1>1, <1>3, <1>4, <1>5, <1>6 DEF Bench!SweepPoints
<1>8. PICK points \in Seq(Point) : points = f \o g BY ConcatSeq
<1>9. DOMAIN points = 1..Len(points) /\ Len(points) \in Nat
      /\ \A i \in 1..Len(points) : points[i] \in Point
  OBVIOUS
<1>10. Bench!SweepSeries(points) = [i \in 1..Len(points) |-> PointSeries(points[i])]
  BY <1>9, BenchGrid DEF Bench!SweepSeries, PointSeries
<1>11. Bench!SweepSeries(points) \in [1..Len(points) -> Series]
  BY <1>9, <1>10, PointSeriesTyped
<1>12. Bench!SweepSeries(points) \in Seq(Series) BY <1>9, <1>11
<1> QED BY <1>7, <1>8, <1>12

LEMMA Lz4Typed ==
  ASSUME BenchTyped, pc' = pc, Bench!Lz4Main PROVE BenchTyped'
<1>1. CASE Bench!Options
  BY <1>1
  DEF BenchTyped, KernelPlaces, TimingPlaces, Bench!Rest, Bench!streamVars, Bench!mainVars,
      Bench!hostVars, Bench!GoOn, Bench!Exit, Bench!ExitUnless, Bench!Quiet, Bench!Options,
      Bench!Accept
<1>2. CASE Bench!Build
  BY <1>2
  DEF BenchTyped, KernelPlaces, TimingPlaces, Bench!Rest, Bench!streamVars, Bench!mainVars,
      Bench!hostVars, Bench!GoOn, Bench!Exit, Bench!ExitUnless, Bench!Quiet, Bench!Build
<1>3. CASE Bench!Verify
  BY <1>3
  DEF BenchTyped, KernelPlaces, TimingPlaces, Bench!Rest, Bench!streamVars, Bench!mainVars,
      Bench!hostVars, Bench!GoOn, Bench!Exit, Bench!ExitUnless, Bench!Quiet, Bench!Verify
<1>4. CASE Bench!CpuWarmUp
  BY <1>4
  DEF BenchTyped, KernelPlaces, TimingPlaces, Bench!Rest, Bench!streamVars, Bench!mainVars,
      Bench!hostVars, Bench!GoOn, Bench!Exit, Bench!ExitUnless, Bench!Quiet, Bench!CpuWarmUp,
      Bench!WarmUpLoop
<1>5. CASE Bench!CpuRun
  BY <1>5
  DEF BenchTyped, KernelPlaces, TimingPlaces, Bench!Rest, Bench!streamVars, Bench!mainVars,
      Bench!hostVars, Bench!GoOn, Bench!Exit, Bench!ExitUnless, Bench!Quiet, Bench!CpuRun,
      Bench!TimedLoop
<1>6. CASE Bench!Report
  BY <1>6
  DEF BenchTyped, KernelPlaces, TimingPlaces, Bench!Rest, Bench!streamVars, Bench!mainVars,
      Bench!hostVars, Bench!GoOn, Bench!Exit, Bench!ExitUnless, Bench!Quiet, Bench!Report,
      Bench!ReportRow
<1>7. CASE Bench!Literals
  BY <1>7
  DEF BenchTyped, KernelPlaces, TimingPlaces, Bench!Rest, Bench!streamVars, Bench!mainVars,
      Bench!hostVars, Bench!GoOn, Bench!Exit, Bench!ExitUnless, Bench!Quiet, Bench!Literals,
      Bench!LiteralRow
<1>8. CASE Bench!Gpu
  BY <1>8, BatchSeriesTyped
  DEF BenchTyped, KernelPlaces, TimingPlaces, Bench!Rest, Bench!streamVars, Bench!mainVars,
      Bench!hostVars, Bench!GoOn, Bench!Exit, Bench!ExitUnless, Bench!Quiet, Bench!Gpu,
      Bench!Measure
<1>9. CASE Bench!Context
  BY <1>9
  DEF BenchTyped, KernelPlaces, TimingPlaces, Bench!Rest, Bench!streamVars, Bench!mainVars,
      Bench!hostVars, Bench!GoOn, Bench!Exit, Bench!ExitUnless, Bench!Quiet, Bench!Context,
      Bench!Measure
<1>10. CASE Bench!PrintRows
  BY <1>10
  DEF BenchTyped, KernelPlaces, TimingPlaces, Bench!Rest, Bench!streamVars, Bench!mainVars,
      Bench!hostVars, Bench!GoOn, Bench!Exit, Bench!ExitUnless, Bench!Quiet, Bench!PrintRows,
      Bench!PrintNumbers
<1>11. CASE Bench!Finish
  BY <1>11
  DEF BenchTyped, KernelPlaces, TimingPlaces, Bench!Rest, Bench!streamVars, Bench!mainVars,
      Bench!hostVars, Bench!GoOn, Bench!Exit, Bench!ExitUnless, Bench!Quiet, Bench!Finish
<1>12. CASE Bench!NextRung
  BY <1>12
  DEF BenchTyped, KernelPlaces, TimingPlaces, Bench!Rest, Bench!streamVars, Bench!mainVars,
      Bench!hostVars, Bench!GoOn, Bench!Exit, Bench!ExitUnless, Bench!Quiet, Bench!NextRung
<1>13. CASE Bench!FrameVerify
  BY <1>13
  DEF BenchTyped, KernelPlaces, TimingPlaces, Bench!Rest, Bench!streamVars, Bench!mainVars,
      Bench!hostVars, Bench!GoOn, Bench!Exit, Bench!ExitUnless, Bench!Quiet, Bench!FrameVerify
<1>14. CASE Bench!FrameWarmUp
  BY <1>14
  DEF BenchTyped, KernelPlaces, TimingPlaces, Bench!Rest, Bench!streamVars, Bench!mainVars,
      Bench!hostVars, Bench!GoOn, Bench!Exit, Bench!ExitUnless, Bench!Quiet, Bench!FrameWarmUp,
      Bench!WarmUpLoop
<1>15. CASE Bench!FrameRun
  BY <1>15
  DEF BenchTyped, KernelPlaces, TimingPlaces, Bench!Rest, Bench!streamVars, Bench!mainVars,
      Bench!hostVars, Bench!GoOn, Bench!Exit, Bench!ExitUnless, Bench!Quiet, Bench!FrameRun,
      Bench!TimedLoop
<1>16. CASE Bench!FrameReport
  BY <1>16
  DEF BenchTyped, KernelPlaces, TimingPlaces, Bench!Rest, Bench!streamVars, Bench!mainVars,
      Bench!hostVars, Bench!GoOn, Bench!Exit, Bench!ExitUnless, Bench!Quiet, Bench!FrameReport,
      Bench!ReportRow
<1> QED BY <1>1, <1>2, <1>3, <1>4, <1>5, <1>6, <1>7, <1>8, <1>9, <1>10, <1>11, <1>12, <1>13, <1>14, <1>15, <1>16 DEF Bench!Lz4Main

LEMMA SnappyTyped ==
  ASSUME BenchTyped, pc' = pc, Bench!SnappyMain PROVE BenchTyped'
<1>1. CASE Bench!SnappyOptions
  BY <1>1
  DEF BenchTyped, KernelPlaces, TimingPlaces, Bench!Rest, Bench!streamVars, Bench!mainVars,
      Bench!hostVars, Bench!GoOn, Bench!Exit, Bench!ExitUnless, Bench!Quiet, Bench!SnappyOptions,
      Bench!Accept
<1>2. CASE Bench!SnappyBuild
  BY <1>2
  DEF BenchTyped, KernelPlaces, TimingPlaces, Bench!Rest, Bench!streamVars, Bench!mainVars,
      Bench!hostVars, Bench!GoOn, Bench!Exit, Bench!ExitUnless, Bench!Quiet, Bench!SnappyBuild
<1>3. CASE Bench!StreamWarmUp
  BY <1>3
  DEF BenchTyped, KernelPlaces, TimingPlaces, Bench!Rest, Bench!streamVars, Bench!mainVars,
      Bench!hostVars, Bench!GoOn, Bench!Exit, Bench!ExitUnless, Bench!Quiet, Bench!StreamWarmUp,
      Bench!WarmUpLoop
<1>4. CASE Bench!StreamRun
  BY <1>4
  DEF BenchTyped, KernelPlaces, TimingPlaces, Bench!Rest, Bench!streamVars, Bench!mainVars,
      Bench!hostVars, Bench!GoOn, Bench!Exit, Bench!ExitUnless, Bench!Quiet, Bench!StreamRun,
      Bench!TimedLoop
<1>5. CASE Bench!StreamReport
  BY <1>5
  DEF BenchTyped, KernelPlaces, TimingPlaces, Bench!Rest, Bench!streamVars, Bench!mainVars,
      Bench!hostVars, Bench!GoOn, Bench!Exit, Bench!ExitUnless, Bench!Quiet, Bench!StreamReport,
      Bench!ReportRow
<1>6. CASE Bench!StreamLiterals
  BY <1>6
  DEF BenchTyped, KernelPlaces, TimingPlaces, Bench!Rest, Bench!streamVars, Bench!mainVars,
      Bench!hostVars, Bench!GoOn, Bench!Exit, Bench!ExitUnless, Bench!Quiet,
      Bench!StreamLiterals, Bench!LiteralRow
<1>7. CASE Bench!StreamGpu
  BY <1>7, BatchSeriesTyped
  DEF BenchTyped, KernelPlaces, TimingPlaces, Bench!Rest, Bench!streamVars, Bench!mainVars,
      Bench!hostVars, Bench!GoOn, Bench!Exit, Bench!ExitUnless, Bench!Quiet, Bench!StreamGpu,
      Bench!Measure
<1>8. CASE Bench!StreamPrint
  BY <1>8
  DEF BenchTyped, KernelPlaces, TimingPlaces, Bench!Rest, Bench!streamVars, Bench!mainVars,
      Bench!hostVars, Bench!GoOn, Bench!Exit, Bench!ExitUnless, Bench!Quiet, Bench!StreamPrint,
      Bench!PrintNumbers
<1>9. CASE Bench!CheckDigest
  BY <1>9
  DEF BenchTyped, KernelPlaces, TimingPlaces, Bench!Rest, Bench!streamVars, Bench!mainVars,
      Bench!hostVars, Bench!GoOn, Bench!Exit, Bench!ExitUnless, Bench!Quiet, Bench!CheckDigest
<1>10. CASE Bench!SnappyFinish
  BY <1>10
  DEF BenchTyped, KernelPlaces, TimingPlaces, Bench!Rest, Bench!streamVars, Bench!mainVars,
      Bench!hostVars, Bench!GoOn, Bench!Exit, Bench!ExitUnless, Bench!Quiet, Bench!SnappyFinish
<1> QED BY <1>1, <1>2, <1>3, <1>4, <1>5, <1>6, <1>7, <1>8, <1>9, <1>10 DEF Bench!SnappyMain

LEMMA ZstdTyped ==
  ASSUME BenchTyped, pc' = pc, Bench!ZstdMain PROVE BenchTyped'
<1>1. CASE Bench!ZstdOptions
  BY <1>1
  DEF BenchTyped, KernelPlaces, TimingPlaces, Bench!Rest, Bench!streamVars, Bench!mainVars,
      Bench!hostVars, Bench!GoOn, Bench!Exit, Bench!ExitUnless, Bench!Quiet, Bench!ZstdOptions
<1>2. CASE Bench!ZstdBuild
  BY <1>2
  DEF BenchTyped, KernelPlaces, TimingPlaces, Bench!Rest, Bench!streamVars, Bench!mainVars,
      Bench!hostVars, Bench!GoOn, Bench!Exit, Bench!ExitUnless, Bench!Quiet, Bench!ZstdBuild
<1>3. CASE Bench!FramesWarmUp
  BY <1>3
  DEF BenchTyped, KernelPlaces, TimingPlaces, Bench!Rest, Bench!streamVars, Bench!mainVars,
      Bench!hostVars, Bench!GoOn, Bench!Exit, Bench!ExitUnless, Bench!Quiet, Bench!FramesWarmUp,
      Bench!WarmUpLoop
<1>4. CASE Bench!FramesRun
  BY <1>4
  DEF BenchTyped, KernelPlaces, TimingPlaces, Bench!Rest, Bench!streamVars, Bench!mainVars,
      Bench!hostVars, Bench!GoOn, Bench!Exit, Bench!ExitUnless, Bench!Quiet, Bench!FramesRun,
      Bench!TimedLoop
<1>5. CASE Bench!FramesReport
  BY <1>5
  DEF BenchTyped, KernelPlaces, TimingPlaces, Bench!Rest, Bench!streamVars, Bench!mainVars,
      Bench!hostVars, Bench!GoOn, Bench!Exit, Bench!ExitUnless, Bench!Quiet, Bench!FramesReport,
      Bench!ReportRow
<1>6. CASE Bench!CountReport
  BY <1>6
  DEF BenchTyped, KernelPlaces, TimingPlaces, Bench!Rest, Bench!streamVars, Bench!mainVars,
      Bench!hostVars, Bench!GoOn, Bench!Exit, Bench!ExitUnless, Bench!Quiet, Bench!CountReport
<1>7. CASE Bench!NextCell
  BY <1>7
  DEF BenchTyped, KernelPlaces, TimingPlaces, Bench!Rest, Bench!streamVars, Bench!mainVars,
      Bench!hostVars, Bench!GoOn, Bench!Exit, Bench!ExitUnless, Bench!Quiet, Bench!NextCell
<1>8. CASE Bench!ZstdFinish
  BY <1>8
  DEF BenchTyped, KernelPlaces, TimingPlaces, Bench!Rest, Bench!streamVars, Bench!mainVars,
      Bench!hostVars, Bench!GoOn, Bench!Exit, Bench!ExitUnless, Bench!Quiet, Bench!ZstdFinish
<1> QED BY <1>1, <1>2, <1>3, <1>4, <1>5, <1>6, <1>7, <1>8 DEF Bench!ZstdMain

LEMMA GDeflateTyped ==
  ASSUME BenchTyped, pc' = pc, Bench!GDeflateMain PROVE BenchTyped'
<1>1. CASE Bench!GDeflateOptions
  BY <1>1
  DEF BenchTyped, KernelPlaces, TimingPlaces, Bench!Rest, Bench!streamVars, Bench!mainVars,
      Bench!hostVars, Bench!GoOn, Bench!Exit, Bench!ExitUnless, Bench!Quiet, Bench!GDeflateOptions
<1>2. CASE Bench!GDeflateBuild
  BY <1>2
  DEF BenchTyped, KernelPlaces, TimingPlaces, Bench!Rest, Bench!streamVars, Bench!mainVars,
      Bench!hostVars, Bench!GoOn, Bench!Exit, Bench!ExitUnless, Bench!Quiet, Bench!GDeflateBuild,
      Bench!Admitted
<1>3. CASE Bench!PageWarmUp
  BY <1>3
  DEF BenchTyped, KernelPlaces, TimingPlaces, Bench!Rest, Bench!streamVars, Bench!mainVars,
      Bench!hostVars, Bench!GoOn, Bench!Exit, Bench!ExitUnless, Bench!Quiet, Bench!PageWarmUp,
      Bench!WarmUpLoop
<1>4. CASE Bench!PageRun
  BY <1>4
  DEF BenchTyped, KernelPlaces, TimingPlaces, Bench!Rest, Bench!streamVars, Bench!mainVars,
      Bench!hostVars, Bench!GoOn, Bench!Exit, Bench!ExitUnless, Bench!Quiet, Bench!PageRun,
      Bench!TimedLoop
<1>5. CASE Bench!PageReport
  BY <1>5
  DEF BenchTyped, KernelPlaces, TimingPlaces, Bench!Rest, Bench!streamVars, Bench!mainVars,
      Bench!hostVars, Bench!GoOn, Bench!Exit, Bench!ExitUnless, Bench!Quiet, Bench!PageReport,
      Bench!ReportRow
<1>6. CASE Bench!PageGpu
  BY <1>6, BatchSeriesTyped
  DEF BenchTyped, KernelPlaces, TimingPlaces, Bench!Rest, Bench!streamVars, Bench!mainVars,
      Bench!hostVars, Bench!GoOn, Bench!Exit, Bench!ExitUnless, Bench!Quiet, Bench!PageGpu,
      Bench!Measure
<1>7. CASE Bench!PagePrint
  BY <1>7
  DEF BenchTyped, KernelPlaces, TimingPlaces, Bench!Rest, Bench!streamVars, Bench!mainVars,
      Bench!hostVars, Bench!GoOn, Bench!Exit, Bench!ExitUnless, Bench!Quiet, Bench!PagePrint,
      Bench!PrintNumbers
<1>8. CASE Bench!Judge
  BY <1>8
  DEF BenchTyped, KernelPlaces, TimingPlaces, Bench!Rest, Bench!streamVars, Bench!mainVars,
      Bench!hostVars, Bench!GoOn, Bench!Exit, Bench!ExitUnless, Bench!Quiet, Bench!Judge,
      Bench!NextCorpus
<1>9. CASE Bench!Census
  BY <1>9
  DEF BenchTyped, KernelPlaces, TimingPlaces, Bench!Rest, Bench!streamVars, Bench!mainVars,
      Bench!hostVars, Bench!GoOn, Bench!Exit, Bench!ExitUnless, Bench!Quiet, Bench!Census,
      Bench!NextCorpus
<1>10. CASE Bench!Residency
  BY <1>10, SweepTyped
  DEF BenchTyped, KernelPlaces, TimingPlaces, Bench!Rest, Bench!streamVars, Bench!mainVars,
      Bench!hostVars, Bench!GoOn, Bench!Exit, Bench!ExitUnless, Bench!Quiet, Bench!Residency
<1>11. CASE Bench!GDeflateFinish
  BY <1>11
  DEF BenchTyped, KernelPlaces, TimingPlaces, Bench!Rest, Bench!streamVars, Bench!mainVars,
      Bench!hostVars, Bench!GoOn, Bench!Exit, Bench!ExitUnless, Bench!Quiet, Bench!GDeflateFinish
<1> QED BY <1>1, <1>2, <1>3, <1>4, <1>5, <1>6, <1>7, <1>8, <1>9, <1>10, <1>11 DEF Bench!GDeflateMain

LEMMA AppendSeq == ASSUME NEW S, NEW f \in Seq(S), NEW e \in S PROVE Append(f, e) \in Seq(S)
OBVIOUS
LEMMA TailSeq ==
  ASSUME NEW S, NEW f \in Seq(S), f # <<>> PROVE Tail(f) \in Seq(S) /\ Head(f) \in S
OBVIOUS

LEMMA SeriesLaunch ==
  ASSUME BenchTyped, doing \in TimingPlaces PROVE Bench!LaunchOf(Bench!Series) \in Ops
<1>1. todo \in Seq(Series) /\ todo # <<>> BY DEF BenchTyped, KernelPlaces
<1>2. PICK s \in Series : s = Head(todo) BY <1>1, TailSeq
<1>3. [kind |-> "launch", row |-> s.row, shape |-> s.shape] \in Ops BY DEF Ops, Series
<1> QED BY <1>2, <1>3 DEF Bench!LaunchOf, Bench!Series

LEMMA KernelTimingTyped ==
  ASSUME BenchTyped, pc' = pc, Bench!KernelTiming PROVE BenchTyped'
<1>0. UNCHANGED <<job, batch>>
  BY DEF Bench!KernelTiming, Bench!mainVars
<1>1. CASE Bench!Upload
  BY <1>0, <1>1
  DEF BenchTyped, KernelPlaces, TimingPlaces, Bench!streamVars, Bench!mainVars, Bench!GoOn,
      Bench!Upload, Bench!Call
<1>2. CASE Bench!FirstLaunch
  <2>1. doing = "first_launch" /\ doing' = "first_result" /\ todo' = todo
        /\ queue' = Append(queue, [kind |-> "launch", row |-> "verify", shape |-> Bench!FullShape])
    BY <1>2 DEF Bench!FirstLaunch, Bench!Call, Bench!GoOn, Bench!Enqueue
  <2>2. Bench!FullShape \in Launchable BY <2>1, FullShapeLaunchable DEF BenchTyped
  <2>3. [kind |-> "launch", row |-> "verify", shape |-> Bench!FullShape] \in Ops BY <2>2 DEF Ops
  <2>4. queue' \in Seq(Ops) BY <2>1, <2>3, AppendSeq DEF BenchTyped
  <2> QED BY <1>0, <2>1, <2>4 DEF BenchTyped, KernelPlaces, TimingPlaces
<1>3. CASE Bench!FirstResult
  BY <1>0, <1>3
  DEF BenchTyped, KernelPlaces, TimingPlaces, Bench!streamVars, Bench!mainVars, Bench!GoOn,
      Bench!FirstResult, Bench!Call
<1>4. CASE Bench!NextSeries
  BY <1>0, <1>4
  DEF BenchTyped, KernelPlaces, TimingPlaces, Bench!streamVars, Bench!mainVars, Bench!GoOn,
      Bench!NextSeries
<1>5. CASE Bench!WarmUp
  <2>1. doing = "warmup" /\ doing' = doing /\ todo' = todo
        /\ queue' = Append(queue, Bench!LaunchOf(Bench!Series))
    BY <1>5 DEF Bench!WarmUp, Bench!Call, Bench!Enqueue
  <2>2. Bench!LaunchOf(Bench!Series) \in Ops BY <2>1, SeriesLaunch DEF TimingPlaces
  <2>3. queue' \in Seq(Ops) BY <2>1, <2>2, AppendSeq DEF BenchTyped
  <2> QED BY <1>0, <2>1, <2>3 DEF BenchTyped, KernelPlaces, TimingPlaces
<1>6. CASE Bench!Settle
  BY <1>0, <1>6
  DEF BenchTyped, KernelPlaces, TimingPlaces, Bench!streamVars, Bench!mainVars, Bench!GoOn,
      Bench!Settle, Bench!Call
<1>7. CASE Bench!TimedCall
  <2>1. PICK now \in {"start", "launch", "stop"} :
          /\ doing = now /\ doing' = Bench!After(now) /\ todo' = todo
          /\ queue' = Append(queue, IF now = "launch" THEN Bench!LaunchOf(Bench!Series)
                                    ELSE Bench!Record(now))
    BY <1>7 DEF Bench!TimedCall, Bench!Call, Bench!GoOn, Bench!Enqueue
  <2>2. Bench!LaunchOf(Bench!Series) \in Ops BY <2>1, SeriesLaunch DEF TimingPlaces
  <2>3. Bench!Record(now) \in Ops BY DEF Bench!Record, Ops
  <2>4. queue' \in Seq(Ops) BY <2>1, <2>2, <2>3, AppendSeq DEF BenchTyped
  <2>5. doing' \in {"launch", "stop", "await"} BY <2>1 DEF Bench!After
  <2> QED BY <1>0, <2>1, <2>4, <2>5 DEF BenchTyped, KernelPlaces, TimingPlaces
<1>8. CASE Bench!Await
  BY <1>0, <1>8
  DEF BenchTyped, KernelPlaces, TimingPlaces, Bench!streamVars, Bench!mainVars, Bench!GoOn,
      Bench!Await, Bench!Call
<1>9. CASE Bench!KernelMedian
  <2>1. doing = "median" /\ doing' = "series" /\ todo' = Tail(todo) /\ queue' = queue
    BY <1>9 DEF Bench!KernelMedian, Bench!Median, Bench!GoOn, Bench!streamVars
  <2>2. todo \in Seq(Series) /\ todo # <<>> BY <2>1 DEF BenchTyped, KernelPlaces, TimingPlaces
  <2>3. todo' \in Seq(Series) BY <2>1, <2>2, TailSeq
  <2> QED BY <1>0, <2>1, <2>3 DEF BenchTyped, KernelPlaces, TimingPlaces
<1> QED BY <1>1, <1>2, <1>3, <1>4, <1>5, <1>6, <1>7, <1>8, <1>9 DEF Bench!KernelTiming

LEMMA ContextTimingTyped ==
  ASSUME BenchTyped, pc' = pc, Bench!ContextTiming PROVE BenchTyped'
<1>0. UNCHANGED <<job, batch>> /\ UNCHANGED queue
  BY DEF Bench!ContextTiming, Bench!mainVars, Bench!streamVars
<1>1. CASE Bench!ContextVerify
  BY <1>0, <1>1
  DEF BenchTyped, KernelPlaces, TimingPlaces, Bench!streamVars, Bench!mainVars, Bench!GoOn,
      Bench!ContextVerify
<1>2. CASE Bench!Create
  BY <1>0, <1>2
  DEF BenchTyped, KernelPlaces, TimingPlaces, Bench!streamVars, Bench!mainVars, Bench!GoOn,
      Bench!Create
<1>3. CASE Bench!UntimedDecode
  BY <1>0, <1>3
  DEF BenchTyped, KernelPlaces, TimingPlaces, Bench!streamVars, Bench!mainVars, Bench!GoOn,
      Bench!UntimedDecode
<1>4. CASE Bench!TimedDecode
  BY <1>0, <1>4
  DEF BenchTyped, KernelPlaces, TimingPlaces, Bench!streamVars, Bench!mainVars, Bench!GoOn,
      Bench!TimedDecode
<1>5. CASE Bench!ContextMedian
  BY <1>0, <1>5
  DEF BenchTyped, KernelPlaces, TimingPlaces, Bench!streamVars, Bench!mainVars, Bench!GoOn,
      Bench!ContextMedian, Bench!Median
<1> QED BY <1>1, <1>2, <1>3, <1>4, <1>5 DEF Bench!ContextTiming

LEMMA BenchNextTyped ==
  ASSUME BenchTyped, pc' = pc, Bench!Next PROVE BenchTyped'
<1>1. CASE Bench!Failed
  BY <1>1
  DEF BenchTyped, KernelPlaces, TimingPlaces, Bench!Rest, Bench!streamVars, Bench!Exit,
      Bench!Quiet,
              Bench!Failed
<1>2. CASE Bench!CallFails
  BY <1>2 DEF BenchTyped, KernelPlaces, TimingPlaces, Bench!streamVars, Bench!mainVars, Bench!GoOn,
              Bench!CallFails, Bench!RuntimePlaces
<1>3. CASE Bench!Device
  <2>1. UNCHANGED <<doing, todo, job, batch>> BY <1>3
  DEF Bench!Device, Bench!hostVars, Bench!mainVars
  <2>2. queue' \in Seq(Ops) /\ (queue = <<>> => queue' = <<>>)
    <3>1. queue' = queue \/ queue' = <<>> \/ (queue # <<>> /\ queue' = Tail(queue))
      BY <1>3 DEF Bench!Device, Bench!DeviceLaunch, Bench!DeviceFinish, Bench!DeviceRecord,
                  Bench!DeviceFault
    <3>2. queue \in Seq(Ops) BY DEF BenchTyped
    <3>3. queue # <<>> => Tail(queue) \in Seq(Ops) BY <3>2, TailSeq
    <3>4. <<>> \in Seq(Ops) OBVIOUS
    <3> QED BY <3>1, <3>2, <3>3, <3>4, Zenon
  <2> QED BY <2>1, <2>2 DEF BenchTyped
<1> QED BY <1>1, <1>2, <1>3, Lz4Typed, SnappyTyped, ZstdTyped, GDeflateTyped, KernelTimingTyped,
           ContextTimingTyped DEF Bench!Next

\* A benchmark's launches are of grids that may be launched.
LEMMA BenchGridInv ==
  ASSUME BenchTyped, GridInv, Bench!Next PROVE GridInv' /\ (UNCHANGED gridVars \/ pc = "bench")
<1>1. CASE Bench!DeviceLaunch
  <2>1. queue \in Seq(Ops) /\ queue # <<>> /\ Head(queue).kind = "launch" /\ pc = "bench"
    BY <1>1 DEF BenchTyped, Bench!DeviceLaunch
  <2>2. Head(queue) \in Ops BY <2>1
  <2>3. Head(queue).shape \in Launchable BY <2>1, <2>2 DEF Ops
  <2>4. Grid!Launch(Head(queue).shape) BY <1>1, BenchGrid DEF Bench!DeviceLaunch
  <2> QED BY <2>1, <2>3, <2>4, LaunchInv
<1>2. CASE ~Bench!DeviceLaunch
  <2>1. UNCHANGED Bench!gridVars
    <3>1. Bench!Rest' = Bench!Rest => UNCHANGED Bench!gridVars BY DEF Bench!Rest
    <3>2. Bench!Lz4Main => UNCHANGED Bench!gridVars
      BY <3>1
      DEF Bench!Lz4Main, Bench!Quiet, Bench!Options, Bench!Build, Bench!Verify, Bench!CpuWarmUp,
          Bench!WarmUpLoop, Bench!CpuRun, Bench!TimedLoop, Bench!Report, Bench!ReportRow,
          Bench!Literals, Bench!LiteralRow, Bench!Gpu, Bench!Measure, Bench!Context,
          Bench!PrintRows, Bench!PrintNumbers, Bench!Finish, Bench!NextRung, Bench!FrameVerify,
          Bench!FrameWarmUp, Bench!FrameRun, Bench!FrameReport
    <3>3. Bench!SnappyMain => UNCHANGED Bench!gridVars
      BY <3>1
      DEF Bench!SnappyMain, Bench!Quiet, Bench!SnappyOptions, Bench!SnappyBuild,
          Bench!StreamWarmUp, Bench!WarmUpLoop, Bench!StreamRun, Bench!TimedLoop,
          Bench!StreamReport, Bench!ReportRow, Bench!StreamLiterals, Bench!LiteralRow,
          Bench!StreamGpu, Bench!Measure, Bench!StreamPrint, Bench!PrintNumbers,
          Bench!CheckDigest, Bench!SnappyFinish
    <3>4. Bench!ZstdMain => UNCHANGED Bench!gridVars
      BY <3>1
      DEF Bench!ZstdMain, Bench!Quiet, Bench!ZstdOptions, Bench!ZstdBuild, Bench!FramesWarmUp,
          Bench!WarmUpLoop, Bench!FramesRun, Bench!TimedLoop, Bench!FramesReport,
          Bench!ReportRow, Bench!CountReport, Bench!NextCell, Bench!ZstdFinish
    <3>5. Bench!GDeflateMain => UNCHANGED Bench!gridVars
      BY <3>1
      DEF Bench!GDeflateMain, Bench!Quiet, Bench!GDeflateOptions, Bench!GDeflateBuild,
          Bench!PageWarmUp, Bench!WarmUpLoop, Bench!PageRun, Bench!TimedLoop, Bench!PageReport,
          Bench!ReportRow, Bench!PageGpu, Bench!Measure, Bench!PagePrint, Bench!PrintNumbers,
          Bench!Judge, Bench!Census, Bench!Residency, Bench!GDeflateFinish
    <3>6. Bench!Failed => UNCHANGED Bench!gridVars BY <3>1 DEF Bench!Failed, Bench!Quiet
    <3> QED
      BY <1>2, <3>2, <3>3, <3>4, <3>5, <3>6
      DEF Bench!Next, Bench!KernelTiming, Bench!ContextTiming, Bench!CallFails, Bench!Device,
          Bench!DeviceFinish, Bench!DeviceRecord, Bench!DeviceFault
  <2>2. UNCHANGED gridVars BY <2>1 DEF Bench!gridVars, gridVars
  <2> QED BY <2>2, GridStays
<1> QED BY <1>1, <1>2

-----------------------------------------------------------------------------
\* The invariant of every launch, whoever makes it.
GeometryInv == GridInv /\ SubmitInv /\ BenchTyped

LEMMA GeometryInit == LaunchesInit => GeometryInv
<1> SUFFICES ASSUME LaunchesInit PROVE GeometryInv OBVIOUS
<1>1. GridInv BY DEF LaunchesInit, LaunchInit, Grid!Init, GridInv
<1>2. SubmitInv BY DEF LaunchesInit, LaunchInit, Grid!Init, Submit!Init, SubmitInv
<1>3. BenchTyped
  BY DEF LaunchesInit, LaunchInit, Submit!Init, Bench!Init, BenchTyped, KernelPlaces, TimingPlaces
<1> QED BY <1>1, <1>2, <1>3 DEF GeometryInv

LEMMA GeometryStep ==
  ASSUME GeometryInv, [LaunchesNext]_LaunchesVars PROVE GeometryInv'
<1>0. GridInv /\ SubmitInv /\ BenchTyped BY DEF GeometryInv
<1>a. UNCHANGED gridVars /\ UNCHANGED callVars => SubmitInv'
  BY <1>0 DEF SubmitInv, gridVars, callVars, Submitted, Submit!ValidArgs
<1>b. ASSUME UNCHANGED benchVars, pc' = "bench" => pc = "bench", pc = "bench" => pc' = "bench"
      PROVE  BenchTyped'
  BY <1>0, <1>b DEF BenchTyped, benchVars
<1>1. CASE DirectLaunch /\ UNCHANGED benchVars
  <2>1. PICK s \in Grid!Shapes : Grid!Launch(s) BY <1>1 DEF DirectLaunch
  <2>2. s \in Launchable BY GridConsts DEF Grid!Shapes, Launchable
  <2>3. GridInv' BY <2>1, <2>2, LaunchInv
  <2>4. SubmitInv' BY <1>0, <1>1 DEF DirectLaunch, SubmitInv
  <2>5. BenchTyped' BY <1>1, <1>b DEF DirectLaunch
  <2> QED BY <2>3, <2>4, <2>5 DEF GeometryInv
<1>2. CASE Submission /\ UNCHANGED benchVars
  <2>1. GridInv' /\ SubmitInv' BY <1>0, <1>2, SubmissionInv DEF Submission
  <2>2. pc # "bench" /\ pc' # "bench"
    BY <1>2 DEF Submission, Submit!Next, Submit!Enter, Submit!Validate, Submit!Drain,
                Submit!QueryWidth, Submit!Launch, Submit!Check, Submit!Answer
  <2>3. BenchTyped' BY <1>2, <1>b, <2>2
  <2> QED BY <2>1, <2>3 DEF GeometryInv
<1>3. CASE NextChunk /\ UNCHANGED benchVars
  <2>1. GridInv' BY <1>0, <1>3, PassInv DEF NextChunk
  <2>2. shape' = shape /\ UNCHANGED callVars BY <1>3 DEF NextChunk, Grid!Pass
  <2>3. SubmitInv' BY <1>0, <2>2 DEF SubmitInv, callVars, Submitted, Submit!ValidArgs
  <2>4. BenchTyped' BY <1>3, <1>b, <2>2 DEF callVars
  <2> QED BY <2>1, <2>3, <2>4 DEF GeometryInv
<1>4. CASE UNCHANGED gridVars /\ UNCHANGED callVars /\ UNCHANGED benchVars
  <2>1. GridInv' BY <1>0, <1>4, GridStays
  <2>2. BenchTyped' BY <1>4, <1>b DEF callVars
  <2> QED BY <1>4, <1>a, <2>1, <2>2 DEF GeometryInv
<1>5. CASE BenchBegin
  <2>1. UNCHANGED gridVars /\ pc = "idle" /\ pc' = "bench"
    BY <1>5 DEF BenchBegin, Bench!Begin, Bench!Rest, Bench!gridVars, gridVars
  <2>2. SubmitInv' BY <1>0, <2>1 DEF SubmitInv
  <2>3. BenchTyped'
    BY <1>0, <1>5, <2>1, BenchConsts
    DEF BenchTyped, KernelPlaces, TimingPlaces, BenchBegin, Bench!Begin, Bench!GoOn, Bench!Rest,
        Bench!streamVars
  <2> QED BY <1>0, <2>1, <2>2, <2>3, GridStays DEF GeometryInv
<1>6. CASE BenchStep
  <2>1. GridInv' /\ (UNCHANGED gridVars \/ pc = "bench") BY <1>0, <1>6, BenchGridInv DEF BenchStep
  <2>2. UNCHANGED callVars /\ pc' = pc BY <1>6 DEF BenchStep, callVars
  <2>3. SubmitInv' BY <1>0, <1>a, <2>1, <2>2 DEF SubmitInv
  <2>4. BenchTyped' BY <1>0, <1>6, <2>2, BenchNextTyped DEF BenchStep
  <2> QED BY <2>1, <2>3, <2>4 DEF GeometryInv
<1> QED
  BY <1>1, <1>2, <1>3, <1>4, <1>5, <1>6
  DEF LaunchesNext, LaunchNext, WaveBody, BlockBody, ThreadBody, Returned, BenchOver, launchVars,
      LaunchesVars

LEMMA GeometryInvariance == LaunchesSpec => []GeometryInv
<1>1. GeometryInv /\ [LaunchesNext]_LaunchesVars => GeometryInv' BY GeometryStep
<1> QED BY <1>1, GeometryInit, PTL DEF LaunchesSpec

\* Every grid that a kernel admits, of a batch entry point, a caller or a benchmark, takes
\* every chunk once in every lane if its index does not wrap, and whole waves if it does,
\* each team on a table set of its own (chunk_decode.cuh, gdeflate_decode.cuh,
\* zstd_decode.cuh), and an OK of submit_batch means such a grid over the whole batch:
\* for every wave width, block size, cap, batch size and index limit.
THEOREM LaunchTakesEachOnce == LaunchesSpec => []EachChunkOnce
<1>1. GeometryInv => EachChunkOnce BY OnceInv, AnswerInv DEF GeometryInv, EachChunkOnce
<1> QED BY <1>1, GeometryInvariance, PTL

-----------------------------------------------------------------------------
(* What a report is worth. The places of a main, and at each of them what  *)
(* is known of its corpus, its loop, the stream, the numbers measured so   *)
(* far and the rows printed.                                               *)

IsSeq(s) == s \in Seq({s[k] : k \in DOMAIN s})

LEMMA SeqIs == ASSUME NEW S, NEW s \in Seq(S) PROVE IsSeq(s)
<1>1. Len(s) \in Nat /\ DOMAIN s = 1..Len(s) /\ s = [k \in 1..Len(s) |-> s[k]] OBVIOUS
<1>2. s \in [1..Len(s) -> {s[k] : k \in DOMAIN s}] BY <1>1
<1> QED BY <1>1, <1>2 DEF IsSeq

LEMMA SeqFacts == ASSUME NEW s, IsSeq(s)
  PROVE Len(s) \in Nat /\ DOMAIN s = 1..Len(s) /\ (s = <<>> <=> Len(s) = 0)
BY DEF IsSeq

\* A sequence and one more; two sequences after each other.
Longer(s, e, u) ==
  /\ IsSeq(u) /\ Len(u) = Len(s) + 1 /\ DOMAIN u = 1..Len(s) + 1
  /\ \A k \in DOMAIN s : u[k] = s[k]
  /\ u[Len(s) + 1] = e
Joined(s, t, u) ==
  /\ IsSeq(u) /\ Len(u) = Len(s) + Len(t) /\ DOMAIN u = 1..Len(s) + Len(t)
  /\ \A k \in DOMAIN s : u[k] = s[k]
  /\ \A k \in DOMAIN t : u[Len(s) + k] = t[k]

LEMMA AppendFacts == ASSUME NEW s, NEW e, IsSeq(s) PROVE Longer(s, e, Append(s, e))
<1>1. PICK S : S = {s[k] : k \in DOMAIN s} \cup {e} OBVIOUS
<1>2. s \in Seq({s[k] : k \in DOMAIN s}) BY DEF IsSeq
<1>3. s \in Seq(S) /\ e \in S
  <2>1. Len(s) \in Nat /\ DOMAIN s = 1..Len(s) /\ s = [k \in 1..Len(s) |-> s[k]] BY <1>2
  <2>2. s \in [1..Len(s) -> S] BY <1>1, <2>1
  <2> QED BY <1>1, <2>1, <2>2
<1>4. Append(s, e) \in Seq(S) BY <1>3, AppendSeq
<1>5. IsSeq(Append(s, e)) BY <1>4, SeqIs
<1>6. /\ Len(Append(s, e)) = Len(s) + 1 /\ DOMAIN s = 1..Len(s) /\ Len(s) \in Nat
      /\ DOMAIN Append(s, e) = 1..Len(s) + 1
  BY <1>3, <1>4
<1>7. Append(s, e)[Len(s) + 1] = e BY <1>3
<1>8. \A k \in 1..Len(s) : Append(s, e)[k] = s[k] BY <1>3
<1> QED BY <1>5, <1>6, <1>7, <1>8 DEF Longer

LEMMA ConcatFacts == ASSUME NEW s, NEW t, IsSeq(s), IsSeq(t) PROVE Joined(s, t, s \o t)
<1>1. PICK S : S = {s[k] : k \in DOMAIN s} \cup {t[k] : k \in DOMAIN t} OBVIOUS
<1>2. s \in Seq({s[k] : k \in DOMAIN s}) /\ t \in Seq({t[k] : k \in DOMAIN t}) BY DEF IsSeq
<1>3. s \in Seq(S)
  <2>1. Len(s) \in Nat /\ DOMAIN s = 1..Len(s) /\ s = [k \in 1..Len(s) |-> s[k]] BY <1>2
  <2>2. s \in [1..Len(s) -> S] BY <1>1, <2>1
  <2> QED BY <2>1, <2>2
<1>4. t \in Seq(S)
  <2>1. Len(t) \in Nat /\ DOMAIN t = 1..Len(t) /\ t = [k \in 1..Len(t) |-> t[k]] BY <1>2
  <2>2. t \in [1..Len(t) -> S] BY <1>1, <2>1
  <2> QED BY <2>1, <2>2
<1>5. s \o t \in Seq(S) BY <1>3, <1>4, ConcatSeq
<1>6. IsSeq(s \o t) BY <1>5, SeqIs
<1>7. /\ Len(s \o t) = Len(s) + Len(t) /\ DOMAIN s = 1..Len(s) /\ DOMAIN t = 1..Len(t)
      /\ Len(s) \in Nat /\ Len(t) \in Nat /\ DOMAIN (s \o t) = 1..Len(s) + Len(t)
  BY <1>3, <1>4, <1>5
<1>8. \A k \in 1..Len(s) : (s \o t)[k] = s[k] BY <1>3, <1>4
<1>9. \A k \in 1..Len(t) : (s \o t)[Len(s) + k] = t[k] BY <1>3, <1>4
<1> QED BY <1>6, <1>7, <1>8, <1>9 DEF Joined

LEMMA EmptyIs == IsSeq(<<>>) /\ Len(<<>>) = 0 /\ DOMAIN <<>> = {}
BY DEF IsSeq

LEMMA Singles ==
  ASSUME NEW x
  PROVE  IsSeq(<<x>>) /\ Len(<<x>>) = 1 /\ DOMAIN <<x>> = 1..1 /\ <<x>>[1] = x
<1>1. PICK S : x \in S OBVIOUS
<1>2. <<x>> \in Seq(S) /\ Len(<<x>>) = 1 /\ DOMAIN <<x>> = 1..1 /\ <<x>>[1] = x BY <1>1
<1> QED BY <1>2, SeqIs
LEMMA Pairs ==
  ASSUME NEW x, NEW y
  PROVE  IsSeq(<<x, y>>) /\ Len(<<x, y>>) = 2 /\ DOMAIN <<x, y>> = 1..2 /\ <<x, y>>[1] = x
         /\ <<x, y>>[2] = y
<1>1. PICK S : x \in S /\ y \in S
  <2>1. x \in {x, y} /\ y \in {x, y} OBVIOUS
  <2> QED BY <2>1
<1>2. <<x, y>> \in Seq(S) /\ Len(<<x, y>>) = 2 /\ DOMAIN <<x, y>> = 1..2 BY <1>1
<1>3. <<x, y>>[1] = x /\ <<x, y>>[2] = y OBVIOUS
<1> QED BY <1>2, <1>3, SeqIs
LEMMA Fours ==
  ASSUME NEW x, NEW y, NEW z, NEW w
  PROVE  IsSeq(<<x, y, z, w>>) /\ Len(<<x, y, z, w>>) = 4 /\ DOMAIN <<x, y, z, w>> = 1..4
<1>1. PICK S : x \in S /\ y \in S /\ z \in S /\ w \in S
  <2>1. x \in {x, y, z, w} /\ y \in {x, y, z, w} /\ z \in {x, y, z, w} /\ w \in {x, y, z, w} OBVIOUS
  <2> QED BY <2>1
<1>2. <<x, y, z, w>> \in Seq(S) /\ Len(<<x, y, z, w>>) = 4 /\ DOMAIN <<x, y, z, w>> = 1..4 BY <1>1
<1> QED BY <1>2, SeqIs

\* The places of the timing of a context, and of a kernel between two events.
ContextPlaces == {"context_verify", "create", "untimed", "timed", "context_median"}
TimedPlaces == {"start", "launch", "stop", "await"}
Unverified == {"upload", "first_launch", "first_result", "context_verify"}
FramePlaces == {"frame_verify", "frame_warmup", "frame_run", "frame_report"}

\* What was asked for, and the mode it makes.
GModes == {"levels"} \cup (GDeflateFlags \ {"assetlike"})
Asked ==
  [bench : {"lz4", "snappy", "gdeflate", "zstd"}, kernel : Grid!Kernels, mode : {""} \cup GModes,
   malformed : BOOLEAN, generated : SUBSET STRING, shapes : SUBSET {"whole", "chunked"},
   files : BOOLEAN, warmup : Nat, runs : Nat \ {0}, counts_given : BOOLEAN, gpu : BOOLEAN,
   context : BOOLEAN, frame : BOOLEAN, literals : BOOLEAN, selfcheck : BOOLEAN]
FrameJob == job.bench = "lz4" /\ job.frame
SweepJob == job.bench = "gdeflate" /\ job.mode = "tailwaste"
Plain == ~FrameJob /\ ~SweepJob
AskInv ==
  /\ doing # "idle" =>
       /\ job \in Asked
       /\ job.bench \in {"lz4", "snappy"} => job.kernel = "chunk"
       /\ job.bench = "gdeflate" => job.kernel = "gdeflate" /\ job.generated \subseteq GDeflateFlags
       /\ job.bench # "gdeflate" => job.mode = ""
       /\ job.bench = "gdeflate" /\ doing # "options" /\ exit # 2 => job.mode \in GModes
  /\ exit = -1 <=> doing # "exited"
  /\ doing \in {"idle", "options"} =>
       rows = <<>> /\ walk = [at |-> 0, drifted |-> FALSE, points |-> <<>>]
  /\ DOMAIN walk = {"at", "drifted", "points"} /\ walk.at \in Nat

\* Where a main can be.
PlacesOf ==
  {"build", "failed", "finish"} \cup
  IF FrameJob THEN FramePlaces \cup {"rung"}
  ELSE IF job.bench = "lz4" THEN
         {"verify", "cpu_warmup", "cpu_run", "report", "literals", "gpu", "context", "measured"}
         \cup (IF job.gpu THEN KernelPlaces ELSE {})
         \cup (IF job.context THEN ContextPlaces ELSE {})
  ELSE IF job.bench = "snappy" THEN
         {"cpu_warmup", "cpu_run", "report", "literals", "gpu", "digest"}
         \cup (IF job.gpu THEN KernelPlaces \cup {"measured"} ELSE {})
  ELSE IF job.bench = "zstd" THEN
         {"cell"} \cup (IF Bench!Counted THEN {"count"} ELSE {"cpu_warmup", "cpu_run", "report"})
  ELSE IF job.mode = "blockmix" THEN {"census"}
  ELSE IF job.mode = "tailwaste" THEN {"residency", "measured"} \cup KernelPlaces
  ELSE {"cpu_warmup", "cpu_run", "report", "gpu", "judge"}
       \cup (IF job.gpu THEN KernelPlaces \cup {"measured"} ELSE {})
PlaceInv == doing \in {"idle", "options", "exited"} \/ doing \in PlacesOf

\* What is known of the corpus.
Shaped(b) == (job.bench # "gdeflate" /\ Bench!Generated)
             \/ job.mode \in {"blocktypes", "worstrounds", "worstheaders"} => b.in_shape
Gated(b) == Bench!RoundTrips(b) /\ b.chunks # <<>>
CorpusAt(p) ==
  /\ p \notin {"idle", "options", "build", "exited"} => batch \in Batches /\ Shaped(batch)
  /\ p \notin {"idle", "options", "build", "exited", "verify", "failed"} /\ ~FrameJob =>
       Gated(batch)
  /\ p = "verify" => batch.chunks # <<>>
  /\ FrameJob /\ p = "exited" /\ exit # 2 => batch \in Batches
  /\ p \in FramePlaces \ {"frame_verify"} => Bench!Rung.decodes = "same"
  /\ p \in {"count", "census"} => Bench!Decoded(batch)
  /\ p \in ((KernelPlaces \cup ContextPlaces) \ Unverified) \cup {"measured"} =>
       Bench!IsVerified
  /\ SweepJob /\ job.selfcheck /\ p \in {"residency", "measured"} \cup KernelPlaces =>
       batch.pinned
CorpusInv == CorpusAt(doing)

\* The points of a sweep, each of a grid below the index limit.
Fits(p) == p \in Point /\ p.blocks * Grid!BlockThreads(kCudaWaveSize) <= IndexLimit
PointsInv ==
  /\ IsSeq(walk.points) /\ \A i \in DOMAIN walk.points : Fits(walk.points[i])
  /\ SweepJob /\ doing \in KernelPlaces \cup {"measured", "finish"} => walk.points # <<>>

\* The samples of the series under way, and the context they are taken in.
Decodes == \A k \in DOMAIN samples : samples[k] = <<"decode">>
Alone(row, count, s) ==
  Len(s) = 1 /\ s[1].row = row /\ s[1].once /\ s[1].pages = count
OfKernel == {"full", "parse_only", "grid"}
Worth(series, s) ==
  IF series.row \in OfKernel THEN Alone(series.row, series.shape.count, s)
  ELSE Bench!OneRun(series.row, s)
AllWorth == \A k \in DOMAIN samples : Worth(Bench!Series, samples[k])
Between == {"idle", "options", "build", "verify", "literals", "gpu", "context", "measured",
            "finish", "rung", "frame_verify", "digest", "cell", "count", "census", "residency",
            "judge", "upload", "first_launch", "first_result", "series", "context_verify"}
SamplesInv ==
  /\ IsSeq(samples) /\ trip \in Nat
  /\ doing \in Between => samples = <<>> /\ trip = 0
  /\ doing \in {"cpu_warmup", "frame_warmup", "warmup", "untimed"} => samples = <<>>
  /\ doing \in {"cpu_run", "frame_run"} => trip = Len(samples) /\ trip < job.runs /\ Decodes
  /\ doing \in {"report", "frame_report"} => Len(samples) = job.runs /\ Decodes
  /\ doing \in TimedPlaces \cup {"create", "timed"} =>
       trip = Len(samples) /\ trip < job.runs /\ AllWorth
  /\ doing \in {"median", "context_median"} => Len(samples) = job.runs /\ AllWorth
ContextInv ==
  /\ doing \notin {"untimed", "timed"} => context = "none"
  /\ doing = "create" /\ ~Bench!Cold => trip = 0
  /\ doing = "timed" => context = IF Bench!Cold THEN "fresh" ELSE "grown"
  /\ doing = "untimed" => ~Bench!Cold /\ (trip # 0 => context = "grown")

\* The stream between two events of a series: what is on it, on the device and done.
Ready(s) == /\ s \in Launchable /\ s.count # 0 /\ ~Grid!Refuses(s) /\ NoWrap(s)
LaunchNow == Bench!LaunchOf(Bench!Series)
Opened == busy = <<>> /\ event.start = Len(log)
Underway == busy = <<Bench!Series.row>> /\ shape = Bench!Series.shape /\ event.start = Len(log)
Ran == /\ busy = <<>> /\ event.start # -1 /\ Len(log) = event.start + 1
       /\ Alone(Bench!Series.row, Bench!Series.shape.count, <<log[Len(log)]>>)
AtStart == busy = <<>> /\ queue = <<>>
AtLaunch ==
  \/ busy = <<>> /\ queue = <<Bench!Record("start")>>
  \/ Opened /\ queue = <<>>
AtStop ==
  \/ busy = <<>> /\ queue = <<Bench!Record("start"), LaunchNow>>
  \/ Opened /\ queue = <<LaunchNow>>
  \/ (Underway \/ Ran) /\ queue = <<>>
AtAwait ==
  \/ busy = <<>> /\ queue = <<Bench!Record("start"), LaunchNow, Bench!Record("stop")>>
  \/ Opened /\ queue = <<LaunchNow, Bench!Record("stop")>>
  \/ (Underway \/ Ran) /\ queue = <<Bench!Record("stop")>>
  \/ Ran /\ queue = <<>> /\ event.stop = Len(log)
StreamInv ==
  /\ doing \in TimingPlaces => Ready(Bench!Series.shape)
  /\ ~sick => /\ doing = "start" => AtStart
              /\ doing = "launch" => AtLaunch
              /\ doing = "stop" => AtStop
              /\ doing = "await" => AtAwait
  /\ IsSeq(log) /\ event \in [{"start", "stop"} -> Nat \cup {-1}]

\* The numbers measured, of the series of a measurement, and the series left.
SeriesOf == IF SweepJob THEN Bench!SweepSeries(walk.points) ELSE Bench!BatchSeries
Number(series, n) ==
  /\ n.row = series.row /\ n.corpus = batch /\ Len(n.samples) = job.runs
  /\ \A k \in DOMAIN n.samples : Worth(series, n.samples[k])
Measured(S) ==
  /\ IsSeq(numbers) /\ Len(numbers) <= Len(S)
  /\ \A j \in DOMAIN numbers : Number(S[j], numbers[j])
Remain(S) ==
  /\ Measured(S) /\ IsSeq(todo) /\ Len(numbers) + Len(todo) = Len(S)
  /\ \A j \in DOMAIN todo : todo[j] = S[Len(numbers) + j]
NumbersInv ==
  /\ doing \in KernelPlaces => Remain(SeriesOf)
  /\ doing \in ContextPlaces => todo # <<>> /\ Remain(Bench!ContextSeries)

\* The rows printed: what each is worth, which they are, and how many.
RowWorth(i, r) ==
  /\ IF r.row \in {"literals", "mix", "coverage"} THEN Bench!Decoded(r.corpus)
     ELSE /\ Len(r.samples) = job.runs
          /\ \A k \in DOMAIN r.samples : Bench!OneRun(r.row, r.samples[k])
  /\ r.row = "grid" => \A k \in DOMAIN r.samples :
                         r.samples[k][1].pages = walk.points[i].pages
  /\ IF r.row = "frame" THEN r.corpus.rungs[i].decodes = "same" ELSE Gated(r.corpus)
  /\ Shaped(r.corpus)
  /\ r.row \in Bench!OnDevice =>
       \A c \in DOMAIN r.corpus.chunks : r.corpus.chunks[c].device = "whole"
LitAt == IF job.literals THEN 1 ELSE 0
GpuAt == IF job.bench \in {"lz4", "snappy"} THEN 1 + LitAt ELSE 1
CtxAt == GpuAt + IF job.gpu THEN 2 ELSE 0
ContextRows == <<"device_steady", "host_steady", "device_cold", "host_cold">>
Unit ==
  IF job.bench \in {"lz4", "snappy"}
  THEN <<"cpu">> \o Bench!IfAsked(job.literals, <<"literals">>)
       \o Bench!IfAsked(job.gpu, <<"full", "parse_only">>)
       \o Bench!IfAsked(job.bench = "lz4" /\ job.context, ContextRows)
  ELSE IF job.bench = "zstd"
  THEN <<IF job.literals THEN "literals" ELSE IF "coverage" \in job.generated THEN "coverage" ELSE "cpu">>
  ELSE IF job.mode = "blockmix" THEN <<"mix">> ELSE <<"cpu">> \o Bench!IfAsked(job.gpu, <<"full">>)
Units ==
  IF job.bench = "lz4" THEN 1
  ELSE IF job.bench = "snappy" THEN Bench!SnappyCorpora
  ELSE IF job.bench = "zstd" THEN Bench!ZstdCorpora ELSE Bench!Corpora
RowName(i) ==
  IF FrameJob THEN "frame" ELSE IF SweepJob THEN "grid" ELSE Unit[1 + ((i - 1) % Len(Unit))]
RowsInv ==
  /\ IsSeq(rows) /\ \A i \in DOMAIN rows : RowWorth(i, rows[i])
  /\ exit # 2 => \A i \in DOMAIN rows : rows[i].row = RowName(i)
At(d) == walk.at < Units /\ Len(rows) = walk.at * Len(Unit) + d
PlainProgress(p) ==
  /\ p \in {"build", "verify", "cpu_warmup", "cpu_run", "report", "count", "census"} => At(0)
  /\ p = "literals" => At(1)
  /\ p \in {"gpu"} \cup KernelPlaces => At(GpuAt)
  /\ p \in {"context"} \cup ContextPlaces => At(CtxAt)
  /\ p = "measured" =>
       \/ job.gpu /\ At(GpuAt) /\ Measured(SeriesOf) /\ Len(numbers) = Len(SeriesOf)
       \/ /\ job.bench = "lz4" /\ job.context
          /\ At(CtxAt) /\ Measured(Bench!ContextSeries) /\ Len(numbers) = 4
  /\ p \in {"judge", "digest", "cell"} => At(Len(Unit))
  /\ p = "failed" => Len(rows) < Units * Len(Unit)
  /\ p = "finish" => Len(rows) = Units * Len(Unit)
SweepProgress(p) ==
  /\ p \in {"build", "residency", "failed", "measured"} \cup KernelPlaces => rows = <<>>
  /\ p = "measured" => Measured(SeriesOf) /\ Len(numbers) = Len(SeriesOf)
  /\ p = "finish" => Len(rows) = Len(walk.points)
FrameProgress(p) ==
  /\ p = "build" => rows = <<>>
  /\ p = "rung" => Len(rows) <= Bench!Rungs
  /\ p \in FramePlaces \cup {"failed"} => Len(rows) < Bench!Rungs
  /\ p = "finish" => Len(rows) = Bench!Rungs
ProgressAt(p) ==
  /\ Plain => PlainProgress(p)
  /\ SweepJob => SweepProgress(p)
  /\ FrameJob => FrameProgress(p)
ProgressInv == ProgressAt(doing)

\* Which corpora have drifted, and the exit code.
Judged == job.selfcheck /\ (job.bench = "gdeflate"
                            \/ (job.bench \in {"snappy", "zstd"} /\ ~Bench!Generated))
Printed ==
  {"literals", "gpu", "context", "measured", "judge", "cell", "digest"} \cup KernelPlaces \cup ContextPlaces
DriftAt(p) ==
  p # "idle" =>
    /\ walk.drifted => job.bench \in {"gdeflate", "zstd"}
    /\ walk.drifted => Judged /\ (job.mode = "blockmix" \/ \E i \in DOMAIN rows : ~rows[i].corpus.pinned)
    /\ Judged /\ ~walk.drifted /\ p # "exited" =>
         \A i \in DOMAIN rows : \/ rows[i].corpus.pinned
                                \/ rows[i].corpus = batch /\ p \notin {"options", "build", "finish"}
    /\ p \in Printed /\ Plain => rows # <<>> /\ rows[Len(rows)].corpus = batch
DriftInv == DriftAt(doing)

\* How many rows are wanted, and whether what they tell is sound.
WantedLen ==
  IF FrameJob THEN Bench!Rungs ELSE IF SweepJob THEN Len(walk.points) ELSE Units * Len(Unit)
Pinned == Judged => \A i \in DOMAIN rows : rows[i].corpus.pinned
Alive == job.bench = "zstd" /\ Bench!Guards => batch.guards_bite
ExitInv ==
  exit # -1 =>
    /\ exit \in {0, 1, 2} /\ (exit = 2 => rows = <<>>)
    /\ exit # 2 => Len(rows) <= WantedLen
    /\ exit = 0 => Len(rows) = WantedLen /\ WantedLen # 0 /\ Pinned /\ Alive
    /\ exit = 1 => Len(rows) # WantedLen \/ WantedLen = 0 \/ ~Pinned \/ ~Alive \/ job.mode = "blockmix"

ReportInv ==
  /\ AskInv /\ PlaceInv /\ CorpusInv /\ PointsInv /\ SamplesInv /\ ContextInv /\ StreamInv
  /\ NumbersInv /\ RowsInv /\ ProgressInv /\ DriftInv /\ ExitInv

-----------------------------------------------------------------------------
(* What the job fixes.                                                     *)

LEMMA AskedFacts ==
  ASSUME job \in Asked
  PROVE  /\ job.runs \in Nat \ {0} /\ job.warmup \in Nat /\ job.literals \in BOOLEAN
         /\ job.gpu \in BOOLEAN /\ job.context \in BOOLEAN /\ job.frame \in BOOLEAN
         /\ job.selfcheck \in BOOLEAN /\ job.kernel \in Grid!Kernels
         /\ job.bench \in {"lz4", "snappy", "gdeflate", "zstd"}
         /\ job.shapes \subseteq {"whole", "chunked"}
BY DEF Asked

\* The rows of a corpus, in the order in which they are printed.
LEMMA StreamRows ==
  ASSUME job \in Asked, job.bench \in {"lz4", "snappy"}
  PROVE  /\ IsSeq(Unit) /\ Len(Unit) = CtxAt + (IF job.bench = "lz4" /\ job.context THEN 4 ELSE 0)
         /\ Unit[1] = "cpu" /\ (job.literals => Unit[2] = "literals")
         /\ job.gpu => Unit[GpuAt + 1] = "full" /\ Unit[GpuAt + 2] = "parse_only"
         /\ job.bench = "lz4" /\ job.context => \A j \in 1..4 : Unit[CtxAt + j] = ContextRows[j]
<1> DEFINE a == <<"cpu">>
           b == Bench!IfAsked(job.literals, <<"literals">>)
           c == Bench!IfAsked(job.gpu, <<"full", "parse_only">>)
           d == Bench!IfAsked(job.bench = "lz4" /\ job.context, ContextRows)
<1>1. /\ IsSeq(a) /\ Len(a) = 1 /\ DOMAIN a = 1..1 /\ a[1] = "cpu" BY Singles
<1>2. /\ IsSeq(b) /\ Len(b) = LitAt /\ DOMAIN b = 1..LitAt /\ (job.literals => b[1] = "literals")
  <2>1. CASE job.literals
    <3>1. b = <<"literals">> BY <2>1 DEF Bench!IfAsked
    <3> QED BY <2>1, <3>1, Singles DEF LitAt
  <2>2. CASE ~job.literals
    <3>1. b = <<>> BY <2>2 DEF Bench!IfAsked
    <3> QED BY <2>2, <3>1, EmptyIs DEF LitAt
  <2> QED BY <2>1, <2>2
<1>3. /\ IsSeq(c) /\ Len(c) = (IF job.gpu THEN 2 ELSE 0) /\ DOMAIN c = 1..Len(c)
      /\ (job.gpu => c[1] = "full" /\ c[2] = "parse_only")
  <2>1. CASE job.gpu
    <3>1. c = <<"full", "parse_only">> BY <2>1 DEF Bench!IfAsked
    <3>2. IsSeq(c) /\ Len(c) = 2 /\ DOMAIN c = 1..2 /\ c[1] = "full" /\ c[2] = "parse_only"
      BY <3>1, Pairs
    <3> QED BY <2>1, <3>2
  <2>2. CASE ~job.gpu
    <3>1. c = <<>> BY <2>2 DEF Bench!IfAsked
    <3> QED BY <2>2, <3>1, EmptyIs
  <2> QED BY <2>1, <2>2
<1>4. /\ IsSeq(d) /\ Len(d) = (IF job.bench = "lz4" /\ job.context THEN 4 ELSE 0) /\ DOMAIN d = 1..Len(d)
      /\ (job.bench = "lz4" /\ job.context => d = ContextRows)
  <2>1. CASE job.bench = "lz4" /\ job.context
    <3>1. d = ContextRows BY <2>1 DEF Bench!IfAsked
    <3> QED BY <2>1, <3>1, Fours DEF ContextRows
  <2>2. CASE ~(job.bench = "lz4" /\ job.context)
    <3>1. d = <<>> BY <2>2 DEF Bench!IfAsked
    <3> QED BY <2>2, <3>1, EmptyIs
  <2> QED BY <2>1, <2>2
<1>5. Unit = ((a \o b) \o c) \o d BY DEF Unit
<1> HIDE DEF a, b, c, d
<1>6. /\ IsSeq(a \o b) /\ Len(a \o b) = GpuAt /\ DOMAIN (a \o b) = 1..GpuAt
      /\ (a \o b)[1] = "cpu" /\ (job.literals => (a \o b)[2] = "literals")
  <2>1. /\ IsSeq(a \o b) /\ Len(a \o b) = 1 + LitAt /\ DOMAIN (a \o b) = 1..1 + LitAt
        /\ \A k \in DOMAIN a : (a \o b)[k] = a[k]
        /\ \A k \in DOMAIN b : (a \o b)[1 + k] = b[k]
    <3>1. Joined(a, b, a \o b) BY <1>1, <1>2, ConcatFacts
    <3> QED BY <1>1, <1>2, <3>1 DEF Joined
  <2>2. 1 \in DOMAIN a /\ (job.literals => 1 \in DOMAIN b) BY <1>1, <1>2 DEF LitAt
  <2> QED BY <1>1, <1>2, <2>1, <2>2 DEF GpuAt
<1>7. PICK e : e = a \o b OBVIOUS
<1>8. /\ IsSeq(e \o c) /\ Len(e \o c) = CtxAt /\ DOMAIN (e \o c) = 1..CtxAt
      /\ (e \o c)[1] = "cpu" /\ (job.literals => (e \o c)[2] = "literals")
      /\ (job.gpu => (e \o c)[GpuAt + 1] = "full" /\ (e \o c)[GpuAt + 2] = "parse_only")
  <2>1. /\ IsSeq(e \o c) /\ Len(e \o c) = GpuAt + Len(c) /\ DOMAIN (e \o c) = 1..GpuAt + Len(c)
        /\ \A k \in DOMAIN e : (e \o c)[k] = e[k]
        /\ \A k \in DOMAIN c : (e \o c)[GpuAt + k] = c[k]
    <3>1. Joined(e, c, e \o c) BY <1>3, <1>6, <1>7, ConcatFacts
    <3> QED BY <1>6, <1>7, <3>1 DEF Joined
  <2>2. 1 \in DOMAIN e /\ (job.literals => 2 \in DOMAIN e) /\ (job.gpu => 1 \in DOMAIN c /\ 2 \in DOMAIN c)
    BY <1>3, <1>6, <1>7 DEF GpuAt, LitAt
  <2> QED BY <1>3, <1>6, <1>7, <2>1, <2>2 DEF CtxAt
<1>9. PICK f : f = e \o c OBVIOUS
<1>10. /\ IsSeq(f \o d) /\ Len(f \o d) = CtxAt + Len(d)
       /\ \A k \in DOMAIN f : (f \o d)[k] = f[k]
       /\ \A k \in DOMAIN d : (f \o d)[CtxAt + k] = d[k]
  <2>1. Joined(f, d, f \o d) BY <1>4, <1>8, <1>9, ConcatFacts
  <2> QED BY <1>8, <1>9, <2>1 DEF Joined
<1>11. /\ 1 \in DOMAIN f /\ (job.literals => 2 \in DOMAIN f)
       /\ (job.gpu => GpuAt + 1 \in DOMAIN f /\ GpuAt + 2 \in DOMAIN f)
       /\ (job.bench = "lz4" /\ job.context => DOMAIN d = 1..4)
  BY <1>4, <1>8, <1>9 DEF CtxAt, GpuAt, LitAt
<1>12. Unit = f \o d BY <1>5, <1>7, <1>9
<1> QED BY <1>4, <1>8, <1>9, <1>10, <1>11, <1>12

LEMMA OtherRows ==
  ASSUME job \in Asked
  PROVE  /\ job.bench = "zstd" => IsSeq(Unit) /\ Len(Unit) = 1
              /\ Unit[1] = IF job.literals THEN "literals"
                           ELSE IF "coverage" \in job.generated THEN "coverage" ELSE "cpu"
         /\ job.bench = "gdeflate" /\ job.mode = "blockmix" =>
              IsSeq(Unit) /\ Len(Unit) = 1 /\ Unit[1] = "mix"
         /\ job.bench = "gdeflate" /\ job.mode # "blockmix" =>
              IsSeq(Unit) /\ Len(Unit) = (IF job.gpu THEN 2 ELSE 1) /\ Unit[1] = "cpu"
              /\ (job.gpu => Unit[2] = "full")
<1>1. CASE job.bench = "zstd" BY <1>1, Singles DEF Unit
<1>2. CASE job.bench = "gdeflate" /\ job.mode = "blockmix" BY <1>2, Singles DEF Unit
<1>3. CASE job.bench = "gdeflate" /\ job.mode # "blockmix"
  <2>1. Unit = <<"cpu">> \o Bench!IfAsked(job.gpu, <<"full">>) BY <1>3 DEF Unit
  <2>2. CASE job.gpu
    <3>1. PICK a, b : a = <<"cpu">> /\ b = <<"full">> OBVIOUS
    <3>2. IsSeq(a) /\ Len(a) = 1 /\ DOMAIN a = 1..1 /\ a[1] = "cpu"
          /\ IsSeq(b) /\ Len(b) = 1 /\ DOMAIN b = 1..1 /\ b[1] = "full"
      BY <3>1, Singles
    <3>3. Unit = a \o b BY <2>1, <2>2, <3>1 DEF Bench!IfAsked
    <3>4. /\ IsSeq(a \o b) /\ Len(a \o b) = 2
          /\ \A k \in DOMAIN a : (a \o b)[k] = a[k]
          /\ \A k \in DOMAIN b : (a \o b)[1 + k] = b[k]
      <4>1. Joined(a, b, a \o b) BY <3>2, ConcatFacts
      <4> QED BY <3>2, <4>1 DEF Joined
    <3>5. 1 \in 1..1 OBVIOUS
    <3> QED BY <1>3, <2>2, <3>2, <3>3, <3>4, <3>5
  <2>3. CASE ~job.gpu
    <3>1. PICK a : a = <<"cpu">> OBVIOUS
    <3>2. IsSeq(a) /\ Len(a) = 1 /\ DOMAIN a = 1..1 /\ a[1] = "cpu" BY <3>1, Singles
    <3>3. Unit = a \o <<>> BY <2>1, <2>3, <3>1 DEF Bench!IfAsked
    <3>4. /\ IsSeq(a \o <<>>) /\ Len(a \o <<>>) = 1
          /\ \A k \in DOMAIN a : (a \o <<>>)[k] = a[k]
      <4>1. Joined(a, <<>>, a \o <<>>) BY <3>2, EmptyIs, ConcatFacts
      <4> QED BY <3>2, <4>1, EmptyIs DEF Joined
    <3>5. 1 \in 1..1 OBVIOUS
    <3> QED BY <1>3, <2>3, <3>2, <3>3, <3>4, <3>5
  <2> QED BY <2>2, <2>3
<1> QED BY <1>1, <1>2, <1>3

LEMMA UnitLen ==
  ASSUME job \in Asked
  PROVE  IsSeq(Unit) /\ Len(Unit) \in Nat \ {0} /\ GpuAt \in Nat /\ CtxAt \in Nat
<1>1. GpuAt \in Nat \ {0} /\ CtxAt \in Nat \ {0} BY DEF GpuAt, CtxAt, LitAt
<1>2. CASE job.bench \in {"lz4", "snappy"} BY <1>1, <1>2, StreamRows
<1>3. CASE job.bench \notin {"lz4", "snappy"}
  BY <1>1, <1>3, OtherRows, AskedFacts
<1> QED BY <1>2, <1>3

LEMMA UnitsNat ==
  ASSUME job \in Asked PROVE Units \in Nat \ {0}
<1>1. kLevelCount \in Nat \ {0} /\ kForcedFamilyCount \in Nat \ {0} /\ ZstdCells \in Nat \ {0} /\ 1 \in Nat \ {0}
  BY BenchConsts
<1>2. Bench!SnappyCorpora \in Nat \ {0}
  <2>1. PICK S \in SUBSET {"whole", "chunked"} : S = Bench!Shapes /\ S # {}
    BY AskedFacts DEF Bench!Shapes
  <2>2. IsFiniteSet({"whole", "chunked"})
    <3>1. IsFiniteSet({} \cup {"whole"}) BY FS_EmptySet, FS_AddElement
    <3>2. PICK T : T = {} \cup {"whole"} OBVIOUS
    <3>3. IsFiniteSet(T \cup {"chunked"}) BY <3>1, <3>2, FS_AddElement
    <3>4. T \cup {"chunked"} = {"whole", "chunked"} BY <3>2
    <3> QED BY <3>3, <3>4
  <2>3. IsFiniteSet(S) BY <2>1, <2>2, FS_Subset
  <2>4. Cardinality(S) \in Nat /\ Cardinality(S) # 0 BY <2>1, <2>3, FS_CardinalityType, FS_EmptySet
  <2>5. Bench!Cardinality(S) = Cardinality(S) BY DEF Bench!Cardinality, Cardinality
  <2> QED BY <2>1, <2>4, <2>5 DEF Bench!SnappyCorpora
<1>3. Bench!Corpora \in Nat \ {0} BY <1>1 DEF Bench!Corpora
<1>4. Bench!ZstdCorpora \in Nat \ {0} BY <1>1 DEF Bench!ZstdCorpora
<1> QED BY <1>2, <1>3, <1>4 DEF Units

LEMMA JobFixes ==
  ASSUME job' = job
  PROVE  /\ Unit' = Unit /\ Units' = Units /\ GpuAt' = GpuAt /\ CtxAt' = CtxAt
         /\ (FrameJob' <=> FrameJob) /\ (SweepJob' <=> SweepJob) /\ (Plain' <=> Plain)
         /\ (Judged' <=> Judged) /\ \A i : RowName(i)' = RowName(i)
         /\ \A b : Shaped(b)' <=> Shaped(b)
<1>1. Unit' = Unit BY DEF Unit
<1>2. Units' = Units
  BY DEF Units, Bench!SnappyCorpora, Bench!Shapes, Bench!ZstdCorpora, Bench!Corpora, Bench!Generated
<1>3. GpuAt' = GpuAt /\ CtxAt' = CtxAt BY DEF GpuAt, CtxAt, LitAt
<1>4. (FrameJob' <=> FrameJob) /\ (SweepJob' <=> SweepJob) BY DEF FrameJob, SweepJob
<1>5. (Judged' <=> Judged) /\ \A b : Shaped(b)' <=> Shaped(b)
  BY DEF Judged, Shaped, Bench!Generated
<1>6. \A i : RowName(i)' = RowName(i) BY <1>1, <1>4 DEF RowName
<1> QED BY <1>1, <1>2, <1>3, <1>4, <1>5, <1>6 DEF Plain

\* The place of the next row among the rows of its corpus.
LEMMA NextRowName ==
  ASSUME job \in Asked, Plain, walk.at \in Nat, NEW d \in Nat, NEW j \in Nat \ {0}, At(d), d + j <= Len(Unit)
  PROVE  RowName(Len(rows) + j) = Unit[d + j]
<1>1. Len(Unit) \in Nat \ {0} BY UnitLen
<1>2. PICK n \in Nat : n = walk.at * Len(Unit) BY <1>1, MulComm
<1>3. n = Len(Unit) * walk.at BY <1>1, <1>2, MulComm
<1>4. PICK w \in Nat \ {0}, q \in Nat, r \in Nat : w = Len(Unit) /\ q = walk.at /\ r = d + j - 1
  BY <1>1
<1>5. r \in 0..w - 1 BY <1>4
<1>6. (w * q + r) % w = r BY <1>4, <1>5, ModUnique
<1>7. (Len(rows) + j) - 1 = w * q + r /\ 1 + r = d + j BY <1>2, <1>3, <1>4 DEF At
<1>8. ((Len(rows) + j) - 1) % w = r BY <1>6, <1>7
<1> QED BY <1>4, <1>7, <1>8 DEF RowName, Plain

\* Where a main is says what it was asked for.
LEMMA Where ==
  ASSUME AskInv, PlaceInv, doing \notin {"idle", "options", "exited"}
  PROVE  /\ job \in Asked /\ (job.bench = "gdeflate" => job.mode \in GModes)
         /\ doing \in {"build", "failed", "finish"} \/ doing \in PlacesOf \ {"build", "failed", "finish"}
         /\ doing \in FramePlaces \cup {"rung"} => FrameJob
         /\ doing \in {"verify", "context"} \cup ContextPlaces => job.bench = "lz4" /\ ~job.frame
         /\ doing \in ContextPlaces => job.context
         /\ doing = "literals" => job.bench \in {"lz4", "snappy"} /\ Plain
         /\ doing = "digest" => job.bench = "snappy"
         /\ doing \in {"cell", "count"} => job.bench = "zstd"
         /\ doing = "count" => Bench!Counted
         /\ doing = "census" => job.bench = "gdeflate" /\ job.mode = "blockmix"
         /\ doing = "residency" => SweepJob
         /\ doing = "judge" => job.bench = "gdeflate" /\ job.mode \notin {"blockmix", "tailwaste"}
         /\ doing \in {"cpu_warmup", "cpu_run", "report", "gpu"} =>
              Plain /\ ~(job.bench = "gdeflate" /\ job.mode = "blockmix")
         /\ doing \in {"cpu_warmup", "cpu_run", "report"} => ~(job.bench = "zstd" /\ Bench!Counted)
         /\ doing = "gpu" => job.bench # "zstd"
         /\ doing \in KernelPlaces \cup {"measured"} =>
              ~FrameJob /\ job.bench # "zstd" /\ ~(job.bench = "gdeflate" /\ job.mode = "blockmix")
         /\ doing \in KernelPlaces => job.gpu \/ SweepJob
         /\ doing = "measured" => job.gpu \/ SweepJob \/ job.bench = "lz4"
<1>0. exit = -1 /\ exit # 2
  <2>1. exit = -1 BY DEF AskInv
  <2> QED BY <2>1
<1>1. job \in Asked /\ (job.bench = "gdeflate" => job.mode \in GModes) BY <1>0, Zenon DEF AskInv
<1>2. job.bench \in {"lz4", "snappy", "gdeflate", "zstd"} BY <1>1, AskedFacts
<1>3. doing \in PlacesOf BY DEF PlaceInv
<1>4. CASE FrameJob
  BY <1>1, <1>3, <1>4 DEF PlacesOf, KernelPlaces, TimingPlaces, ContextPlaces, FramePlaces, FrameJob
<1>5. CASE ~FrameJob /\ job.bench = "lz4"
  BY <1>1, <1>3, <1>5
  DEF PlacesOf, KernelPlaces, TimingPlaces, ContextPlaces, FramePlaces, FrameJob, SweepJob, Plain
<1>6. CASE job.bench = "snappy"
  BY <1>1, <1>3, <1>6
  DEF PlacesOf, KernelPlaces, TimingPlaces, ContextPlaces, FramePlaces, FrameJob, SweepJob, Plain
<1>7. CASE job.bench = "zstd"
  BY <1>1, <1>3, <1>7
  DEF PlacesOf, KernelPlaces, TimingPlaces, ContextPlaces, FramePlaces, FrameJob, SweepJob, Plain
<1>8. CASE job.bench = "gdeflate"
  BY <1>1, <1>3, <1>8
  DEF PlacesOf, KernelPlaces, TimingPlaces, ContextPlaces, FramePlaces, FrameJob, SweepJob, Plain
<1> QED BY <1>2, <1>4, <1>5, <1>6, <1>7, <1>8

-----------------------------------------------------------------------------
(* What a step leaves as it was.                                           *)

LEMMA RowsStay ==
  ASSUME RowsInv, job' = job, walk'.points = walk.points, rows' = rows, exit = -1
  PROVE  RowsInv'
<1>1. \A i : RowName(i)' = RowName(i) BY JobFixes
<1>2. \A i, r : RowWorth(i, r)' <=> RowWorth(i, r)
  BY DEF RowWorth, Shaped, Gated, Bench!Generated, Bench!Decoded, Bench!RoundTrips, Bench!OneRun,
         Bench!OnDevice
<1> QED BY <1>1, <1>2 DEF RowsInv

LEMMA AskStays ==
  ASSUME AskInv, UNCHANGED <<job, exit>>, DOMAIN walk' = DOMAIN walk, walk'.at \in Nat,
         doing \notin {"idle", "options", "exited"}, doing' \notin {"idle", "options", "exited"}
  PROVE  AskInv'
BY DEF AskInv

LEMMA ExitStays == ASSUME exit' = -1 PROVE ExitInv'
BY DEF ExitInv

LEMMA HostStays ==
  ASSUME StreamInv, ContextInv, UNCHANGED Bench!Rest, doing \notin {"untimed", "timed"},
         doing' \notin TimingPlaces \cup {"create", "untimed", "timed"}
  PROVE  StreamInv' /\ ContextInv'
<1>1. UNCHANGED <<log, event, context>> BY DEF Bench!Rest, Bench!streamVars
<1>2. StreamInv' BY <1>1 DEF StreamInv, TimingPlaces
<1>3. ContextInv' BY <1>1 DEF ContextInv
<1> QED BY <1>2, <1>3

LEMMA PointsStay ==
  ASSUME PointsInv, UNCHANGED <<job, walk>>,
         doing' \in KernelPlaces \cup {"measured", "finish"} /\ SweepJob =>
           doing \in KernelPlaces \cup {"measured", "finish"}
  PROVE  PointsInv'
<1>1. SweepJob' <=> SweepJob BY JobFixes
<1>2. \A q : Fits(q)' <=> Fits(q) BY DEF Fits, Grid!BlockThreads
<1> QED BY <1>1, <1>2 DEF PointsInv

LEMMA SeriesStay ==
  ASSUME UNCHANGED <<job, batch, walk>>
  PROVE  /\ SeriesOf' = SeriesOf /\ Bench!ContextSeries' = Bench!ContextSeries
         /\ \A s, n : Number(s, n)' <=> Number(s, n)
         /\ numbers' = numbers => \A S : Measured(S)' <=> Measured(S)
         /\ numbers' = numbers /\ todo' = todo => \A S : Remain(S)' <=> Remain(S)
<1>1. SweepJob' <=> SweepJob BY JobFixes
<1>2. SeriesOf' = SeriesOf
  <2>1. Bench!BatchSeries' = Bench!BatchSeries
    BY DEF Bench!BatchSeries, Bench!FullShape, Bench!Pages, Bench!Grid!Shipped, Bench!Grid!ZstdGridBlocks,
           Bench!Grid!GridBlocks, Bench!Grid!Capped, Bench!Grid!BlockThreads
  <2>2. Bench!SweepSeries(walk.points)' = Bench!SweepSeries(walk.points)
    BY DEF Bench!SweepSeries, Bench!Grid!GridBlocks, Bench!Grid!Capped, Bench!Grid!BlockThreads
  <2> QED BY <1>1, <2>1, <2>2 DEF SeriesOf
<1>3. Bench!ContextSeries' = Bench!ContextSeries BY DEF Bench!ContextSeries
<1>4. \A s, n : Number(s, n)' <=> Number(s, n)
  BY DEF Number, Worth, OfKernel, Alone, Bench!OneRun
<1>5. numbers' = numbers => \A S : Measured(S)' <=> Measured(S) BY <1>4 DEF Measured
<1>6. numbers' = numbers /\ todo' = todo => \A S : Remain(S)' <=> Remain(S) BY <1>5 DEF Remain
<1> QED BY <1>2, <1>3, <1>4, <1>5, <1>6

-----------------------------------------------------------------------------
(* The exit code.                                                          *)

LEMMA FunIs ==
  ASSUME NEW n \in Nat, NEW f, DOMAIN f = 1..n, f = [k \in 1..n |-> f[k]]
  PROVE  IsSeq(f) /\ Len(f) = n
<1>1. PICK S : S = {f[k] : k \in 1..n} OBVIOUS
<1>2. f \in [1..n -> S] BY <1>1
<1>3. f \in Seq(S) /\ Len(f) = n BY <1>2, FunSeq
<1> QED BY <1>3, SeqIs

LEMMA RepeatedIs ==
  ASSUME NEW n \in Nat, NEW each, IsSeq(each)
  PROVE  /\ IsSeq(Bench!Repeated(n, each)) /\ Len(Bench!Repeated(n, each)) = n * Len(each)
         /\ n * Len(each) \in Nat
         /\ \A k \in 1..n * Len(each) : Bench!Repeated(n, each)[k] = each[1 + ((k - 1) % Len(each))]
<1>1. n * Len(each) \in Nat BY SeqFacts, MulComm
<1>2. PICK f : f = Bench!Repeated(n, each) OBVIOUS
<1>3. f = [k \in 1..n * Len(each) |-> each[1 + ((k - 1) % Len(each))]] BY <1>2 DEF Bench!Repeated
<1>4. DOMAIN f = 1..n * Len(each) /\ f = [k \in 1..n * Len(each) |-> f[k]] BY <1>3
<1>5. IsSeq(f) /\ Len(f) = n * Len(each) BY <1>1, <1>4, FunIs
<1> QED BY <1>1, <1>2, <1>3, <1>5

\* The rows that a run which is not a sweep should print, one after the other.
Lists(w, n) == IsSeq(w) /\ n \in Nat /\ Len(w) = n /\ \A i \in 1..n : w[i] = RowName(i)

NoMode == job.bench # "gdeflate" => job.mode = ""
LEMMA PlainWanted ==
  ASSUME job \in Asked, NoMode, Plain
  PROVE  Lists(Bench!Wanted, Units * Len(Unit))
<1>1. Units \in Nat /\ IsSeq(Unit) /\ Len(Unit) \in Nat \ {0} BY UnitLen, UnitsNat
<1>2. PICK w : w = Bench!Repeated(Units, Unit) OBVIOUS
<1>3. Lists(w, Units * Len(Unit))
  BY <1>1, <1>2, RepeatedIs DEF Lists, RowName, Plain
<1>4. CASE job.bench = "lz4"
  <2>1. PICK s : s = Bench!ContextSeries OBVIOUS
  <2>2. /\ DOMAIN s = 1..4 /\ s[1].row = "device_steady" /\ s[2].row = "host_steady"
        /\ s[3].row = "device_cold" /\ s[4].row = "host_cold"
    BY <2>1 DEF Bench!ContextSeries
  <2>3. [i \in DOMAIN s |-> s[i].row] = ContextRows
    <3>1. DOMAIN ContextRows = 1..4 /\ ContextRows[1] = "device_steady" /\ ContextRows[2] = "host_steady"
          /\ ContextRows[3] = "device_cold" /\ ContextRows[4] = "host_cold"
          /\ ContextRows = [i \in 1..4 |-> ContextRows[i]]
      BY DEF ContextRows
    <3>2. \A i \in 1..4 : i \in {1, 2, 3, 4} OBVIOUS
    <3>3. \A i \in 1..4 : s[i].row = ContextRows[i] BY <2>2, <3>1, <3>2
    <3> QED BY <2>2, <3>1, <3>3
  <2>3a. job.bench # "snappy" /\ job.bench # "zstd" /\ job.mode # "tailwaste" /\ ~job.frame /\ job.bench # "gdeflate"
    BY <1>4 DEF Plain, FrameJob, NoMode
  <2>4. Bench!Wanted = Unit
    BY <1>4, <2>1, <2>3, <2>3a, Zenon
    DEF Bench!Wanted, Unit, Bench!IfAsked, Plain, FrameJob, Bench!ContextSeries
  <2>5. Units = 1 BY <1>4 DEF Units
  <2>6. \A i \in 1..Len(Unit) : 1 + ((i - 1) % Len(Unit)) = i
    <3> TAKE i \in 1..Len(Unit)
    <3>1. PICK n \in Nat \ {0}, r \in Nat : n = Len(Unit) /\ r = i - 1 BY <1>1
    <3>2. r \in 0..n - 1 /\ n * 0 + r = r BY <3>1
    <3>3. (n * 0 + r) % n = r BY <3>2, ModUnique
    <3> QED BY <3>1, <3>2, <3>3
  <2>7. \A i \in 1..Len(Unit) : Unit[i] = RowName(i) BY <2>6 DEF RowName, Plain
  <2>8. Units * Len(Unit) = Len(Unit) BY <1>1, <2>5
  <2> QED BY <1>1, <2>4, <2>7, <2>8 DEF Lists
<1>5. CASE job.bench = "snappy"
  <2>1. Bench!SnappyCorpora = Units BY <1>5, JobFixes
    DEF Units, Bench!SnappyCorpora, Bench!Shapes, Bench!Generated
  <2>2. Bench!Wanted = Bench!Repeated(Bench!SnappyCorpora,
           <<"cpu">> \o Bench!IfAsked(job.literals, <<"literals">>)
           \o Bench!IfAsked(job.gpu, <<"full", "parse_only">>))
    <3>1. job.bench # "lz4" /\ job.bench # "zstd" /\ job.mode # "tailwaste" BY <1>5 DEF NoMode
    <3> QED BY <1>5, <3>1, Zenon DEF Bench!Wanted
  <2>3. Unit = <<"cpu">> \o Bench!IfAsked(job.literals, <<"literals">>)
               \o Bench!IfAsked(job.gpu, <<"full", "parse_only">>)
    <3>1. PICK e : e = <<"cpu">> \o Bench!IfAsked(job.literals, <<"literals">>)
               \o Bench!IfAsked(job.gpu, <<"full", "parse_only">>) OBVIOUS
    <3>2. Unit = e \o <<>> BY <1>5, <3>1 DEF Unit, Bench!IfAsked
    <3>3. IsSeq(e)
      <4>1. IsSeq(Bench!IfAsked(job.literals, <<"literals">>))
        <5>1. IsSeq(<<"literals">>) /\ IsSeq(<<>>) BY Singles, EmptyIs
        <5> QED BY <5>1, Zenon DEF Bench!IfAsked
      <4>2. IsSeq(Bench!IfAsked(job.gpu, <<"full", "parse_only">>))
        <5>1. IsSeq(<<"full", "parse_only">>) /\ IsSeq(<<>>) BY Pairs, EmptyIs
        <5> QED BY <5>1, Zenon DEF Bench!IfAsked
      <4>3. IsSeq(<<"cpu">>) BY Singles
      <4>4. PICK a, b, c : /\ a = <<"cpu">> /\ b = Bench!IfAsked(job.literals, <<"literals">>)
                           /\ c = Bench!IfAsked(job.gpu, <<"full", "parse_only">>)
        OBVIOUS
      <4>5. Joined(a, b, a \o b) BY <4>1, <4>3, <4>4, ConcatFacts
      <4>6. IsSeq(a \o b) BY <4>5 DEF Joined
      <4>7. Joined(a \o b, c, (a \o b) \o c) BY <4>2, <4>4, <4>6, ConcatFacts
      <4>8. IsSeq((a \o b) \o c) BY <4>7 DEF Joined
      <4> QED BY <3>1, <4>4, <4>8
    <3>4. e \o <<>> = e BY <3>3 DEF IsSeq
    <3> QED BY <3>1, <3>2, <3>4
  <2> QED BY <1>2, <1>3, <2>1, <2>2, <2>3
<1>6. CASE job.bench = "zstd"
  <2>1. Bench!ZstdCorpora = Units BY <1>6 DEF Units, Bench!ZstdCorpora, Bench!Generated
  <2>2. Bench!Wanted = Bench!Repeated(Bench!ZstdCorpora, Unit)
    <3>1. job.bench # "lz4" /\ job.bench # "snappy" /\ job.mode # "tailwaste" /\ job.bench # "gdeflate" BY <1>6 DEF NoMode
    <3> QED BY <1>6, <3>1, Zenon DEF Bench!Wanted, Unit
  <2> QED BY <1>2, <1>3, <2>1, <2>2
<1>7. CASE job.bench = "gdeflate"
  <2>1. Bench!Corpora = Units BY <1>7 DEF Units, Bench!Corpora
  <2>2. job.mode # "tailwaste" BY <1>7 DEF Plain, SweepJob
  <2>3. Bench!Wanted = Bench!Repeated(Bench!Corpora, Unit)
    BY <1>7, <2>2 DEF Bench!Wanted, Bench!Repeated, Unit, Bench!IfAsked
  <2> QED BY <1>2, <1>3, <2>1, <2>3
<1> QED BY <1>4, <1>5, <1>6, <1>7, AskedFacts

LEMMA RungsAre == ASSUME NEW b \in Batches PROVE IsSeq(b.rungs) /\ Len(b.rungs) \in Nat \ {0}
<1>1. b.rungs \in Seq([blocks : Nat, decodes : {"same", "other"}]) \ {<<>>} BY BenchAssumption
<1>2. PICK S : b.rungs \in Seq(S) \ {<<>>} BY <1>1
<1>3. IsSeq(b.rungs) BY <1>2, SeqIs
<1> QED BY <1>2, <1>3, SeqFacts

LEMMA ListsMade ==
  ASSUME NEW n \in Nat, NEW w, NEW x, w = [i \in 1..n |-> x], \A i \in 1..n : RowName(i) = x
  PROVE  Lists(w, n)
<1>1. DOMAIN w = 1..n /\ w = [k \in 1..n |-> w[k]] OBVIOUS
<1>2. IsSeq(w) /\ Len(w) = n BY <1>1, FunIs
<1> QED BY <1>2 DEF Lists

LEMMA WantedLists ==
  ASSUME job \in Asked, NoMode, PointsInv, FrameJob => batch \in Batches
  PROVE  Lists(Bench!Wanted, WantedLen)
<1>1. CASE FrameJob
  <2>1. PICK n \in Nat : n = Len(batch.rungs) BY <1>1, RungsAre
  <2>2. Bench!Rungs = n BY <2>1 DEF Bench!Rungs
  <2>3. job.bench = "lz4" /\ job.frame BY <1>1 DEF FrameJob
  <2>4. job.bench # "snappy" /\ job.bench # "zstd" /\ job.mode # "tailwaste" BY <2>3 DEF NoMode
  <2>5. Bench!Wanted = [i \in 1..n |-> "frame"] BY <2>2, <2>3, <2>4, Zenon DEF Bench!Wanted
  <2>6. \A i \in 1..n : RowName(i) = "frame" BY <1>1 DEF RowName
  <2>7. Lists(Bench!Wanted, n) BY <2>5, <2>6, ListsMade
  <2> QED BY <1>1, <2>2, <2>7 DEF WantedLen
<1>2. CASE SweepJob
  <2>1. IsSeq(walk.points) BY DEF PointsInv
  <2>2. PICK n \in Nat : n = Len(walk.points) /\ DOMAIN walk.points = 1..n BY <2>1, SeqFacts
  <2>3. job.bench = "gdeflate" /\ job.mode = "tailwaste" /\ ~FrameJob BY <1>2 DEF SweepJob, FrameJob
  <2>4. job.bench # "snappy" /\ job.bench # "zstd" /\ job.bench # "lz4" BY <2>3
  <2>5. Bench!Wanted = [i \in DOMAIN walk.points |-> "grid"] BY <2>3, <2>4, Zenon DEF Bench!Wanted
  <2>6. \A i \in 1..n : RowName(i) = "grid" BY <1>2, <2>3 DEF RowName
  <2>7. Lists(Bench!Wanted, n) BY <2>2, <2>5, <2>6, ListsMade
  <2> QED BY <1>2, <2>2, <2>3, <2>7 DEF WantedLen
<1>3. CASE Plain
  <2>1. Lists(Bench!Wanted, Units * Len(Unit)) BY <1>3, PlainWanted
  <2> QED BY <1>3, <2>1 DEF WantedLen, Plain
<1> QED BY <1>1, <1>2, <1>3 DEF Plain

\* A report whose rows are the first of the wanted ones.
LEMMA Prefix ==
  ASSUME NEW p, NEW w, NEW n \in Nat, IsSeq(p), IsSeq(w), Len(w) = n, Len(p) <= n,
         \A i \in DOMAIN p : p[i] = w[i]
  PROVE  p = SubSeq(w, 1, Len(p)) /\ (p = w <=> Len(p) = n) /\ (w = <<>> <=> n = 0)
<1>1. Len(p) \in Nat /\ DOMAIN p = 1..Len(p) /\ DOMAIN w = 1..n BY SeqFacts
<1>2. p = [i \in 1..Len(p) |-> p[i]] /\ w = [i \in 1..n |-> w[i]] BY <1>1 DEF IsSeq
<1>3. PICK S : w \in Seq(S) BY DEF IsSeq
<1>4. PICK k \in 0..n : k = Len(p)
  <2>1. PICK k \in Nat : k = Len(p) BY <1>1
  <2>2. k \in 0..n BY <2>1
  <2> QED BY <2>1, <2>2
<1>5. PICK q : q = SubSeq(w, 1, k) OBVIOUS
<1>6. q = [i \in 1..k |-> w[i]] BY <1>3, <1>4, <1>5
<1>7. p = q BY <1>1, <1>2, <1>4, <1>6
<1>8. p = w <=> Len(p) = n BY <1>1, <1>2
<1> QED BY <1>4, <1>5, <1>7, <1>8, SeqFacts

LEMMA ReportTells ==
  ASSUME ReportInv PROVE Bench!RowsAreMeasured /\ Bench!ExitTellsTruth
<1>1. Bench!RowsAreMeasured
  BY DEF ReportInv, RowsInv, RowWorth, Gated, Shaped, Bench!RowsAreMeasured
<1>2. Bench!ExitTellsTruth
  <2>1. SUFFICES ASSUME exit # -1 PROVE Bench!ExitTellsTruth BY DEF Bench!ExitTellsTruth
  <2>2. doing = "exited" /\ job \in Asked /\ NoMode BY <2>1 DEF ReportInv, AskInv, NoMode
  <2>3. context = "none" /\ (exit = 2 => rows = <<>>)
    BY <2>1, <2>2 DEF ReportInv, ContextInv, ExitInv
  <2>4. ASSUME exit # 2
        PROVE  /\ Lists(Bench!Wanted, WantedLen) /\ IsSeq(rows) /\ Len(rows) <= WantedLen
               /\ \A i \in DOMAIN rows : rows[i].row = RowName(i)
    <3>1. FrameJob => batch \in Batches BY <2>2, <2>4 DEF ReportInv, CorpusInv, CorpusAt
    <3>2. PointsInv BY DEF ReportInv
    <3>3. Lists(Bench!Wanted, WantedLen) BY <2>2, <3>1, <3>2, WantedLists
    <3> QED BY <2>1, <2>4, <3>3 DEF ReportInv, ExitInv, RowsInv
  <2>5. ASSUME exit # 2, NEW p, p = [i \in DOMAIN rows |-> rows[i].row]
        PROVE  /\ Len(p) <= Len(Bench!Wanted) /\ p = SubSeq(Bench!Wanted, 1, Len(p))
               /\ p = Bench!Wanted <=> Len(rows) = WantedLen
               /\ Bench!Wanted = <<>> <=> WantedLen = 0
    <3>0. PICK w : w = Bench!Wanted OBVIOUS
    <3>1. PICK n \in Nat : /\ n = WantedLen /\ w = Bench!Wanted /\ IsSeq(w) /\ Len(w) = n
                           /\ \A i \in 1..n : w[i] = RowName(i)
      BY <2>4, <2>5, <3>0 DEF Lists
    <3>2. Len(rows) \in Nat /\ DOMAIN rows = 1..Len(rows) BY <2>4, <2>5, SeqFacts
    <3>3. DOMAIN p = 1..Len(rows) /\ p = [k \in 1..Len(rows) |-> p[k]] BY <2>5, <3>2
    <3>4. IsSeq(p) /\ Len(p) = Len(rows) BY <3>2, <3>3, FunIs
    <3>5. \A i \in DOMAIN p : p[i] = w[i] BY <2>4, <2>5, <3>1, <3>2, <3>3
    <3>6. Len(p) <= n BY <2>4, <2>5, <3>1, <3>4
    <3>7. p = SubSeq(w, 1, Len(p)) /\ (p = w <=> Len(p) = n) /\ (w = <<>> <=> n = 0)
      BY <3>1, <3>4, <3>5, <3>6, Prefix
    <3> QED BY <3>1, <3>4, <3>6, <3>7
  <2>6. PICK p : p = [i \in DOMAIN rows |-> rows[i].row] OBVIOUS
  <2>7. Pinned <=> (job.selfcheck /\ (job.bench = "gdeflate"
                                         \/ (job.bench \in {"snappy", "zstd"} /\ ~Bench!Generated))
                         => \A i \in DOMAIN rows : rows[i].corpus.pinned)
    BY DEF Pinned, Judged
  <2>8. exit # 2 =>
          /\ exit = 0 => Len(rows) = WantedLen /\ WantedLen # 0 /\ Pinned /\ Alive
          /\ exit = 1 => Len(rows) # WantedLen \/ WantedLen = 0 \/ ~Pinned \/ ~Alive \/ job.mode = "blockmix"
    BY <2>1 DEF ReportInv, ExitInv
  <2>9. CASE exit = 2 BY <2>3, <2>9 DEF Bench!ExitTellsTruth
  <2>10. CASE exit # 2
    <3>1. /\ Len(p) <= Len(Bench!Wanted) /\ p = SubSeq(Bench!Wanted, 1, Len(p))
          /\ p = Bench!Wanted <=> Len(rows) = WantedLen
          /\ Bench!Wanted = <<>> <=> WantedLen = 0
      BY <2>5, <2>6, <2>10
    <3>2. Alive <=> (job.bench = "zstd" /\ Bench!Guards => batch.guards_bite) BY DEF Alive
    <3> QED BY <2>3, <2>6, <2>7, <2>8, <2>10, <3>1, <3>2, Zenon DEF Bench!ExitTellsTruth
  <2> QED BY <2>9, <2>10
<1> QED BY <1>1, <1>2

\* The places and the corpus at hand are what the job and the rows make them.
LEMMA SamePlaces ==
  ASSUME job' = job PROVE PlacesOf' = PlacesOf
<1>1. (FrameJob' <=> FrameJob) BY JobFixes
<1> QED BY <1>1 DEF PlacesOf, Bench!Counted

LEMMA SameCorpus ==
  ASSUME UNCHANGED <<job, batch, rows, exit>>
  PROVE  \A p : CorpusAt(p)' <=> CorpusAt(p)
<1>1. (FrameJob' <=> FrameJob) /\ (SweepJob' <=> SweepJob) /\ \A b : Shaped(b)' <=> Shaped(b) BY JobFixes
<1>2. (Gated(batch)' <=> Gated(batch)) /\ (Bench!Decoded(batch)' <=> Bench!Decoded(batch))
      /\ (Bench!IsVerified' <=> Bench!IsVerified)
      /\ (Bench!Rung' = Bench!Rung)
      /\ (Shaped(batch)' <=> Shaped(batch))
  BY <1>1 DEF Gated, Bench!Decoded, Bench!RoundTrips, Bench!IsVerified, Bench!Rung, Shaped, Bench!Generated
<1> QED BY <1>1, <1>2 DEF CorpusAt

LEMMA SameProgress ==
  ASSUME UNCHANGED <<job, batch, walk, rows>>, NEW p, numbers' = numbers \/ p # "measured"
  PROVE  ProgressAt(p)' <=> ProgressAt(p)
<1>1. /\ Unit' = Unit /\ Units' = Units /\ GpuAt' = GpuAt /\ CtxAt' = CtxAt
      /\ (FrameJob' <=> FrameJob) /\ (SweepJob' <=> SweepJob) /\ (Plain' <=> Plain)
  BY JobFixes
<1>2. \A d : At(d)' <=> At(d) BY <1>1 DEF At
<1>3. SeriesOf' = SeriesOf /\ Bench!ContextSeries' = Bench!ContextSeries BY SeriesStay
<1>4. numbers' = numbers => \A S : Measured(S)' <=> Measured(S) BY SeriesStay
<1>5. numbers' = numbers => (Measured(SeriesOf)' <=> Measured(SeriesOf))
                            /\ (Measured(Bench!ContextSeries)' <=> Measured(Bench!ContextSeries))
  BY <1>3, <1>4 DEF Measured
<1>6. Bench!Rungs' = Bench!Rungs BY DEF Bench!Rungs
<1>7. PlainProgress(p)' <=> PlainProgress(p)
  <2>1. At(0)' <=> At(0) BY <1>2
  <2>2. At(1)' <=> At(1) BY <1>2
  <2>3. At(GpuAt)' <=> At(GpuAt) BY <1>1 DEF At
  <2>4. At(CtxAt)' <=> At(CtxAt) BY <1>1 DEF At
  <2>5. At(Len(Unit))' <=> At(Len(Unit)) BY <1>1 DEF At
  <2>6. p = "measured" => numbers' = numbers OBVIOUS
  <2> QED BY <1>1, <1>3, <1>5, <2>1, <2>2, <2>3, <2>4, <2>5, <2>6 DEF PlainProgress
<1>8. SweepProgress(p)' <=> SweepProgress(p) BY <1>1, <1>3, <1>5 DEF SweepProgress
<1>9. FrameProgress(p)' <=> FrameProgress(p) BY <1>6 DEF FrameProgress
<1> QED BY <1>1, <1>7, <1>8, <1>9 DEF ProgressAt

LEMMA SameDrift ==
  ASSUME UNCHANGED <<job, batch, walk, rows>>
  PROVE  \A p : DriftAt(p)' <=> DriftAt(p)
<1>1. (Judged' <=> Judged) /\ (Plain' <=> Plain) BY JobFixes
<1> QED BY <1>1 DEF DriftAt

\* A step of the host that prints nothing and takes no new corpus.
Quietly == UNCHANGED <<job, batch, walk, rows, exit>>
Interior(p) == p \notin {"idle", "options", "exited"}
LEMMA HostMovesTo ==
  ASSUME ReportInv, NEW q, doing' = q, Quietly, Interior(doing), Interior(q),
         q \in PlacesOf, CorpusAt(q), ProgressAt(q)', DriftAt(q),
         SweepJob /\ q \in KernelPlaces \cup {"measured", "finish"} =>
           doing \in KernelPlaces \cup {"measured", "finish"},
         SamplesInv', StreamInv', ContextInv', NumbersInv'
  PROVE  ReportInv'
<1>0. AskInv /\ PlaceInv /\ PointsInv /\ RowsInv /\ ExitInv BY DEF ReportInv
<1>1. UNCHANGED <<job, batch, walk, rows, exit>> BY DEF Quietly
<1>2. exit = -1 BY <1>0 DEF AskInv, Interior
<1>3. walk.at \in Nat BY <1>0 DEF AskInv
<1>4. AskInv' BY <1>0, <1>1, <1>3, AskStays DEF Interior
<1>5. PlaceInv' BY <1>1, SamePlaces DEF PlaceInv
<1>6. CorpusInv' BY <1>1, SameCorpus DEF CorpusInv, CorpusAt
<1>7. PointsInv' BY <1>0, <1>1, PointsStay
<1>8. RowsInv' BY <1>0, <1>1, <1>2, RowsStay
<1>9. ProgressInv' BY DEF ProgressInv
<1>10. DriftInv' BY <1>1, SameDrift DEF DriftInv, DriftAt
<1>11. ExitInv' BY <1>1, <1>2, ExitStays
<1> QED BY <1>4, <1>5, <1>6, <1>7, <1>8, <1>9, <1>10, <1>11 DEF ReportInv

LEMMA HostMoves ==
  ASSUME ReportInv, NEW q, doing' = q, Quietly, Interior(doing), Interior(q),
         q \in PlacesOf, CorpusAt(q), ProgressAt(q), DriftAt(q),
         numbers' = numbers \/ q # "measured",
         SweepJob /\ q \in KernelPlaces \cup {"measured", "finish"} =>
           doing \in KernelPlaces \cup {"measured", "finish"},
         SamplesInv', StreamInv', ContextInv', NumbersInv'
  PROVE  ReportInv'
<1>1. ProgressAt(q)' BY SameProgress DEF Quietly
<1> QED BY <1>1, HostMovesTo

-----------------------------------------------------------------------------
(* The loops and the rows of the mains.                                    *)

CpuPlaces == {"cpu_warmup", "cpu_run", "report"}
LEMMA PlacesAre ==
  ASSUME job \in Asked
  PROVE  /\ {"build", "failed", "finish"} \subseteq PlacesOf
         /\ FrameJob => FramePlaces \cup {"rung"} \subseteq PlacesOf
         /\ job.bench = "lz4" /\ ~job.frame =>
              /\ CpuPlaces \cup {"verify", "literals", "gpu", "context", "measured"} \subseteq PlacesOf
              /\ job.context => ContextPlaces \subseteq PlacesOf
         /\ job.bench = "snappy" => CpuPlaces \cup {"literals", "gpu", "digest"} \subseteq PlacesOf
         /\ job.bench = "zstd" => "cell" \in PlacesOf
         /\ job.bench = "zstd" /\ Bench!Counted => "count" \in PlacesOf
         /\ job.bench = "zstd" /\ ~Bench!Counted => CpuPlaces \subseteq PlacesOf
         /\ job.bench = "gdeflate" /\ job.mode = "blockmix" => "census" \in PlacesOf
         /\ SweepJob => {"residency", "measured"} \cup KernelPlaces \subseteq PlacesOf
         /\ job.bench = "gdeflate" /\ job.mode \notin {"blockmix", "tailwaste"} =>
              CpuPlaces \cup {"gpu", "judge"} \subseteq PlacesOf
         /\ job.bench # "zstd" /\ ~FrameJob /\ ~SweepJob /\ job.mode # "blockmix" /\ job.gpu =>
              KernelPlaces \cup {"measured"} \subseteq PlacesOf
<1>1. job.bench \in {"lz4", "snappy", "gdeflate", "zstd"} BY AskedFacts
<1>2. CASE FrameJob BY <1>2 DEF PlacesOf, FrameJob, SweepJob
<1>3. CASE ~FrameJob /\ job.bench = "lz4" BY <1>3 DEF PlacesOf, FrameJob, SweepJob, CpuPlaces
<1>4. CASE job.bench = "snappy" BY <1>4 DEF PlacesOf, FrameJob, SweepJob, CpuPlaces
<1>5. CASE job.bench = "zstd" BY <1>5 DEF PlacesOf, FrameJob, SweepJob, CpuPlaces
<1>6. CASE job.bench = "gdeflate" BY <1>6 DEF PlacesOf, FrameJob, SweepJob, CpuPlaces
<1> QED BY <1>1, <1>2, <1>3, <1>4, <1>5, <1>6

LEMMA CpuNext ==
  ASSUME AskInv, PlaceInv, doing \in CpuPlaces
  PROVE  /\ job \in Asked /\ Plain /\ CpuPlaces \subseteq PlacesOf
         /\ job.bench \in {"lz4", "snappy"} => "literals" \in PlacesOf
         /\ job.bench = "gdeflate" => "gpu" \in PlacesOf
         /\ job.bench = "zstd" => "cell" \in PlacesOf
<1>1. Interior(doing) BY DEF CpuPlaces, Interior
<1>2. job \in Asked /\ Plain /\ ~(job.bench = "gdeflate" /\ job.mode = "blockmix")
      /\ ~(job.bench = "zstd" /\ Bench!Counted)
  BY <1>1, Where DEF CpuPlaces, Interior
<1>3. job.bench \in {"lz4", "snappy", "gdeflate", "zstd"} BY <1>2, AskedFacts
<1> QED BY <1>2, <1>3, PlacesAre DEF Plain, FrameJob, SweepJob

HostLoop(here, next) ==
  \/ here = "cpu_warmup" /\ next = "cpu_run"
  \/ here = "cpu_run" /\ next = "report"
  \/ here = "frame_warmup" /\ next = "frame_run"
  \/ here = "frame_run" /\ next = "frame_report"

\* Within a loop of the host and from one to the next nothing else is learnt.
LEMMA LoopPlaces ==
  ASSUME ReportInv, NEW next, HostLoop(doing, next), NEW q \in {doing, next}
  PROVE  /\ Interior(doing) /\ Interior(q) /\ q \in PlacesOf
         /\ CorpusAt(q) /\ ProgressAt(q) /\ DriftAt(q)
         /\ q \notin KernelPlaces \cup ContextPlaces \cup {"measured", "finish"}
<1>1. CorpusAt(doing) /\ ProgressAt(doing) /\ DriftAt(doing) /\ AskInv /\ PlaceInv
  BY DEF ReportInv, CorpusInv, ProgressInv, DriftInv
<1>2. Interior(doing) /\ Interior(q) BY DEF HostLoop, Interior
<1>3. q \notin KernelPlaces \cup ContextPlaces \cup {"measured", "finish"}
  BY DEF HostLoop, KernelPlaces, TimingPlaces, ContextPlaces
<1>4. q \in PlacesOf
  <2>1. CASE doing \in {"cpu_warmup", "cpu_run"} BY <1>1, <2>1, CpuNext DEF CpuPlaces, HostLoop
  <2>2. CASE doing \in {"frame_warmup", "frame_run"}
    <3>1. FrameJob /\ job \in Asked BY <1>1, <2>2, Where DEF FramePlaces
    <3> QED BY <2>2, <3>1, PlacesAre DEF HostLoop, FramePlaces
  <2> QED BY <2>1, <2>2 DEF HostLoop
<1>5. CorpusAt(q) BY <1>1 DEF HostLoop, CorpusAt, FramePlaces, KernelPlaces, ContextPlaces, TimingPlaces
<1>6. ProgressAt(q)
  BY <1>1 DEF HostLoop, ProgressAt, PlainProgress, SweepProgress, FrameProgress, FramePlaces,
              KernelPlaces, ContextPlaces, TimingPlaces
<1>7. DriftAt(q) BY <1>1 DEF HostLoop, DriftAt, Printed, KernelPlaces, ContextPlaces, TimingPlaces
<1> QED BY <1>2, <1>3, <1>4, <1>5, <1>6, <1>7

LEMMA WarmUpLoopInv ==
  ASSUME ReportInv, NEW here, NEW next, HostLoop(here, next),
         here \in {"cpu_warmup", "frame_warmup"}, Bench!WarmUpLoop(here, next)
  PROVE  ReportInv'
<1>1. /\ doing = here /\ UNCHANGED <<todo, samples, numbers>> /\ UNCHANGED Bench!Rest /\ Quietly
      /\ \/ doing' = doing /\ trip' = trip + 1
         \/ doing' = next /\ trip' = 0
  BY DEF Bench!WarmUpLoop, Bench!GoOn, Bench!mainVars, Quietly
<1>2. doing' \in {doing, next} /\ HostLoop(doing, next) BY <1>1
<1>3. /\ Interior(doing) /\ Interior(doing') /\ doing' \in PlacesOf
      /\ CorpusAt(doing') /\ ProgressAt(doing') /\ DriftAt(doing')
      /\ doing' \notin KernelPlaces \cup ContextPlaces \cup {"measured", "finish"}
  BY <1>2, LoopPlaces
<1>4. SamplesInv /\ StreamInv /\ ContextInv /\ AskInv /\ PlaceInv BY DEF ReportInv
<1>5. job.runs \in Nat \ {0}
  <2>1. job \in Asked BY <1>3, <1>4, Where DEF Interior
  <2> QED BY <2>1, AskedFacts
<1>6. samples = <<>> /\ trip \in Nat BY <1>1, <1>4 DEF SamplesInv
<1>7. SamplesInv'
  BY <1>1, <1>2, <1>4, <1>5, <1>6, EmptyIs
  DEF SamplesInv, HostLoop, Between, TimedPlaces, Decodes, Quietly
<1>8. StreamInv' /\ ContextInv'
  <2>1. doing \notin {"untimed", "timed"} BY <1>1
  <2>2. doing' \notin TimingPlaces \cup {"create", "untimed", "timed"}
    BY <1>3 DEF KernelPlaces, ContextPlaces
  <2> QED BY <1>1, <1>4, <2>1, <2>2, HostStays
<1>9. NumbersInv' BY <1>3 DEF NumbersInv
<1> QED BY <1>1, <1>3, <1>7, <1>8, <1>9, HostMoves

LEMMA TimedLoopInv ==
  ASSUME ReportInv, NEW here, NEW next, HostLoop(here, next),
         here \in {"cpu_run", "frame_run"}, Bench!TimedLoop(here, next)
  PROVE  ReportInv'
<1>1. /\ doing = here /\ UNCHANGED <<todo, numbers>> /\ UNCHANGED Bench!Rest /\ Quietly
      /\ samples' = Append(samples, <<"decode">>) /\ trip' = trip + 1
      /\ doing' = IF trip + 1 < job.runs THEN doing ELSE next
  BY DEF Bench!TimedLoop, Bench!GoOn, Bench!mainVars, Quietly
<1>2. doing' \in {doing, next} /\ HostLoop(doing, next) BY <1>1
<1>3. /\ Interior(doing) /\ Interior(doing') /\ doing' \in PlacesOf
      /\ CorpusAt(doing') /\ ProgressAt(doing') /\ DriftAt(doing')
      /\ doing' \notin KernelPlaces \cup ContextPlaces \cup {"measured", "finish"}
  BY <1>2, LoopPlaces
<1>4. SamplesInv /\ StreamInv /\ ContextInv /\ AskInv /\ PlaceInv BY DEF ReportInv
<1>5. job.runs \in Nat \ {0}
  <2>1. job \in Asked BY <1>3, <1>4, Where DEF Interior
  <2> QED BY <2>1, AskedFacts
<1>6. IsSeq(samples) /\ trip \in Nat /\ trip = Len(samples) /\ trip < job.runs /\ Decodes
  BY <1>1, <1>4 DEF SamplesInv
<1>7. Longer(samples, <<"decode">>, samples') BY <1>1, <1>6, AppendFacts
<1>8. IsSeq(samples') /\ Len(samples') = Len(samples) + 1 BY <1>7 DEF Longer
<1>9. Decodes'
  <2>1. DOMAIN samples = 1..Len(samples) /\ Len(samples) \in Nat BY <1>6, SeqFacts
  <2> QED BY <1>6, <1>7, <2>1 DEF Decodes, Longer
<1>10. job' = job BY <1>1 DEF Quietly
<1>11. SamplesInv'
  <2>1. trip' \in Nat /\ trip' = Len(samples') BY <1>1, <1>6, <1>8
  <2>2. CASE trip + 1 < job.runs
    <3>1. doing' = doing BY <1>1, <2>2
    <3> QED BY <1>1, <1>2, <1>8, <1>9, <1>10, <2>1, <2>2, <3>1 DEF SamplesInv, HostLoop, Between, TimedPlaces
  <2>3. CASE ~(trip + 1 < job.runs)
    <3>1. doing' = next BY <1>1, <2>3
    <3>2. Len(samples') = job.runs BY <1>5, <1>6, <1>8, <2>3
    <3> QED BY <1>1, <1>2, <1>8, <1>9, <1>10, <2>1, <3>1, <3>2 DEF SamplesInv, HostLoop, Between, TimedPlaces
  <2> QED BY <2>2, <2>3
<1>12. StreamInv' /\ ContextInv'
  <2>1. doing \notin {"untimed", "timed"} BY <1>1
  <2>2. doing' \notin TimingPlaces \cup {"create", "untimed", "timed"}
    BY <1>3 DEF KernelPlaces, ContextPlaces
  <2> QED BY <1>1, <1>4, <2>1, <2>2, HostStays
<1>13. NumbersInv' BY <1>3 DEF NumbersInv
<1> QED BY <1>1, <1>3, <1>11, <1>12, <1>13, HostMoves

\* A row is printed behind the others.
LEMMA RowsGrow ==
  ASSUME RowsInv, job' = job, walk'.points = walk.points, exit = -1, NEW r, rows' = Append(rows, r),
         RowWorth(Len(rows) + 1, r), r.row = RowName(Len(rows) + 1)
  PROVE  RowsInv'
<1>1. \A i : RowName(i)' = RowName(i) BY JobFixes
<1>2. \A i, x : RowWorth(i, x)' <=> RowWorth(i, x)
  BY DEF RowWorth, Shaped, Gated, Bench!Generated, Bench!Decoded, Bench!RoundTrips, Bench!OneRun,
         Bench!OnDevice
<1>3. IsSeq(rows) /\ (\A i \in DOMAIN rows : RowWorth(i, rows[i])) /\ \A i \in DOMAIN rows : rows[i].row = RowName(i)
  BY DEF RowsInv
<1>4. Longer(rows, r, rows') /\ Len(rows) \in Nat /\ DOMAIN rows = 1..Len(rows) BY <1>3, AppendFacts, SeqFacts
<1>5. ASSUME NEW i \in DOMAIN rows' PROVE RowWorth(i, rows'[i]) /\ rows'[i].row = RowName(i)
  <2>1. CASE i \in DOMAIN rows BY <1>3, <1>4, <2>1 DEF Longer
  <2>2. CASE i = Len(rows) + 1 BY <1>4, <2>2 DEF Longer
  <2>3. i \in DOMAIN rows \/ i = Len(rows) + 1 BY <1>4 DEF Longer
  <2> QED BY <2>1, <2>2, <2>3
<1>6. IsSeq(rows)' BY <1>4 DEF Longer
<1> QED BY <1>1, <1>2, <1>5, <1>6 DEF RowsInv

LEMMA DriftGrows ==
  ASSUME DriftInv, UNCHANGED <<job, batch, walk>>, Interior(doing), NEW r, IsSeq(rows), rows' = Append(rows, r),
         r.corpus = batch, NEW q, q \notin {"options", "build", "finish"}
  PROVE  DriftAt(q)'
<1>1. (Judged' <=> Judged) /\ (Plain' <=> Plain) BY JobFixes
<1>2. /\ Longer(rows, r, rows') /\ Len(rows) \in Nat /\ DOMAIN rows = 1..Len(rows)
      /\ IsSeq(rows') /\ Len(rows') = Len(rows) + 1
  BY AppendFacts, SeqFacts DEF Longer
<1>3. rows' # <<>> /\ rows'[Len(rows')] = r BY <1>2, SeqFacts DEF Longer
<1>4. \A i \in DOMAIN rows : i \in DOMAIN rows' /\ rows'[i] = rows[i] BY <1>2 DEF Longer
<1>5. \A i \in DOMAIN rows' : i \in DOMAIN rows \/ rows'[i] = r
  <2>1. \A i \in DOMAIN rows' : i \in DOMAIN rows \/ i = Len(rows) + 1 BY <1>2 DEF Longer
  <2> QED BY <1>2, <1>3, <2>1
<1>6. walk'.drifted => job.bench \in {"gdeflate", "zstd"} /\ Judged /\ (job.mode = "blockmix" \/ \E i \in DOMAIN rows' : ~rows'[i].corpus.pinned)
  BY <1>4 DEF DriftInv, DriftAt, Interior
<1>7. Judged /\ ~walk.drifted => \A i \in DOMAIN rows' : rows'[i].corpus.pinned \/ rows'[i].corpus = batch
  <2>1. Judged /\ ~walk.drifted => \A i \in DOMAIN rows : rows[i].corpus.pinned \/ rows[i].corpus = batch
    BY DEF DriftInv, DriftAt, Interior
  <2> QED BY <1>4, <1>5, <2>1
<1> QED BY <1>1, <1>3, <1>6, <1>7 DEF DriftAt

LEMMA HostPrints ==
  ASSUME ReportInv, NEW q, doing' = q, UNCHANGED <<job, batch, walk, exit>>, UNCHANGED Bench!Rest,
         Interior(doing), Interior(q), q \in PlacesOf,
         q \notin KernelPlaces \cup ContextPlaces \cup {"build", "measured", "finish"},
         doing \notin {"untimed", "timed"},
         NEW r, rows' = Append(rows, r), RowWorth(Len(rows) + 1, r),
         r.row = RowName(Len(rows) + 1), r.corpus = batch,
         CorpusAt(q)', ProgressAt(q)', SamplesInv'
  PROVE  ReportInv'
<1>0. AskInv /\ PlaceInv /\ PointsInv /\ RowsInv /\ ExitInv /\ StreamInv /\ ContextInv /\ DriftInv
  BY DEF ReportInv
<1>2. exit = -1 BY <1>0 DEF AskInv, Interior
<1>3. walk.at \in Nat BY <1>0 DEF AskInv
<1>4. AskInv' BY <1>0, <1>3, AskStays DEF Interior
<1>5. PlaceInv' BY SamePlaces DEF PlaceInv
<1>6. CorpusInv' BY DEF CorpusInv, CorpusAt
<1>7. PointsInv' BY <1>0, PointsStay
<1>8. RowsInv' BY <1>0, <1>2, RowsGrow
<1>9. ProgressInv' BY DEF ProgressInv
<1>10. DriftInv'
  <2>1. IsSeq(rows) BY <1>0 DEF RowsInv
  <2>2. DriftAt(q)' BY <1>0, <2>1, DriftGrows DEF Interior
  <2> QED BY <2>2 DEF DriftInv, DriftAt
<1>11. ExitInv' BY <1>2, ExitStays
<1>12. StreamInv' /\ ContextInv'
  <2>2. doing' \notin TimingPlaces \cup {"create", "untimed", "timed"}
    BY DEF KernelPlaces, ContextPlaces
  <2> QED BY <1>0, <2>2, HostStays
<1>13. NumbersInv' BY DEF NumbersInv
<1> QED BY <1>4, <1>5, <1>6, <1>7, <1>8, <1>9, <1>10, <1>11, <1>12, <1>13 DEF ReportInv

LEMMA CorpusPrints ==
  ASSUME UNCHANGED <<job, batch, exit>>, NEW q, q \notin FramePlaces
  PROVE  CorpusAt(q)' <=> CorpusAt(q)
<1>1. (FrameJob' <=> FrameJob) /\ (SweepJob' <=> SweepJob) /\ \A b : Shaped(b)' <=> Shaped(b) BY JobFixes
<1>2. (Gated(batch)' <=> Gated(batch)) /\ (Bench!Decoded(batch)' <=> Bench!Decoded(batch))
      /\ (Bench!IsVerified' <=> Bench!IsVerified)
      /\ (Shaped(batch)' <=> Shaped(batch))
  BY <1>1 DEF Gated, Bench!Decoded, Bench!RoundTrips, Bench!IsVerified, Shaped, Bench!Generated
<1> QED BY <1>1, <1>2 DEF CorpusAt

\* The place in the report after n rows more.
LEMMA AtNext ==
  ASSUME UNCHANGED <<job, walk>>, job \in Asked, walk.at \in Nat, NEW n \in Nat, NEW d \in Nat, At(d),
         Len(rows') = Len(rows) + n, NEW e, e = d + n
  PROVE  At(e)'
<1>1. Unit' = Unit /\ Units' = Units BY JobFixes
<1>2. Len(Unit) \in Nat BY UnitLen
<1>3. PICK m \in Nat : m = walk.at * Len(Unit) BY <1>2, MulComm
<1> QED BY <1>1, <1>3 DEF At

LEMMA PlainNext ==
  ASSUME job' = job, Plain, NEW q, NEW d, At(d)', NEW v, v = Len(Unit), NEW g, g = GpuAt, NEW c, c = CtxAt,
         \/ q \in {"verify", "cpu_warmup", "cpu_run", "report", "count", "census"} /\ d = 0
         \/ q = "literals" /\ d = 1
         \/ q \in {"gpu"} \cup KernelPlaces /\ d = g
         \/ q \in {"context"} \cup ContextPlaces /\ d = c
         \/ q \in {"judge", "digest", "cell"} /\ d = v
  PROVE  ProgressAt(q)'
<1>1. /\ Unit' = Unit /\ GpuAt' = GpuAt /\ CtxAt' = CtxAt
      /\ (FrameJob' <=> FrameJob) /\ (SweepJob' <=> SweepJob) /\ (Plain' <=> Plain)
  BY JobFixes
<1>2. ~FrameJob /\ ~SweepJob BY DEF Plain
<1>3. CASE q \in {"verify", "cpu_warmup", "cpu_run", "report", "count", "census"} /\ d = 0
  <2>1. PlainProgress(q)' BY <1>3 DEF PlainProgress, KernelPlaces, TimingPlaces, ContextPlaces
  <2> QED BY <1>1, <1>2, <2>1 DEF ProgressAt
<1>4. CASE q = "literals" /\ d = 1
  <2>1. PlainProgress(q)' BY <1>4 DEF PlainProgress, KernelPlaces, TimingPlaces, ContextPlaces
  <2> QED BY <1>1, <1>2, <2>1 DEF ProgressAt
<1>5. CASE q \in {"gpu"} \cup KernelPlaces /\ d = g
  <2>1. At(GpuAt)' BY <1>1, <1>5 DEF At
  <2>2. PlainProgress(q)' BY <1>5, <2>1 DEF PlainProgress, KernelPlaces, TimingPlaces, ContextPlaces
  <2> QED BY <1>1, <1>2, <2>2 DEF ProgressAt
<1>6. CASE q \in {"context"} \cup ContextPlaces /\ d = c
  <2>1. At(CtxAt)' BY <1>1, <1>6 DEF At
  <2>2. PlainProgress(q)' BY <1>6, <2>1 DEF PlainProgress, KernelPlaces, TimingPlaces, ContextPlaces
  <2> QED BY <1>1, <1>2, <2>2 DEF ProgressAt
<1>7. CASE q \in {"judge", "digest", "cell"} /\ d = v
  <2>1. At(Len(Unit))' BY <1>1, <1>7 DEF At
  <2>2. PlainProgress(q)' BY <1>7, <2>1 DEF PlainProgress, KernelPlaces, TimingPlaces, ContextPlaces
  <2> QED BY <1>1, <1>2, <2>2 DEF ProgressAt
<1> QED BY <1>3, <1>4, <1>5, <1>6, <1>7

\* A row of the loop's samples.
LEMMA CpuRowInv ==
  ASSUME ReportInv, NEW next, Bench!ReportRow("report", "cpu", next),
         \/ next = "literals" /\ job.bench \in {"lz4", "snappy"}
         \/ next = "gpu" /\ job.bench = "gdeflate"
         \/ next = "cell" /\ job.bench = "zstd"
  PROVE  ReportInv'
<1> DEFINE r == [row |-> "cpu", samples |-> samples, corpus |-> batch]
<1>1. /\ doing = "report" /\ doing' = next /\ rows' = Append(rows, r) /\ samples' = <<>> /\ trip' = 0
      /\ UNCHANGED <<job, batch, walk, exit>> /\ UNCHANGED Bench!Rest
  BY DEF Bench!ReportRow, Bench!GoOn
<1>2. r.row = "cpu" /\ r.samples = samples /\ r.corpus = batch OBVIOUS
<1> HIDE DEF r
<1>3. /\ AskInv /\ PlaceInv /\ SamplesInv /\ IsSeq(rows) /\ CorpusAt("report") /\ ProgressAt("report")
  BY <1>1 DEF ReportInv, RowsInv, CorpusInv, ProgressInv
<1>4. job \in Asked /\ Plain /\ next \in PlacesOf
  BY <1>1, <1>3, CpuNext DEF CpuPlaces
<1>5. Interior(doing) /\ Interior(next) BY <1>1 DEF Interior
<1>6. ~(job.bench = "gdeflate" /\ job.mode = "blockmix") /\ ~(job.bench = "zstd" /\ Bench!Counted)
  BY <1>1, <1>3, <1>5, Where DEF Interior
<1>7. Gated(batch) /\ Shaped(batch) /\ At(0) /\ Len(samples) = job.runs /\ Decodes /\ walk.at \in Nat
  BY <1>1, <1>3, <1>4 DEF CorpusAt, ProgressAt, PlainProgress, SamplesInv, Plain, AskInv
<1>8. RowWorth(Len(rows) + 1, r)
  BY <1>2, <1>7 DEF RowWorth, Decodes, Bench!OneRun, Bench!OnDevice
<1>9. /\ Len(Unit) \in Nat \ {0} /\ Unit[1] = "cpu" /\ GpuAt \in Nat
      /\ job.bench = "gdeflate" => GpuAt = 1
      /\ job.bench = "zstd" => Len(Unit) = 1
  BY <1>4, <1>6, UnitLen, StreamRows, OtherRows, AskedFacts DEF GpuAt, Bench!Counted
<1>10. r.row = RowName(Len(rows) + 1)
  <2>1. 0 + 1 <= Len(Unit) BY <1>9
  <2>2. RowName(Len(rows) + 1) = Unit[0 + 1] BY <1>4, <1>7, <2>1, NextRowName
  <2> QED BY <1>2, <1>9, <2>2
<1>11. Longer(rows, r, rows') /\ Len(rows') = Len(rows) + 1 BY <1>1, <1>3, AppendFacts DEF Longer
<1>12. At(1)' BY <1>1, <1>4, <1>7, <1>11, AtNext
<1>13. ProgressAt(next)'
  BY <1>1, <1>4, <1>9, <1>12, PlainNext
<1>14. CorpusAt(next)'
  <2>1. CorpusAt(next) BY <1>3 DEF CorpusAt, FramePlaces, KernelPlaces, ContextPlaces, TimingPlaces
  <2>2. next \notin FramePlaces BY DEF FramePlaces
  <2> QED BY <1>1, <2>1, <2>2, CorpusPrints
<1>15. SamplesInv' BY <1>1, EmptyIs DEF SamplesInv, Between, TimedPlaces
<1>16. next \notin KernelPlaces \cup ContextPlaces \cup {"build", "measured", "finish"}
  BY DEF KernelPlaces, TimingPlaces, ContextPlaces
<1> QED BY <1>1, <1>2, <1>4, <1>5, <1>8, <1>10, <1>13, <1>14, <1>15, <1>16, HostPrints

LEMMA FrameRowInv ==
  ASSUME ReportInv, Bench!ReportRow("frame_report", "frame", "rung") PROVE ReportInv'
<1> DEFINE r == [row |-> "frame", samples |-> samples, corpus |-> batch]
<1>1. /\ doing = "frame_report" /\ doing' = "rung" /\ rows' = Append(rows, r) /\ samples' = <<>> /\ trip' = 0
      /\ UNCHANGED <<job, batch, walk, exit>> /\ UNCHANGED Bench!Rest
  BY DEF Bench!ReportRow, Bench!GoOn
<1>2. r.row = "frame" /\ r.samples = samples /\ r.corpus = batch OBVIOUS
<1> HIDE DEF r
<1>3. /\ AskInv /\ PlaceInv /\ SamplesInv /\ IsSeq(rows) /\ CorpusAt("frame_report") /\ ProgressAt("frame_report")
  BY <1>1 DEF ReportInv, RowsInv, CorpusInv, ProgressInv
<1>5. Interior(doing) /\ Interior("rung") BY <1>1 DEF Interior
<1>4. job \in Asked /\ FrameJob /\ "rung" \in PlacesOf
  <2>1. FrameJob /\ job \in Asked BY <1>1, <1>3, <1>5, Where DEF FramePlaces, Interior
  <2> QED BY <2>1, PlacesAre
<1>7. batch \in Batches /\ Shaped(batch) /\ Bench!Rung.decodes = "same" /\ Len(rows) < Bench!Rungs
      /\ Len(samples) = job.runs /\ Decodes
  BY <1>1, <1>3, <1>4 DEF CorpusAt, ProgressAt, FrameProgress, SamplesInv, FramePlaces
<1>8. RowWorth(Len(rows) + 1, r)
  BY <1>2, <1>7 DEF RowWorth, Decodes, Bench!OneRun, Bench!OnDevice, Bench!Rung
<1>10. r.row = RowName(Len(rows) + 1) BY <1>2, <1>4 DEF RowName
<1>11. Longer(rows, r, rows') /\ Len(rows') = Len(rows) + 1 BY <1>1, <1>3, AppendFacts DEF Longer
<1>13. ProgressAt("rung")'
  <2>1. Bench!Rungs' = Bench!Rungs /\ Bench!Rungs \in Nat BY <1>1, <1>7, RungsAre DEF Bench!Rungs
  <2>2. Len(rows) \in Nat BY <1>3, SeqFacts
  <2>3. Len(rows') <= Bench!Rungs' BY <1>7, <1>11, <2>1, <2>2
  <2>4. FrameProgress("rung")' BY <2>3 DEF FrameProgress, FramePlaces
  <2>5. (FrameJob' <=> FrameJob) /\ (SweepJob' <=> SweepJob) /\ (Plain' <=> Plain) BY <1>1, JobFixes
  <2>6. ~SweepJob /\ ~Plain BY <1>4 DEF FrameJob, SweepJob, Plain
  <2> QED BY <2>4, <2>5, <2>6 DEF ProgressAt
<1>14. CorpusAt("rung")'
  <2>1. CorpusAt("rung") BY <1>3, <1>4 DEF CorpusAt, FramePlaces, KernelPlaces, ContextPlaces, TimingPlaces
  <2>2. "rung" \notin FramePlaces BY DEF FramePlaces
  <2> QED BY <1>1, <2>1, <2>2, CorpusPrints
<1>15. SamplesInv' BY <1>1, EmptyIs DEF SamplesInv, Between, TimedPlaces
<1>16. "rung" \notin KernelPlaces \cup ContextPlaces \cup {"build", "measured", "finish"}
  BY DEF KernelPlaces, TimingPlaces, ContextPlaces
<1> QED BY <1>1, <1>2, <1>4, <1>5, <1>8, <1>10, <1>13, <1>14, <1>15, <1>16, HostPrints

-----------------------------------------------------------------------------
(* Exits.                                                                  *)

Short == /\ Len(rows) \in Nat /\ WantedLen \in Nat /\ Len(rows) <= WantedLen
         /\ Len(rows) # WantedLen \/ WantedLen = 0
LEMMA ShortOfWanted ==
  ASSUME job \in Asked, Plain, NEW d \in Nat, At(d), d < Len(Unit), walk.at \in Nat
  PROVE  Short
<1>1. Units \in Nat \ {0} /\ Len(Unit) \in Nat \ {0} BY UnitsNat, UnitLen
<1>2. PICK n \in Nat \ {0}, u \in Nat \ {0}, a \in Nat : n = Len(Unit) /\ u = Units /\ a = walk.at
  BY <1>1
<1>3. a < u /\ Len(rows) = a * n + d BY <1>2 DEF At
<1>4. n * a + d < n * u BY <1>2, <1>3, InRow
<1>5. n * a = a * n /\ n * u = u * n /\ a * n \in Nat BY <1>2, MulComm
<1>6. WantedLen = u * n BY <1>2 DEF WantedLen, Plain
<1>7. PICK l \in Nat, z \in Nat : l = Len(rows) /\ z = WantedLen /\ l < z BY <1>3, <1>4, <1>5, <1>6
<1> QED BY <1>7 DEF Short

LEMMA WantedStays ==
  ASSUME UNCHANGED <<job, walk>>, batch' = batch \/ ~FrameJob PROVE WantedLen' = WantedLen
<1>1. /\ Unit' = Unit /\ Units' = Units /\ (FrameJob' <=> FrameJob) /\ (SweepJob' <=> SweepJob) BY JobFixes
<1>2. batch' = batch => Bench!Rungs' = Bench!Rungs BY DEF Bench!Rungs
<1>3. CASE FrameJob BY <1>1, <1>2, <1>3 DEF WantedLen
<1>4. CASE ~FrameJob BY <1>1, <1>4 DEF WantedLen
<1> QED BY <1>3, <1>4

LEMMA ExitsShort ==
  ASSUME UNCHANGED <<job, walk, rows>>, batch' = batch \/ ~FrameJob, exit' = 1, Short
  PROVE  ExitInv'
<1>1. WantedLen' = WantedLen BY WantedStays
<1>2. Len(rows') <= WantedLen' /\ (Len(rows') # WantedLen' \/ WantedLen' = 0) BY <1>1 DEF Short
<1> QED BY <1>2 DEF ExitInv

LEMMA HostLeaves ==
  ASSUME ReportInv, Interior(doing), doing \notin {"untimed", "timed"}, doing' = "exited", exit' \in {0, 1},
         UNCHANGED <<job, rows, trip, samples>>, UNCHANGED Bench!Rest,
         DOMAIN walk' = DOMAIN walk, walk'.at \in Nat, walk'.points = walk.points, walk'.drifted = walk.drifted,
         FrameJob => batch' \in Batches, ExitInv'
  PROVE  ReportInv'
<1>0. AskInv /\ PlaceInv /\ PointsInv /\ RowsInv /\ StreamInv /\ ContextInv /\ DriftInv /\ SamplesInv
  BY DEF ReportInv
<1>1. exit = -1 BY <1>0 DEF AskInv, Interior
<1>2. AskInv'
  <2>1. exit # 2 /\ exit' # -1 BY <1>1
  <2>2. doing \notin {"idle", "options", "exited"} BY DEF Interior
  <2> QED BY <1>0, <2>1, <2>2 DEF AskInv
<1>3. PlaceInv' BY DEF PlaceInv
<1>4. CorpusInv'
  <2>1. FrameJob' <=> FrameJob BY JobFixes
  <2> QED BY <2>1 DEF CorpusInv, CorpusAt, FramePlaces, KernelPlaces, ContextPlaces, TimingPlaces
<1>5. PointsInv'
  <2>1. SweepJob' <=> SweepJob BY JobFixes
  <2>2. \A q : Fits(q)' <=> Fits(q) BY DEF Fits, Grid!BlockThreads
  <2> QED BY <1>0, <2>1, <2>2 DEF PointsInv, KernelPlaces, TimingPlaces
<1>6. SamplesInv' BY <1>0 DEF SamplesInv, Between, TimedPlaces
<1>7. StreamInv' /\ ContextInv'
  <2>1. doing' \notin TimingPlaces \cup {"create", "untimed", "timed"} BY DEF TimingPlaces
  <2> QED BY <1>0, <2>1, HostStays
<1>8. NumbersInv' BY DEF NumbersInv, KernelPlaces, ContextPlaces, TimingPlaces
<1>9. RowsInv' BY <1>0, <1>1, RowsStay
<1>10. ProgressInv'
  BY DEF ProgressInv, ProgressAt, PlainProgress, SweepProgress, FrameProgress, KernelPlaces,
         ContextPlaces, TimingPlaces, FramePlaces
<1>11. DriftInv'
  <2>1. Judged' <=> Judged BY JobFixes
  <2>2. walk.drifted => job.bench \in {"gdeflate", "zstd"} /\ Judged /\ (job.mode = "blockmix" \/ \E i \in DOMAIN rows : ~rows[i].corpus.pinned)
    BY <1>0 DEF DriftInv, DriftAt, Interior
  <2> QED BY <2>1, <2>2 DEF DriftInv, DriftAt, Printed, KernelPlaces, ContextPlaces, TimingPlaces
<1> QED BY <1>2, <1>3, <1>4, <1>5, <1>6, <1>7, <1>8, <1>9, <1>10, <1>11 DEF ReportInv

LEMMA HostExits ==
  ASSUME ReportInv, Interior(doing), doing \notin {"untimed", "timed"}, doing' = "exited", exit' \in {0, 1},
         UNCHANGED <<job, walk, rows, trip, samples>>, UNCHANGED Bench!Rest,
         FrameJob => batch' \in Batches, ExitInv'
  PROVE  ReportInv'
<1>1. walk.at \in Nat BY DEF ReportInv, AskInv
<1> QED BY <1>1, HostLeaves

\* A main gives up before its last row.
LEMMA HostFails ==
  ASSUME ReportInv, Interior(doing), doing \notin {"untimed", "timed", "build"}, doing' = "exited", exit' = 1,
         UNCHANGED <<job, batch, walk, rows, trip, samples>>, UNCHANGED Bench!Rest,
         Short
  PROVE  ReportInv'
<1>1. ExitInv' BY ExitsShort
<1>2. FrameJob => batch' \in Batches BY DEF ReportInv, CorpusInv, CorpusAt, Interior
<1> QED BY <1>1, <1>2, HostExits

LEMMA WantedNat ==
  ASSUME job \in Asked, PointsInv, FrameJob => batch \in Batches PROVE WantedLen \in Nat
<1>1. CASE FrameJob BY <1>1, RungsAre DEF WantedLen, Bench!Rungs
<1>2. CASE ~FrameJob /\ SweepJob BY <1>2, SeqFacts DEF WantedLen, PointsInv
<1>3. CASE ~FrameJob /\ ~SweepJob
  <2>1. Units \in Nat \ {0} /\ Len(Unit) \in Nat \ {0} BY UnitsNat, UnitLen
  <2>2. Units * Len(Unit) \in Nat BY <2>1, MulComm
  <2> QED BY <1>3, <2>2 DEF WantedLen
<1> QED BY <1>1, <1>2, <1>3

\* At these places rows are missing.
LEMMA RowsMissing ==
  ASSUME ReportInv, Interior(doing), 
         doing \notin {"build", "literals", "gpu", "context", "finish", "judge", "digest", "cell", "rung", "measured"}
  PROVE  Short
<1>1. /\ AskInv /\ PlaceInv /\ PointsInv /\ IsSeq(rows) /\ ProgressAt(doing) /\ CorpusAt(doing)
  BY DEF ReportInv, RowsInv, ProgressInv, CorpusInv
<1>2. job \in Asked /\ doing \in PlacesOf BY <1>1, Where DEF Interior, PlaceInv
<1>3. Len(rows) \in Nat /\ walk.at \in Nat /\ Len(<<>>) = 0 BY <1>1, SeqFacts DEF AskInv
<1>4. CASE FrameJob
  <2>1. doing \in FramePlaces \cup {"failed"}
    BY <1>1, <1>2, <1>4, Where DEF Interior, PlacesOf, FramePlaces
  <2>2. Len(rows) < Bench!Rungs BY <1>1, <1>4, <2>1 DEF ProgressAt, FrameProgress
  <2>3. batch \in Batches BY <1>1, <2>1 DEF CorpusAt, FramePlaces
  <2>4. WantedLen = Bench!Rungs /\ WantedLen \in Nat BY <1>4, <2>3, RungsAre DEF WantedLen, Bench!Rungs
  <2> QED BY <1>3, <2>2, <2>4 DEF Short
<1>5. CASE SweepJob
  <2>1. doing \in {"residency", "failed"} \cup KernelPlaces
    BY <1>1, <1>2, <1>5, Where DEF Interior, PlacesOf, FrameJob, SweepJob
  <2>2. rows = <<>> BY <1>1, <1>5, <2>1 DEF ProgressAt, SweepProgress
  <2>3. ~FrameJob BY <1>5 DEF FrameJob, SweepJob
  <2>4. WantedLen = Len(walk.points) /\ WantedLen \in Nat BY <1>1, <1>5, <2>3, SeqFacts DEF WantedLen, PointsInv
  <2> QED BY <1>3, <2>2, <2>4 DEF Short
<1>6. CASE Plain
  <2>1. PlainProgress(doing) BY <1>1, <1>6 DEF ProgressAt
  <2>2. CASE doing = "failed"
    <3>1. Len(rows) < Units * Len(Unit) BY <2>1, <2>2 DEF PlainProgress
    <3>2. WantedLen = Units * Len(Unit) BY <1>6 DEF WantedLen, Plain
    <3>3. WantedLen \in Nat BY <1>1, <1>2, <1>6, WantedNat DEF Plain
    <3> QED BY <1>3, <3>1, <3>2, <3>3 DEF Short
  <2>3. Len(Unit) \in Nat \ {0} /\ GpuAt \in Nat /\ CtxAt \in Nat BY <1>2, UnitLen
  <2>4. CASE doing \in {"verify", "cpu_warmup", "cpu_run", "report", "count", "census"}
    <3>1. At(0) BY <2>1, <2>4 DEF PlainProgress
    <3> QED BY <1>2, <1>3, <1>6, <2>3, <3>1, ShortOfWanted
  <2>5. CASE doing \in KernelPlaces
    <3>1. At(GpuAt) BY <2>1, <2>5 DEF PlainProgress
    <3>2. job.gpu /\ job.bench # "zstd" /\ ~(job.bench = "gdeflate" /\ job.mode = "blockmix")
      BY <1>1, <1>6, <2>5, Where DEF Interior, Plain
    <3>3. GpuAt < Len(Unit) BY <1>2, <2>3, <3>2, StreamRows, OtherRows, AskedFacts DEF CtxAt, GpuAt
    <3> QED BY <1>2, <1>3, <1>6, <2>3, <3>1, <3>3, ShortOfWanted
  <2>6. CASE doing \in ContextPlaces
    <3>1. At(CtxAt) BY <2>1, <2>6 DEF PlainProgress
    <3>2. job.bench = "lz4" /\ job.context BY <1>1, <2>6, Where DEF Interior
    <3>3. CtxAt < Len(Unit) BY <1>2, <2>3, <3>2, StreamRows
    <3> QED BY <1>2, <1>3, <1>6, <2>3, <3>1, <3>3, ShortOfWanted
  <2>7. \/ doing = "failed" \/ doing \in {"verify", "cpu_warmup", "cpu_run", "report", "count", "census"}
        \/ doing \in KernelPlaces \/ doing \in ContextPlaces
    <3>1. ~FrameJob /\ ~SweepJob BY <1>6 DEF Plain
    <3>2. doing \notin FramePlaces \cup {"rung", "residency"} BY <1>1, <3>1, Where DEF Interior
    <3> QED BY <1>2, <3>2 DEF PlacesOf, FramePlaces
  <2> QED BY <2>2, <2>4, <2>5, <2>6, <2>7
<1> QED BY <1>4, <1>5, <1>6 DEF Plain

LEMMA FailedInv == ASSUME ReportInv, Bench!Failed PROVE ReportInv'
<1>1. /\ doing = "failed" /\ doing' = "exited" /\ exit' = 1
      /\ UNCHANGED <<job, batch, walk, rows, trip, samples>> /\ UNCHANGED Bench!Rest
  BY DEF Bench!Failed, Bench!Exit, Bench!Quiet
<1>2. Interior(doing) BY <1>1 DEF Interior
<1>3. Short BY <1>1, <1>2, RowsMissing DEF KernelPlaces
<1> QED BY <1>1, <1>2, <1>3, HostFails

\* Between two places of the host nothing is measured.
LEMMA HostQuiet ==
  ASSUME ReportInv, NEW q, doing' = q, Quietly, Interior(doing), Interior(q), doing \in Between,
         UNCHANGED <<trip, samples>>, UNCHANGED Bench!Rest,
         q \in PlacesOf, CorpusAt(q), ProgressAt(q), DriftAt(q), q # "measured",
         q \notin {"create", "untimed", "timed", "median", "context_median", "report", "frame_report"},
         q \notin TimingPlaces,
         SweepJob /\ q \in KernelPlaces \cup {"measured", "finish"} =>
           doing \in KernelPlaces \cup {"measured", "finish"},
         NumbersInv'
  PROVE  ReportInv'
<1>1. SamplesInv /\ StreamInv /\ ContextInv /\ AskInv BY DEF ReportInv
<1>2. samples = <<>> /\ trip = 0 BY <1>1 DEF SamplesInv
<1>3. job \in Asked /\ job' = job
  BY <1>1 DEF Quietly, AskInv, Interior
<1>4. job.runs \in Nat \ {0} BY <1>3, AskedFacts
<1>5. SamplesInv'
  <2>1. samples' = <<>> /\ trip' = 0 /\ Len(samples') = 0 /\ 0 < job.runs /\ Decodes' BY <1>2, <1>4, EmptyIs DEF Decodes
  <2> QED BY <1>1, <1>3, <2>1, EmptyIs DEF SamplesInv, TimedPlaces, TimingPlaces
<1>6. StreamInv' /\ ContextInv'
  <2>1. doing \notin {"untimed", "timed"} BY DEF Between
  <2> QED BY <1>1, <2>1, HostStays
<1> QED BY <1>5, <1>6, HostMoves

LEMMA VerifyInv == ASSUME ReportInv, Bench!Verify PROVE ReportInv'
<1>1. /\ doing = "verify" /\ UNCHANGED <<trip, samples, numbers, todo>> /\ UNCHANGED Bench!Rest
      /\ UNCHANGED <<job, batch, walk, rows>>
      /\ \/ Bench!Verified /\ doing' = "cpu_warmup" /\ exit' = exit
         \/ ~Bench!Verified /\ doing' = "exited" /\ exit' = 1
  BY DEF Bench!Verify, Bench!ExitUnless, Bench!GoOn, Bench!Exit, Bench!Quiet
<1>2. Interior(doing) /\ Interior("cpu_warmup") /\ doing \in Between BY <1>1 DEF Interior, Between
<1>3. AskInv /\ PlaceInv /\ CorpusAt("verify") /\ ProgressAt("verify") /\ DriftAt("verify")
  BY <1>1 DEF ReportInv, CorpusInv, ProgressInv, DriftInv
<1>4. job \in Asked /\ job.bench = "lz4" /\ ~job.frame BY <1>1, <1>2, <1>3, Where DEF Interior
<1>5. ~FrameJob /\ ~SweepJob /\ Plain BY <1>4 DEF FrameJob, SweepJob, Plain
<1>6. CASE ~Bench!Verified
  <2>1. Short BY <1>1, <1>2, RowsMissing DEF KernelPlaces
  <2> QED BY <1>1, <1>2, <1>6, <2>1, HostFails
<1>7. CASE Bench!Verified
  <2>1. doing' = "cpu_warmup" /\ Quietly BY <1>1, <1>7 DEF Quietly
  <2>2. "cpu_warmup" \in PlacesOf BY <1>4, PlacesAre DEF CpuPlaces
  <2>3. CorpusAt("cpu_warmup")
    BY <1>3, <1>7 DEF CorpusAt, Gated, Bench!Verified, FramePlaces, KernelPlaces, ContextPlaces, TimingPlaces
  <2>4. ProgressAt("cpu_warmup")
    BY <1>3, <1>5 DEF ProgressAt, PlainProgress, KernelPlaces, ContextPlaces, TimingPlaces
  <2>5. DriftAt("cpu_warmup") BY <1>3 DEF DriftAt, Printed, KernelPlaces, ContextPlaces, TimingPlaces
  <2>6. "cpu_warmup" \notin TimingPlaces \cup KernelPlaces \cup ContextPlaces
    BY DEF KernelPlaces, ContextPlaces, TimingPlaces
  <2>7. NumbersInv' BY <2>1, <2>6 DEF NumbersInv
  <2> QED BY <1>1, <1>2, <1>5, <2>1, <2>2, <2>3, <2>4, <2>5, <2>6, <2>7, HostQuiet
<1> QED BY <1>6, <1>7

LEMMA FrameVerifyInv == ASSUME ReportInv, Bench!FrameVerify PROVE ReportInv'
<1>1. /\ doing = "frame_verify" /\ UNCHANGED <<trip, samples, numbers, todo>> /\ UNCHANGED Bench!Rest
      /\ UNCHANGED <<job, batch, walk, rows>>
      /\ \/ Bench!Rung.decodes = "same" /\ doing' = "frame_warmup" /\ exit' = exit
         \/ Bench!Rung.decodes # "same" /\ doing' = "exited" /\ exit' = 1
  BY DEF Bench!FrameVerify, Bench!ExitUnless, Bench!GoOn, Bench!Exit, Bench!Quiet
<1>2. Interior(doing) /\ Interior("frame_warmup") /\ doing \in Between BY <1>1 DEF Interior, Between
<1>3. AskInv /\ PlaceInv /\ CorpusAt("frame_verify") /\ ProgressAt("frame_verify") /\ DriftAt("frame_verify")
  BY <1>1 DEF ReportInv, CorpusInv, ProgressInv, DriftInv
<1>4. job \in Asked /\ FrameJob BY <1>1, <1>2, <1>3, Where DEF Interior, FramePlaces
<1>5. ~SweepJob /\ ~Plain BY <1>4 DEF FrameJob, SweepJob, Plain
<1>6. CASE Bench!Rung.decodes # "same"
  <2>1. Short BY <1>1, <1>2, RowsMissing DEF KernelPlaces
  <2> QED BY <1>1, <1>2, <1>6, <2>1, HostFails
<1>7. CASE Bench!Rung.decodes = "same"
  <2>1. doing' = "frame_warmup" /\ Quietly BY <1>1, <1>7 DEF Quietly
  <2>2. "frame_warmup" \in PlacesOf BY <1>4, PlacesAre DEF FramePlaces
  <2>3. CorpusAt("frame_warmup")
    BY <1>3, <1>4, <1>7 DEF CorpusAt, FramePlaces, KernelPlaces, ContextPlaces, TimingPlaces
  <2>4. ProgressAt("frame_warmup") BY <1>3, <1>4, <1>5 DEF ProgressAt, FrameProgress, FramePlaces
  <2>5. DriftAt("frame_warmup") BY <1>3 DEF DriftAt, Printed, KernelPlaces, ContextPlaces, TimingPlaces
  <2>6. "frame_warmup" \notin TimingPlaces \cup KernelPlaces \cup ContextPlaces
    BY DEF KernelPlaces, ContextPlaces, TimingPlaces
  <2>7. NumbersInv' BY <2>1, <2>6 DEF NumbersInv
  <2> QED BY <1>1, <1>2, <1>5, <2>1, <2>2, <2>3, <2>4, <2>5, <2>6, <2>7, HostQuiet
<1> QED BY <1>6, <1>7

LEMMA NextRungInv == ASSUME ReportInv, Bench!NextRung PROVE ReportInv'
<1>1. /\ doing = "rung" /\ UNCHANGED <<trip, samples, numbers, todo>> /\ UNCHANGED Bench!Rest
      /\ UNCHANGED <<job, batch, walk, rows>>
      /\ \/ Len(rows) = Bench!Rungs /\ doing' = "finish" /\ exit' = exit
         \/ Len(rows) # Bench!Rungs /\ doing' = "frame_verify" /\ exit' = exit
         \/ Len(rows) # Bench!Rungs /\ doing' = "exited" /\ exit' = 1
  BY DEF Bench!NextRung, Bench!ExitUnless, Bench!GoOn, Bench!Exit, Bench!Quiet
<1>2. Interior(doing) /\ Interior("frame_verify") /\ Interior("finish") /\ doing \in Between
  BY <1>1 DEF Interior, Between
<1>3. AskInv /\ PlaceInv /\ CorpusAt("rung") /\ ProgressAt("rung") /\ DriftAt("rung") /\ IsSeq(rows)
  BY <1>1 DEF ReportInv, CorpusInv, ProgressInv, DriftInv, RowsInv
<1>4. job \in Asked /\ FrameJob BY <1>1, <1>2, <1>3, Where DEF Interior
<1>5. ~SweepJob /\ ~Plain /\ ~Judged BY <1>4 DEF FrameJob, SweepJob, Plain, Judged
<1>6. /\ batch \in Batches /\ Bench!Rungs \in Nat /\ Len(rows) \in Nat /\ Len(rows) <= Bench!Rungs
  BY <1>3, <1>4, SeqFacts, RungsAre DEF CorpusAt, ProgressAt, FrameProgress, Bench!Rungs
<1>7. CASE doing' = "exited"
  <2>1. Len(rows) # Bench!Rungs BY <1>1, <1>7
  <2>2. Short BY <1>4, <1>6, <2>1 DEF Short, WantedLen
  <2> QED BY <1>1, <1>2, <1>7, <2>2, HostFails
<1>8. CASE doing' \in {"finish", "frame_verify"}
  <2>1. PICK q \in {"finish", "frame_verify"} : q = doing' BY <1>8
  <2>2. Quietly BY <1>1, <1>8 DEF Quietly
  <2>3. q \in PlacesOf BY <1>4, PlacesAre DEF FramePlaces
  <2>4. CorpusAt(q) BY <1>3, <1>4 DEF CorpusAt, FramePlaces, KernelPlaces, ContextPlaces, TimingPlaces
  <2>5. FrameProgress(q)
    <3>1. CASE q = "finish"
      <4>1. Len(rows) = Bench!Rungs BY <1>1, <2>1, <3>1
      <4> QED BY <3>1, <4>1 DEF FrameProgress, FramePlaces
    <3>2. CASE q = "frame_verify"
      <4>1. Len(rows) # Bench!Rungs BY <1>1, <2>1, <3>2
      <4>2. Len(rows) < Bench!Rungs BY <1>6, <4>1
      <4> QED BY <3>2, <4>2 DEF FrameProgress
    <3> QED BY <3>1, <3>2
  <2>6. ProgressAt(q) BY <1>4, <1>5, <2>5 DEF ProgressAt
  <2>7. DriftAt(q) BY <1>3, <1>5 DEF DriftAt, Printed, KernelPlaces, ContextPlaces, TimingPlaces
  <2>8. q \notin TimingPlaces \cup KernelPlaces \cup ContextPlaces /\ q # "measured" /\ Interior(q)
        /\ q \notin {"create", "untimed", "timed", "median", "context_median", "report", "frame_report"}
    BY DEF KernelPlaces, ContextPlaces, TimingPlaces, Interior
  <2>9. NumbersInv' BY <2>1, <2>8 DEF NumbersInv
  <2> QED BY <1>1, <1>2, <1>5, <2>1, <2>2, <2>3, <2>4, <2>6, <2>7, <2>8, <2>9, HostQuiet
<1> QED BY <1>1, <1>7, <1>8

LEMMA FinishInv ==
  ASSUME ReportInv, doing = "finish", doing' = "exited", NEW code \in {0, 1}, exit' = code,
         UNCHANGED <<job, batch, walk, rows, trip, samples>>, UNCHANGED Bench!Rest,
         code = 0 => ~walk.drifted /\ Alive,
         code = 1 => walk.drifted \/ ~Alive
  PROVE  ReportInv'
<1>1. /\ AskInv /\ PlaceInv /\ PointsInv /\ IsSeq(rows) /\ CorpusAt("finish") /\ ProgressAt("finish")
      /\ DriftAt("finish")
  BY DEF ReportInv, RowsInv, CorpusInv, ProgressInv, DriftInv
<1>2. Interior(doing) BY DEF Interior
<1>3. job \in Asked /\ batch \in Batches BY <1>1, <1>2 DEF AskInv, CorpusAt, Interior
<1>4. Len(rows) = WantedLen /\ WantedLen \in Nat \ {0}
  <2>1. CASE FrameJob
    <3>1. Len(rows) = Bench!Rungs BY <1>1, <2>1 DEF ProgressAt, FrameProgress
    <3> QED BY <1>3, <2>1, <3>1, RungsAre DEF WantedLen, Bench!Rungs
  <2>2. CASE SweepJob
    <3>1. ~FrameJob BY <2>2 DEF FrameJob, SweepJob
    <3>2. Len(rows) = Len(walk.points) BY <1>1, <2>2 DEF ProgressAt, SweepProgress
    <3>3. walk.points # <<>> /\ IsSeq(walk.points) BY <1>1, <2>2 DEF PointsInv
    <3> QED BY <2>2, <3>1, <3>2, <3>3, SeqFacts DEF WantedLen
  <2>3. CASE Plain
    <3>1. Len(rows) = Units * Len(Unit) BY <1>1, <2>3 DEF ProgressAt, PlainProgress
    <3>2. WantedLen = Units * Len(Unit) BY <2>3 DEF WantedLen, Plain
    <3>3. Units \in Nat \ {0} /\ Len(Unit) \in Nat \ {0} BY <1>3, UnitsNat, UnitLen
    <3>4. PICK u \in Nat \ {0}, n \in Nat \ {0} : u = Units /\ n = Len(Unit) BY <3>3
    <3>5. n * 0 + 0 < n * u BY InRow
    <3>6. n * 0 = 0 /\ n * u = u * n /\ u * n \in Nat BY MulComm
    <3> QED BY <3>1, <3>2, <3>4, <3>5, <3>6
  <2> QED BY <2>1, <2>2, <2>3 DEF Plain
<1>5. WantedLen' = WantedLen BY WantedStays
<1>6. (Pinned' <=> Pinned) /\ (Alive' <=> Alive)
  <2>1. Judged' <=> Judged BY JobFixes
  <2> QED BY <2>1 DEF Pinned, Alive, Bench!Guards
<1>7. code = 0 => Pinned BY <1>1 DEF DriftAt, Pinned
<1>8. code = 1 => ~Pinned \/ ~Alive \/ job.mode = "blockmix" BY <1>1 DEF DriftAt, Pinned
<1>9. ExitInv'
  <2>1. Len(rows') = WantedLen' /\ WantedLen' # 0 /\ Len(rows') <= WantedLen' BY <1>4, <1>5
  <2>2. CASE code = 0 BY <1>6, <1>7, <2>1, <2>2 DEF ExitInv
  <2>3. CASE code = 1 BY <1>6, <1>8, <2>1, <2>3 DEF ExitInv
  <2> QED BY <2>2, <2>3
<1> QED BY <1>2, <1>3, <1>9, HostExits

LEMMA FinishesInv ==
  ASSUME ReportInv, Bench!Finish \/ Bench!SnappyFinish \/ Bench!ZstdFinish \/ Bench!GDeflateFinish
  PROVE  ReportInv'
<1>1. /\ doing = "finish" /\ doing' = "exited"
      /\ UNCHANGED <<job, batch, walk, rows, trip, samples>> /\ UNCHANGED Bench!Rest
  BY DEF Bench!Finish, Bench!SnappyFinish, Bench!ZstdFinish, Bench!GDeflateFinish, Bench!Exit, Bench!Quiet
<1>2. DriftAt("finish") BY <1>1 DEF ReportInv, DriftInv
<1>3. CASE Bench!Finish \/ Bench!SnappyFinish
  <2>1. job.bench \in {"lz4", "snappy"} /\ exit' = 0
    BY <1>3 DEF Bench!Finish, Bench!SnappyFinish, Bench!Exit
  <2>2. ~walk.drifted /\ Alive BY <1>2, <2>1 DEF DriftAt, Alive
  <2> QED BY <1>1, <2>1, <2>2, FinishInv
<1>4. CASE Bench!ZstdFinish
  <2>1. job.bench = "zstd" /\ exit' = IF walk.drifted \/ (Bench!Guards /\ ~batch.guards_bite) THEN 1 ELSE 0
    BY <1>4 DEF Bench!ZstdFinish, Bench!Exit
  <2>2. Alive <=> ~(Bench!Guards /\ ~batch.guards_bite) BY <2>1 DEF Alive
  <2> QED BY <1>1, <2>1, <2>2, FinishInv
<1>5. CASE Bench!GDeflateFinish
  <2>1. job.bench = "gdeflate" /\ exit' = IF walk.drifted THEN 1 ELSE 0
    BY <1>5 DEF Bench!GDeflateFinish, Bench!Exit
  <2>2. Alive BY <2>1 DEF Alive
  <2> QED BY <1>1, <2>1, <2>2, FinishInv
<1> QED BY <1>3, <1>4, <1>5

LEMMA LiteralRowInv ==
  ASSUME ReportInv, Bench!LiteralRow PROVE ReportInv'
<1>1. /\ doing = "literals" /\ UNCHANGED <<job, batch, walk, trip, samples, todo, numbers>>
      /\ UNCHANGED Bench!Rest
  BY DEF Bench!LiteralRow
<1>2. Interior(doing) /\ Interior("gpu") /\ doing \in Between BY <1>1 DEF Interior, Between
<1>3. /\ AskInv /\ PlaceInv /\ CorpusAt("literals") /\ ProgressAt("literals") /\ DriftAt("literals")
      /\ IsSeq(rows) /\ SamplesInv
  BY <1>1 DEF ReportInv, CorpusInv, ProgressInv, DriftInv, RowsInv
<1>4. job \in Asked /\ job.bench \in {"lz4", "snappy"} /\ Plain
  BY <1>1, <1>2, <1>3, Where DEF Interior
<1>5. At(1) /\ walk.at \in Nat BY <1>3, <1>4 DEF ProgressAt, PlainProgress, AskInv
<1>6. Gated(batch) /\ Shaped(batch) /\ batch \in Batches
  BY <1>3, <1>4 DEF CorpusAt, Plain
<1>7. /\ Len(Unit) \in Nat /\ GpuAt \in Nat /\ (job.literals => GpuAt = 2 /\ 2 <= Len(Unit) /\ Unit[2] = "literals")
      /\ (~job.literals => GpuAt = 1)
  <2>1. IsSeq(Unit) /\ Len(Unit) \in Nat \ {0} BY <1>4, UnitLen
  <2>2. Len(Unit) = CtxAt + (IF job.bench = "lz4" /\ job.context THEN 4 ELSE 0) /\ (job.literals => Unit[2] = "literals")
    BY <1>4, StreamRows
  <2> QED BY <1>4, <2>1, <2>2 DEF GpuAt, CtxAt, LitAt
<1>8. "gpu" \in PlacesOf BY <1>4, PlacesAre DEF Plain, FrameJob
<1>9. "gpu" \notin KernelPlaces \cup ContextPlaces \cup TimingPlaces
  BY DEF KernelPlaces, ContextPlaces, TimingPlaces
<1>10. CorpusAt("gpu") BY <1>3 DEF CorpusAt, FramePlaces, KernelPlaces, ContextPlaces, TimingPlaces
<1>11. CASE job.literals /\ ~Bench!Decoded(batch)
  <2>1. doing' = "exited" /\ exit' = 1 /\ rows' = rows BY <1>11 DEF Bench!LiteralRow, Bench!Exit
  <2>2. 1 < Len(Unit) BY <1>7, <1>11
  <2>3. Short BY <1>4, <1>5, <2>2, ShortOfWanted
  <2> QED BY <1>1, <1>2, <2>1, <2>3, HostFails
<1>12. CASE ~job.literals
  <2>1. doing' = "gpu" /\ Quietly BY <1>1, <1>12 DEF Bench!LiteralRow, Bench!GoOn, Quietly
  <2>2. At(GpuAt) BY <1>5, <1>7, <1>12
  <2>3. ProgressAt("gpu")
    <3>1. PlainProgress("gpu") BY <2>2 DEF PlainProgress, KernelPlaces, ContextPlaces, TimingPlaces
    <3> QED BY <1>4, <3>1 DEF ProgressAt, Plain
  <2>4. DriftAt("gpu") BY <1>3 DEF DriftAt, Printed
  <2>5. NumbersInv' BY <1>9, <2>1 DEF NumbersInv
  <2> QED BY <1>1, <1>2, <1>4, <1>8, <1>9, <1>10, <2>1, <2>3, <2>4, <2>5, HostQuiet
<1>13. CASE job.literals /\ Bench!Decoded(batch)
  <2> DEFINE r == [row |-> "literals", corpus |-> batch]
  <2>1. doing' = "gpu" /\ exit' = exit /\ rows' = Append(rows, r)
    BY <1>13 DEF Bench!LiteralRow, Bench!GoOn
  <2>2. r.row = "literals" /\ r.corpus = batch OBVIOUS
  <2> HIDE DEF r
  <2>3. RowWorth(Len(rows) + 1, r) BY <1>6, <1>13, <2>2 DEF RowWorth, Bench!OnDevice
  <2>4. r.row = RowName(Len(rows) + 1)
    <3>1. 1 + 1 <= Len(Unit) BY <1>7, <1>13
    <3>2. RowName(Len(rows) + 1) = Unit[1 + 1] BY <1>4, <1>5, <3>1, NextRowName
    <3> QED BY <1>7, <1>13, <2>2, <3>2
  <2>5. Longer(rows, r, rows') /\ Len(rows') = Len(rows) + 1 BY <1>3, <2>1, AppendFacts DEF Longer
  <2>6. At(2)' BY <1>1, <1>4, <1>5, <2>5, AtNext
  <2>7. ProgressAt("gpu")' BY <1>1, <1>4, <1>7, <1>13, <2>6, PlainNext
  <2>8. CorpusAt("gpu")' BY <1>1, <1>10, <2>1, CorpusPrints DEF FramePlaces
  <2>9. SamplesInv' BY <1>1, <1>3, <2>1, EmptyIs DEF SamplesInv, Between, TimedPlaces
  <2> QED BY <1>1, <1>2, <1>8, <1>9, <2>1, <2>2, <2>3, <2>4, <2>7, <2>8, <2>9, HostPrints
<1> QED BY <1>11, <1>12, <1>13

LEMMA CountReportInv ==
  ASSUME ReportInv, Bench!CountReport PROVE ReportInv'
<1> DEFINE r == [row |-> IF job.literals THEN "literals" ELSE "coverage", corpus |-> batch]
<1>1. /\ doing = "count" /\ doing' = "cell" /\ UNCHANGED <<job, batch, walk, exit, trip, samples, todo, numbers>>
      /\ UNCHANGED Bench!Rest /\ rows' = Append(rows, r)
  BY DEF Bench!CountReport, Bench!GoOn
<1>2. r.row = (IF job.literals THEN "literals" ELSE "coverage") /\ r.corpus = batch OBVIOUS
<1> HIDE DEF r
<1>3. Interior(doing) /\ Interior("cell") /\ doing \in Between BY <1>1 DEF Interior, Between
<1>4. /\ AskInv /\ PlaceInv /\ CorpusAt("count") /\ ProgressAt("count") /\ IsSeq(rows) /\ SamplesInv
  BY <1>1 DEF ReportInv, CorpusInv, ProgressInv, RowsInv
<1>5. job \in Asked /\ job.bench = "zstd" /\ Bench!Counted BY <1>1, <1>3, <1>4, Where DEF Interior
<1>6. Plain BY <1>5 DEF Plain, FrameJob, SweepJob
<1>7. At(0) /\ walk.at \in Nat /\ Bench!Decoded(batch) /\ Gated(batch) /\ Shaped(batch)
  BY <1>4, <1>6 DEF ProgressAt, PlainProgress, AskInv, CorpusAt, Plain
<1>8. Len(Unit) = 1 /\ r.row = Unit[1] BY <1>2, <1>5, OtherRows DEF Bench!Counted
<1>9. RowWorth(Len(rows) + 1, r) BY <1>2, <1>7 DEF RowWorth, Bench!OnDevice
<1>10. r.row = RowName(Len(rows) + 1)
  <2>1. RowName(Len(rows) + 1) = Unit[0 + 1] BY <1>5, <1>6, <1>7, <1>8, NextRowName
  <2> QED BY <1>8, <2>1
<1>11. Longer(rows, r, rows') /\ Len(rows') = Len(rows) + 1 BY <1>1, <1>4, AppendFacts DEF Longer
<1>12. At(1)' BY <1>1, <1>5, <1>7, <1>11, AtNext
<1>13. ProgressAt("cell")' BY <1>1, <1>6, <1>8, <1>12, PlainNext
<1>14. CorpusAt("cell")'
  <2>1. CorpusAt("cell") BY <1>4 DEF CorpusAt, FramePlaces, KernelPlaces, ContextPlaces, TimingPlaces
  <2> QED BY <1>1, <2>1, CorpusPrints DEF FramePlaces
<1>15. SamplesInv' BY <1>1, <1>4, EmptyIs DEF SamplesInv, Between, TimedPlaces
<1>16. "cell" \notin KernelPlaces \cup ContextPlaces BY DEF KernelPlaces, ContextPlaces, TimingPlaces
<1>17. "cell" \in PlacesOf BY <1>5, PlacesAre
<1> QED BY <1>1, <1>2, <1>3, <1>9, <1>10, <1>13, <1>14, <1>15, <1>16, <1>17, HostPrints

-----------------------------------------------------------------------------
(* Measurements that are asked for.                                        *)

LEMMA BatchIs ==
  /\ IsSeq(Bench!BatchSeries) /\ Len(Bench!BatchSeries) = (IF job.kernel = "chunk" THEN 2 ELSE 1)
  /\ Bench!BatchSeries[1] = [row |-> "full", shape |-> Bench!FullShape]
  /\ job.kernel = "chunk" => Bench!BatchSeries[2] = [row |-> "parse_only", shape |-> Bench!FullShape]
<1>1. PICK x, y : /\ x = [row |-> "full", shape |-> Bench!FullShape]
                  /\ y = [row |-> "parse_only", shape |-> Bench!FullShape]
  OBVIOUS
<1>2. CASE job.kernel = "chunk"
  <2>1. Bench!BatchSeries = <<x>> \o <<y>> BY <1>1, <1>2 DEF Bench!BatchSeries
  <2>2. PICK a, b : a = <<x>> /\ b = <<y>> OBVIOUS
  <2>3. IsSeq(a) /\ Len(a) = 1 /\ DOMAIN a = 1..1 /\ a[1] = x /\ IsSeq(b) /\ Len(b) = 1 /\ DOMAIN b = 1..1 /\ b[1] = y
    BY <2>2, Singles
  <2>4. Joined(a, b, a \o b) BY <2>3, ConcatFacts
  <2>5. 1 \in 1..1 OBVIOUS
  <2>6. IsSeq(a \o b) /\ Len(a \o b) = 2 /\ (a \o b)[1] = x /\ (a \o b)[2] = y
    BY <2>3, <2>4, <2>5 DEF Joined
  <2> QED BY <1>1, <1>2, <2>1, <2>2, <2>6
<1>3. CASE job.kernel # "chunk"
  <2>1. Bench!BatchSeries = <<x>> \o <<>> BY <1>1, <1>3 DEF Bench!BatchSeries
  <2>2. PICK a : a = <<x>> OBVIOUS
  <2>3. IsSeq(a) /\ Len(a) = 1 /\ DOMAIN a = 1..1 /\ a[1] = x BY <2>2, Singles
  <2>4. Joined(a, <<>>, a \o <<>>) BY <2>3, EmptyIs, ConcatFacts
  <2>5. 1 \in 1..1 OBVIOUS
  <2>6. IsSeq(a \o <<>>) /\ Len(a \o <<>>) = 1 /\ (a \o <<>>)[1] = x
    BY <2>3, <2>4, <2>5, EmptyIs DEF Joined
  <2> QED BY <1>1, <1>3, <2>1, <2>2, <2>6
<1> QED BY <1>2, <1>3

LEMMA ContextIs ==
  /\ IsSeq(Bench!ContextSeries) /\ Len(Bench!ContextSeries) = 4 /\ Bench!ContextSeries # <<>>
  /\ \A j \in 1..4 : Bench!ContextSeries[j].row = ContextRows[j]
  /\ \A j \in 1..4 : Bench!ContextSeries[j].row \notin OfKernel
  /\ \A j \in 1..4 : ContextRows[j] \in {"device_steady", "host_steady", "device_cold", "host_cold"}
<1>1. IsSeq(Bench!ContextSeries) /\ Len(Bench!ContextSeries) = 4 BY Fours DEF Bench!ContextSeries
<1>2. PICK s : s = Bench!ContextSeries OBVIOUS
<1>3. /\ s[1].row = "device_steady" /\ s[2].row = "host_steady"
      /\ s[3].row = "device_cold" /\ s[4].row = "host_cold"
  BY <1>2 DEF Bench!ContextSeries
<1>4. /\ ContextRows[1] = "device_steady" /\ ContextRows[2] = "host_steady"
      /\ ContextRows[3] = "device_cold" /\ ContextRows[4] = "host_cold"
  BY DEF ContextRows
<1>5. \A j \in 1..4 : j \in {1, 2, 3, 4} OBVIOUS
<1>6. \A j \in 1..4 : s[j].row = ContextRows[j] BY <1>3, <1>4, <1>5
<1>7. \A j \in 1..4 : s[j].row \notin OfKernel BY <1>3, <1>5 DEF OfKernel
<1>8. \A j \in 1..4 : ContextRows[j] \in {"device_steady", "host_steady", "device_cold", "host_cold"}
  BY <1>4, <1>5
<1>9. Bench!ContextSeries # <<>> BY <1>1, SeqFacts
<1> QED BY <1>1, <1>2, <1>6, <1>7, <1>8, <1>9

\* A measurement begins with its series and no number.
LEMMA RemainAll ==
  ASSUME NEW S, IsSeq(S), UNCHANGED <<job, batch, walk>>, todo' = S, numbers' = <<>>
  PROVE  Remain(S)'
<1>1. Len(S) \in Nat /\ \A j \in DOMAIN S : j \in Nat BY SeqFacts
<1>2. Measured(S)' BY <1>1, EmptyIs DEF Measured
<1>3. \A j \in DOMAIN S : 0 + j = j BY <1>1
<1> QED BY <1>1, <1>2, <1>3, EmptyIs DEF Remain

LEMMA SameSeries ==
  ASSUME UNCHANGED <<job, batch, walk>>
  PROVE  SeriesOf' = SeriesOf /\ Bench!ContextSeries' = Bench!ContextSeries
BY SeriesStay

LEMMA GpuInv ==
  ASSUME ReportInv, NEW otherwise, Bench!Measure("gpu", job.gpu, Bench!BatchSeries, "upload", otherwise),
         \/ job.bench = "lz4" /\ otherwise = "context"
         \/ job.bench = "snappy" /\ otherwise = "digest"
         \/ job.bench = "gdeflate" /\ otherwise = "judge"
  PROVE  ReportInv'
<1>1. /\ doing = "gpu" /\ UNCHANGED <<job, batch, walk, rows, exit, trip, samples>> /\ UNCHANGED Bench!Rest
      /\ \/ job.gpu /\ todo' = Bench!BatchSeries /\ numbers' = <<>> /\ doing' = "upload"
         \/ ~job.gpu /\ doing' = otherwise /\ UNCHANGED <<todo, numbers>>
  BY DEF Bench!Measure, Bench!GoOn, Bench!mainVars
<1>2. Interior(doing) /\ doing \in Between /\ Quietly BY <1>1 DEF Interior, Between, Quietly
<1>3. /\ AskInv /\ PlaceInv /\ CorpusAt("gpu") /\ ProgressAt("gpu") /\ DriftAt("gpu")
  BY <1>1 DEF ReportInv, CorpusInv, ProgressInv, DriftInv
<1>4. job \in Asked /\ Plain /\ ~(job.bench = "gdeflate" /\ job.mode = "blockmix") /\ job.bench # "zstd"
      /\ (job.bench # "gdeflate" => job.mode = "")
  BY <1>1, <1>2, <1>3, Where DEF Interior, AskInv
<1>5. ~FrameJob /\ ~SweepJob BY <1>4 DEF Plain
<1>6. At(GpuAt) /\ Gated(batch) BY <1>3, <1>4 DEF ProgressAt, PlainProgress, CorpusAt, Plain
<1>7. CASE job.gpu
  <2>1. doing' = "upload" /\ todo' = Bench!BatchSeries /\ numbers' = <<>> BY <1>1, <1>7
  <2>2. KernelPlaces \cup {"measured"} \subseteq PlacesOf BY <1>4, <1>5, <1>7, PlacesAre
  <2>3. "upload" \in KernelPlaces BY DEF KernelPlaces
  <2>4. CorpusAt("upload")
    BY <1>3, <1>5 DEF CorpusAt, FramePlaces, KernelPlaces, ContextPlaces, TimingPlaces, Unverified
  <2>5. ProgressAt("upload")
    <3>1. PlainProgress("upload") BY <1>6 DEF PlainProgress, KernelPlaces, ContextPlaces, TimingPlaces
    <3> QED BY <1>4, <1>5, <3>1 DEF ProgressAt
  <2>6. DriftAt("upload") BY <1>3 DEF DriftAt, Printed, KernelPlaces
  <2>7. NumbersInv'
    <3>1. SeriesOf = Bench!BatchSeries BY <1>5 DEF SeriesOf
    <3>2. SeriesOf' = SeriesOf BY <1>1, SameSeries
    <3>3. PICK S : S = Bench!BatchSeries /\ IsSeq(S) BY BatchIs
    <3>4. Remain(S)' BY <1>1, <2>1, <3>3, RemainAll
    <3>5. Remain(SeriesOf)' BY <3>1, <3>2, <3>3, <3>4 DEF Remain, Measured
    <3>6. "upload" \notin ContextPlaces BY DEF ContextPlaces
    <3> QED BY <2>1, <3>5, <3>6 DEF NumbersInv
  <2>8. Interior("upload") /\ "upload" \notin TimingPlaces BY DEF Interior, TimingPlaces
  <2> QED BY <1>1, <1>2, <1>5, <2>1, <2>2, <2>3, <2>4, <2>5, <2>6, <2>7, <2>8, HostQuiet
<1>8. CASE ~job.gpu
  <2>1. PICK q \in {"context", "digest", "judge"} : q = otherwise OBVIOUS
  <2>2. doing' = q /\ UNCHANGED <<todo, numbers>> BY <1>1, <1>8, <2>1
  <2>3. q \in PlacesOf BY <1>4, <1>5, <2>1, PlacesAre DEF FrameJob, SweepJob
  <2>4. CorpusAt(q) BY <1>3 DEF CorpusAt, FramePlaces, KernelPlaces, ContextPlaces, TimingPlaces
  <2>5. ProgressAt(q)
    <3>1. Len(Unit) \in Nat /\ GpuAt \in Nat BY <1>4, UnitLen
    <3>2. CtxAt = GpuAt BY <1>8, <3>1 DEF CtxAt
    <3>3. CASE q = "context"
      <4>1. PlainProgress(q) BY <1>6, <3>2, <3>3 DEF PlainProgress, KernelPlaces, ContextPlaces, TimingPlaces
      <4> QED BY <1>4, <1>5, <4>1 DEF ProgressAt
    <3>4. CASE q \in {"digest", "judge"}
      <4>1. Len(Unit) = GpuAt
        <5>1. CASE q = "digest"
          <6>1. job.bench = "snappy" BY <2>1, <5>1
          <6>2. Len(Unit) = CtxAt + (IF job.bench = "lz4" /\ job.context THEN 4 ELSE 0) BY <1>4, <6>1, StreamRows
          <6>3. Len(Unit) = CtxAt + 0 BY <6>1, <6>2
          <6>4. PICK n \in Nat : n = GpuAt BY <3>1
          <6> QED BY <3>2, <6>3, <6>4
        <5>2. CASE q = "judge"
          <6>1. job.bench = "gdeflate" BY <2>1, <5>2
          <6> QED BY <1>4, <1>8, <6>1, OtherRows DEF GpuAt
        <5> QED BY <3>4, <5>1, <5>2
      <4>2. PlainProgress(q) BY <1>6, <3>4, <4>1 DEF PlainProgress, KernelPlaces, ContextPlaces, TimingPlaces
      <4> QED BY <1>4, <1>5, <4>2 DEF ProgressAt
    <3> QED BY <3>3, <3>4
  <2>6. DriftAt(q) BY <1>3 DEF DriftAt, Printed
  <2>7. q \notin TimingPlaces \cup KernelPlaces \cup ContextPlaces \cup {"measured", "finish"} /\ Interior(q)
        /\ q \notin {"create", "untimed", "timed", "median", "context_median", "report", "frame_report"}
    BY DEF KernelPlaces, ContextPlaces, TimingPlaces, Interior
  <2>8. NumbersInv' BY <2>2, <2>7 DEF NumbersInv
  <2> QED BY <1>1, <1>2, <1>5, <2>2, <2>3, <2>4, <2>5, <2>6, <2>7, <2>8, HostQuiet
<1> QED BY <1>7, <1>8

LEMMA ContextAskedInv == ASSUME ReportInv, Bench!Context PROVE ReportInv'
<1>1. /\ doing = "context" /\ UNCHANGED <<job, batch, walk, rows, exit, trip, samples>> /\ UNCHANGED Bench!Rest
      /\ \/ job.context /\ todo' = Bench!ContextSeries /\ numbers' = <<>> /\ doing' = "context_verify"
         \/ ~job.context /\ doing' = "finish" /\ UNCHANGED <<todo, numbers>>
  BY DEF Bench!Context, Bench!Measure, Bench!GoOn, Bench!mainVars
<1>2. Interior(doing) /\ doing \in Between /\ Quietly BY <1>1 DEF Interior, Between, Quietly
<1>3. /\ AskInv /\ PlaceInv /\ CorpusAt("context") /\ ProgressAt("context") /\ DriftAt("context")
  BY <1>1 DEF ReportInv, CorpusInv, ProgressInv, DriftInv
<1>4. job \in Asked /\ job.bench = "lz4" /\ ~job.frame BY <1>1, <1>2, <1>3, Where DEF Interior
<1>5. ~FrameJob /\ ~SweepJob /\ Plain /\ ~Judged BY <1>4 DEF FrameJob, SweepJob, Plain, Judged
<1>6. At(CtxAt) /\ Gated(batch) BY <1>3, <1>5 DEF ProgressAt, PlainProgress, CorpusAt
<1>7. CASE job.context
  <2>1. doing' = "context_verify" /\ todo' = Bench!ContextSeries /\ numbers' = <<>> BY <1>1, <1>7
  <2>2. "context_verify" \in PlacesOf /\ "context_verify" \notin KernelPlaces \cup TimingPlaces
        /\ "context_verify" \in ContextPlaces /\ Interior("context_verify")
    BY <1>4, <1>7, PlacesAre DEF ContextPlaces, KernelPlaces, TimingPlaces, Interior
  <2>4. CorpusAt("context_verify")
    BY <1>3, <1>5 DEF CorpusAt, FramePlaces, KernelPlaces, ContextPlaces, TimingPlaces, Unverified
  <2>5. ProgressAt("context_verify")
    <3>1. PlainProgress("context_verify") BY <1>6 DEF PlainProgress, KernelPlaces, ContextPlaces, TimingPlaces
    <3> QED BY <1>5, <3>1 DEF ProgressAt
  <2>6. DriftAt("context_verify") BY <1>3 DEF DriftAt, Printed, ContextPlaces
  <2>7. NumbersInv'
    <3>2. Bench!ContextSeries' = Bench!ContextSeries BY <1>1, SameSeries
    <3>3. PICK S : S = Bench!ContextSeries /\ IsSeq(S) /\ S # <<>> BY ContextIs
    <3>4. Remain(S)' BY <1>1, <2>1, <3>3, RemainAll
    <3>5. Remain(Bench!ContextSeries)' BY <3>2, <3>3, <3>4 DEF Remain, Measured
    <3>6. todo' # <<>> BY <2>1, <3>3
    <3> QED BY <2>1, <2>2, <3>5, <3>6 DEF NumbersInv
  <2> QED BY <1>1, <1>2, <1>5, <2>1, <2>2, <2>4, <2>5, <2>6, <2>7, HostQuiet
<1>8. CASE ~job.context
  <2>1. doing' = "finish" /\ UNCHANGED <<todo, numbers>> BY <1>1, <1>8
  <2>2. "finish" \in PlacesOf BY <1>4, PlacesAre
  <2>4. CorpusAt("finish") BY <1>3 DEF CorpusAt, FramePlaces, KernelPlaces, ContextPlaces, TimingPlaces
  <2>5. Len(rows) = Units * Len(Unit)
    <3>1. Units = 1 /\ walk.at \in Nat /\ walk.at < 1 BY <1>3, <1>4, <1>6 DEF Units, At, AskInv
    <3>2. Len(Unit) = CtxAt /\ CtxAt \in Nat BY <1>4, <1>8, StreamRows, UnitLen
    <3>3. PICK c \in Nat : c = CtxAt BY <3>2
    <3>4. walk.at = 0 BY <3>1
    <3>5. Len(rows) = 0 * c + c BY <1>6, <3>2, <3>3, <3>4 DEF At
    <3> QED BY <3>1, <3>2, <3>3, <3>5
  <2>6. ProgressAt("finish")
    <3>1. PlainProgress("finish") BY <2>5 DEF PlainProgress, KernelPlaces, ContextPlaces, TimingPlaces
    <3> QED BY <1>5, <3>1 DEF ProgressAt
  <2>7. DriftAt("finish") BY <1>3, <1>5 DEF DriftAt, Printed, KernelPlaces, ContextPlaces, TimingPlaces
  <2>8. "finish" \notin TimingPlaces \cup KernelPlaces \cup ContextPlaces /\ Interior("finish")
    BY DEF KernelPlaces, ContextPlaces, TimingPlaces, Interior
  <2>9. NumbersInv' BY <2>1, <2>8 DEF NumbersInv
  <2> QED BY <1>1, <1>2, <1>5, <2>1, <2>2, <2>4, <2>6, <2>7, <2>8, <2>9, HostQuiet
<1> QED BY <1>7, <1>8

LEMMA NumberWorth ==
  ASSUME NEW series, NEW n, NEW i, Number(series, n), Gated(batch), Shaped(batch), Bench!IsVerified,
         series.row \in OfKernel \cup {"device_steady", "host_steady", "device_cold", "host_cold"},
         series.row = "grid" => series.shape.count = walk.points[i].pages
  PROVE  RowWorth(i, n)
<1>1. n.row = series.row /\ n.corpus = batch /\ Len(n.samples) = job.runs
      /\ \A k \in DOMAIN n.samples : Worth(series, n.samples[k])
  BY DEF Number
<1>2. n.row \in Bench!OnDevice /\ n.row \notin {"literals", "mix", "coverage", "frame"}
  BY <1>1 DEF OfKernel, Bench!OnDevice
<1>3. \A k \in DOMAIN n.samples : Bench!OneRun(n.row, n.samples[k])
  <2>1. CASE series.row \in OfKernel BY <1>1, <2>1 DEF Worth, Alone, OfKernel, Bench!OneRun
  <2>2. CASE series.row \notin OfKernel BY <1>1, <2>2 DEF Worth
  <2> QED BY <2>1, <2>2
<1>4. ASSUME n.row = "grid", NEW k \in DOMAIN n.samples PROVE n.samples[k][1].pages = walk.points[i].pages
  <2>1. series.row = "grid" BY <1>1, <1>4
  <2>2. series.row \in OfKernel BY <2>1 DEF OfKernel
  <2>3. Worth(series, n.samples[k]) BY <1>1, <1>4
  <2> QED BY <2>1, <2>2, <2>3 DEF Worth, Alone
<1>5. \A c \in DOMAIN batch.chunks : batch.chunks[c].device = "whole" BY DEF Bench!IsVerified
<1>6. n.row \notin {"literals", "mix", "coverage"} /\ n.row # "frame" BY <1>2
<1> QED BY <1>1, <1>3, <1>4, <1>5, <1>6 DEF RowWorth

LEMMA RowsJoin ==
  ASSUME RowsInv, job' = job, walk'.points = walk.points, exit = -1, IsSeq(numbers), rows' = rows \o numbers,
         \A j \in DOMAIN numbers : RowWorth(Len(rows) + j, numbers[j]),
         \A j \in DOMAIN numbers : numbers[j].row = RowName(Len(rows) + j)
  PROVE  RowsInv'
<1>1. \A i : RowName(i)' = RowName(i) BY JobFixes
<1>2. \A i, x : RowWorth(i, x)' <=> RowWorth(i, x)
  BY DEF RowWorth, Shaped, Gated, Bench!Generated, Bench!Decoded, Bench!RoundTrips, Bench!OneRun,
         Bench!OnDevice
<1>3. IsSeq(rows) /\ (\A i \in DOMAIN rows : RowWorth(i, rows[i])) /\ \A i \in DOMAIN rows : rows[i].row = RowName(i)
  BY DEF RowsInv
<1>4. /\ Joined(rows, numbers, rows')
      /\ Len(rows) \in Nat /\ DOMAIN rows = 1..Len(rows)
      /\ Len(numbers) \in Nat /\ DOMAIN numbers = 1..Len(numbers)
  BY <1>3, ConcatFacts, SeqFacts
<1>5. ASSUME NEW i \in DOMAIN rows' PROVE RowWorth(i, rows'[i]) /\ rows'[i].row = RowName(i)
  <2>1. CASE i \in DOMAIN rows BY <1>3, <1>4, <2>1 DEF Joined
  <2>2. CASE i \notin DOMAIN rows
    <3>1. i \in 1..Len(rows) + Len(numbers) BY <1>4 DEF Joined
    <3>2. PICK j \in Nat : j = i - Len(rows) BY <1>4, <2>2, <3>1
    <3>3. j \in DOMAIN numbers /\ i = Len(rows) + j BY <1>4, <2>2, <3>1, <3>2
    <3>4. rows'[i] = numbers[j] BY <1>4, <3>3 DEF Joined
    <3> QED BY <3>3, <3>4
  <2> QED BY <2>1, <2>2
<1>6. IsSeq(rows)' BY <1>4 DEF Joined
<1> QED BY <1>1, <1>2, <1>5, <1>6 DEF RowsInv

LEMMA DriftJoins ==
  ASSUME DriftInv, UNCHANGED <<job, batch, walk>>, Interior(doing), IsSeq(rows), IsSeq(numbers),
         rows' = rows \o numbers, \A j \in DOMAIN numbers : numbers[j].corpus = batch,
         NEW q, q \in {"options", "build", "finish"} =>
                  ~Judged \/ (batch.pinned /\ rows = <<>>),
         Plain => numbers # <<>>
  PROVE  DriftAt(q)'
<1>1. (Judged' <=> Judged) /\ (Plain' <=> Plain) BY JobFixes
<1>2. /\ Joined(rows, numbers, rows')
      /\ Len(rows) \in Nat /\ DOMAIN rows = 1..Len(rows)
      /\ Len(numbers) \in Nat /\ DOMAIN numbers = 1..Len(numbers)
  BY ConcatFacts, SeqFacts
<1>3. \A i \in DOMAIN rows : i \in DOMAIN rows' /\ rows'[i] = rows[i] BY <1>2 DEF Joined
<1>4. ASSUME NEW i \in DOMAIN rows' PROVE (i \in DOMAIN rows /\ rows'[i] = rows[i]) \/ rows'[i].corpus = batch
  <2>1. CASE i \in DOMAIN rows BY <1>3, <2>1
  <2>2. CASE i \notin DOMAIN rows
    <3>1. i \in 1..Len(rows) + Len(numbers) BY <1>2 DEF Joined
    <3>2. PICK j \in Nat : j = i - Len(rows) BY <1>2, <2>2, <3>1
    <3>3. j \in DOMAIN numbers /\ i = Len(rows) + j BY <1>2, <2>2, <3>1, <3>2
    <3>4. rows'[i] = numbers[j] BY <1>2, <3>3 DEF Joined
    <3> QED BY <3>3, <3>4
  <2> QED BY <2>1, <2>2
<1>5. ASSUME Plain PROVE rows' # <<>> /\ rows'[Len(rows')].corpus = batch
  <2>1. Len(numbers) # 0 BY <1>5, SeqFacts
  <2>2. PICK l \in Nat, n \in Nat \ {0} : l = Len(rows) /\ n = Len(numbers) BY <1>2, <2>1
  <2>3. n \in DOMAIN numbers BY <1>2, <2>2
  <2>4. Len(rows') = l + n /\ IsSeq(rows') /\ rows'[l + n] = numbers[n] BY <1>2, <2>2, <2>3 DEF Joined
  <2>5. Len(rows') # 0 BY <2>2, <2>4
  <2> QED BY <2>3, <2>4, <2>5, SeqFacts
<1>6. walk'.drifted => job.bench \in {"gdeflate", "zstd"} /\ Judged
                       /\ (job.mode = "blockmix" \/ \E i \in DOMAIN rows' : ~rows'[i].corpus.pinned)
  BY <1>3 DEF DriftInv, DriftAt, Interior
<1>7. Judged /\ ~walk.drifted => \A i \in DOMAIN rows' : rows'[i].corpus.pinned \/ rows'[i].corpus = batch
  <2>1. Judged /\ ~walk.drifted => \A i \in DOMAIN rows : rows[i].corpus.pinned \/ rows[i].corpus = batch
    BY DEF DriftInv, DriftAt, Interior
  <2> QED BY <1>4, <2>1
<1>8. Judged /\ ~walk.drifted /\ q \in {"options", "build", "finish"} => \A i \in DOMAIN rows' : rows'[i].corpus.pinned
  <2>1. rows = <<>> => DOMAIN rows = {} BY EmptyIs
  <2> QED BY <1>4, <2>1
<1> QED BY <1>1, <1>5, <1>6, <1>7, <1>8 DEF DriftAt

\* The numbers of a measurement become rows.
LEMMA PrintInv ==
  ASSUME ReportInv, NEW q, doing = "measured", doing' = q, UNCHANGED <<job, batch, walk, exit, trip, samples>>,
         UNCHANGED Bench!Rest, rows' = rows \o numbers, q \in {"context", "finish", "digest", "judge"},
         q \in PlacesOf, NEW S, IsSeq(S), S # <<>>, Measured(S), Len(numbers) = Len(S), Shaped(batch),
         \A j \in DOMAIN S : S[j].row \in OfKernel \cup {"device_steady", "host_steady", "device_cold", "host_cold"},
         \A j \in DOMAIN S : S[j].row = RowName(Len(rows) + j),
         \A j \in DOMAIN S : S[j].row = "grid" => S[j].shape.count = walk.points[Len(rows) + j].pages,
         q = "finish" => ~Judged \/ (batch.pinned /\ rows = <<>>),
         ProgressAt(q)'
  PROVE  ReportInv'
<1>0. /\ AskInv /\ PlaceInv /\ PointsInv /\ RowsInv /\ ExitInv /\ StreamInv /\ ContextInv /\ DriftInv
      /\ SamplesInv /\ CorpusAt("measured") /\ IsSeq(rows) /\ IsSeq(numbers)
  BY DEF ReportInv, CorpusInv, RowsInv, Measured
<1>1. Interior(doing) /\ Interior(q) BY DEF Interior
<1>2. exit = -1 /\ walk.at \in Nat BY <1>0, <1>1 DEF AskInv, Interior
<1>3. job \in Asked /\ ~FrameJob BY <1>0, <1>1, Where DEF Interior
<1>4. Gated(batch) /\ Bench!IsVerified BY <1>0, <1>3 DEF CorpusAt
<1>5. Len(numbers) \in Nat /\ DOMAIN numbers = DOMAIN S BY <1>0, SeqFacts
<1>6. ASSUME NEW j \in DOMAIN numbers
      PROVE  /\ RowWorth(Len(rows) + j, numbers[j]) /\ numbers[j].row = RowName(Len(rows) + j)
             /\ numbers[j].corpus = batch
  <2>1. Number(S[j], numbers[j]) BY <1>5 DEF Measured
  <2>2. j \in DOMAIN S BY <1>5
  <2>3. PICK i : i = Len(rows) + j OBVIOUS
  <2>4. /\ S[j].row \in OfKernel \cup {"device_steady", "host_steady", "device_cold", "host_cold"}
        /\ S[j].row = RowName(i)
        /\ S[j].row = "grid" => S[j].shape.count = walk.points[i].pages
    BY <2>2, <2>3
  <2>5. RowWorth(i, numbers[j]) BY <1>4, <2>1, <2>4, NumberWorth
  <2>6. numbers[j].row = S[j].row /\ numbers[j].corpus = batch BY <2>1 DEF Number
  <2> QED BY <2>3, <2>4, <2>5, <2>6
<1>7. RowsInv' BY <1>0, <1>2, <1>6, RowsJoin
<1>8. DriftInv'
  <2>1. Plain => numbers # <<>>
    <3>1. Len(S) # 0 BY SeqFacts
    <3> QED BY <3>1, EmptyIs
  <2>2. DriftAt(q)' BY <1>0, <1>1, <1>6, <2>1, DriftJoins
  <2> QED BY <2>2 DEF DriftInv, DriftAt
<1>9. CorpusInv'
  <2>1. CorpusAt(q) BY <1>0 DEF CorpusAt, FramePlaces, KernelPlaces, ContextPlaces, TimingPlaces
  <2>2. CorpusAt(q)' BY <2>1, CorpusPrints DEF FramePlaces
  <2> QED BY <2>2 DEF CorpusInv, CorpusAt
<1>10. AskInv' BY <1>0, <1>1, <1>2, AskStays DEF Interior
<1>11. PlaceInv' BY SamePlaces DEF PlaceInv
<1>12. PointsInv' BY <1>0, PointsStay
<1>13. ProgressInv' BY DEF ProgressInv
<1>14. ExitInv' BY <1>2, ExitStays
<1>15. SamplesInv' BY <1>0, EmptyIs DEF SamplesInv, Between, TimedPlaces
<1>16. StreamInv' /\ ContextInv'
  <2>1. doing' \notin TimingPlaces \cup {"create", "untimed", "timed"} BY DEF TimingPlaces
  <2> QED BY <1>0, <2>1, HostStays
<1>17. NumbersInv' BY DEF NumbersInv, KernelPlaces, ContextPlaces, TimingPlaces
<1> QED BY <1>7, <1>8, <1>9, <1>10, <1>11, <1>12, <1>13, <1>14, <1>15, <1>16, <1>17 DEF ReportInv

LEMMA PrintRowsInv ==
  ASSUME ReportInv, Bench!PrintRows \/ Bench!StreamPrint \/ Bench!PagePrint PROVE ReportInv'
<1>1. /\ doing = "measured" /\ UNCHANGED <<job, batch, walk, exit, trip, samples>> /\ UNCHANGED Bench!Rest
      /\ rows' = rows \o numbers
      /\ \/ job.bench = "lz4" /\ doing' = (IF Head(numbers).row = "full" THEN "context" ELSE "finish")
         \/ job.bench = "snappy" /\ doing' = "digest"
         \/ job.bench = "gdeflate" /\ doing' = (IF job.mode = "tailwaste" THEN "finish" ELSE "judge")
  <2>1. CASE Bench!PrintRows BY <2>1 DEF Bench!PrintRows, Bench!PrintNumbers, Bench!GoOn
  <2>2. CASE Bench!StreamPrint BY <2>2 DEF Bench!StreamPrint, Bench!PrintNumbers, Bench!GoOn
  <2>3. CASE Bench!PagePrint BY <2>3 DEF Bench!PagePrint, Bench!PrintNumbers, Bench!GoOn
  <2> QED BY <2>1, <2>2, <2>3
<1>2. Interior(doing) BY <1>1 DEF Interior
<1>3. /\ AskInv /\ PlaceInv /\ CorpusAt("measured") /\ ProgressAt("measured") /\ PointsInv /\ IsSeq(rows)
  BY <1>1 DEF ReportInv, CorpusInv, ProgressInv, RowsInv
<1>4. /\ job \in Asked /\ ~FrameJob /\ job.bench # "zstd" /\ ~(job.bench = "gdeflate" /\ job.mode = "blockmix")
      /\ job.gpu \/ SweepJob \/ job.bench = "lz4"
  BY <1>1, <1>2, <1>3, Where DEF Interior
<1>5. /\ Shaped(batch) /\ walk.at \in Nat
      /\ job.bench \in {"lz4", "snappy"} => job.kernel = "chunk"
      /\ job.bench = "gdeflate" => job.kernel = "gdeflate"
  BY <1>2, <1>3 DEF CorpusAt, AskInv, Interior
<1>6. CASE SweepJob
  <2>1. PICK P : P = walk.points /\ IsSeq(P) /\ P # <<>> BY <1>1, <1>3, <1>6 DEF PointsInv
  <2>2. PICK S : S = Bench!SweepSeries(P) OBVIOUS
  <2>3. PICK m \in Nat : m = Len(P) /\ DOMAIN P = 1..m BY <2>1, SeqFacts
  <2>4. DOMAIN S = 1..m /\ (S = [k \in 1..m |-> S[k]]) /\ \A i \in 1..m : S[i].row = "grid" /\ S[i].shape.count = P[i].pages
    BY <2>2, <2>3 DEF Bench!SweepSeries
  <2>5. IsSeq(S) /\ Len(S) = m BY <2>4, FunIs
  <2>6. S # <<>> BY <2>1, <2>3, <2>5, SeqFacts
  <2>7. rows = <<>> /\ Measured(S) /\ Len(numbers) = Len(S)
    BY <1>3, <1>6, <2>1, <2>2 DEF ProgressAt, SweepProgress, SeriesOf
  <2>8. Len(rows) = 0 /\ \A j \in 1..m : Len(rows) + j = j BY <2>7, EmptyIs
  <2>9. job.bench = "gdeflate" /\ job.mode = "tailwaste" /\ doing' = "finish" BY <1>1, <1>6 DEF SweepJob
  <2>10. \A i : RowName(i) = "grid" BY <1>4, <1>6 DEF RowName
  <2>11. ~Judged \/ (batch.pinned /\ rows = <<>>)
    BY <1>3, <1>6, <2>7 DEF Judged, CorpusAt
  <2>12. ProgressAt("finish")'
    <3>1. Len(rows') = Len(walk.points)
      <4>1. IsSeq(numbers) BY <2>7 DEF Measured
      <4>2. Joined(rows, numbers, rows') BY <1>1, <1>3, <4>1, ConcatFacts
      <4>3. Len(rows') = 0 + Len(numbers) BY <2>8, <4>2 DEF Joined
      <4> QED BY <2>1, <2>3, <2>5, <2>7, <4>3
    <3>2. (FrameJob' <=> FrameJob) /\ (Plain' <=> Plain) BY <1>1, JobFixes
    <3>3. ~Plain BY <1>6 DEF Plain
    <3>4. SweepProgress("finish")' BY <1>1, <3>1 DEF SweepProgress, KernelPlaces, TimingPlaces
    <3> QED BY <1>4, <3>2, <3>3, <3>4 DEF ProgressAt
  <2>13. "finish" \in PlacesOf BY <1>4, PlacesAre
  <2>14. /\ \A j \in DOMAIN S : S[j].row \in OfKernel \cup {"device_steady", "host_steady", "device_cold", "host_cold"}
         /\ \A j \in DOMAIN S : S[j].row = RowName(Len(rows) + j)
         /\ \A j \in DOMAIN S : S[j].row = "grid" => S[j].shape.count = walk.points[Len(rows) + j].pages
    BY <2>1, <2>4, <2>8, <2>10 DEF OfKernel
  <2> QED BY <1>1, <1>5, <2>5, <2>6, <2>7, <2>9, <2>11, <2>12, <2>13, <2>14, PrintInv
<1>7. CASE ~SweepJob
  <2>1. Plain /\ PlainProgress("measured") /\ Plain' BY <1>1, <1>3, <1>4, <1>7, JobFixes DEF ProgressAt, Plain
  <2>2. Len(Unit) \in Nat \ {0} /\ GpuAt \in Nat /\ CtxAt \in Nat BY <1>4, UnitLen
  <2>3. CASE job.gpu /\ At(GpuAt) /\ Measured(SeriesOf) /\ Len(numbers) = Len(SeriesOf)
    <3>1. PICK S : S = Bench!BatchSeries OBVIOUS
    <3>2. S = SeriesOf BY <1>7, <3>1 DEF SeriesOf
    <3>3. /\ IsSeq(S) /\ Len(S) = (IF job.kernel = "chunk" THEN 2 ELSE 1) /\ S[1].row = "full"
          /\ job.kernel = "chunk" => S[2].row = "parse_only"
      BY <3>1, BatchIs
    <3>4. Len(S) \in {1, 2} /\ DOMAIN S = 1..Len(S) /\ S # <<>>
      <4>1. CASE job.kernel = "chunk" BY <3>3, <4>1, SeqFacts
      <4>2. CASE job.kernel # "chunk" BY <3>3, <4>2, SeqFacts
      <4> QED BY <4>1, <4>2
    <3>5. /\ GpuAt + Len(S) <= Len(Unit) /\ \A j \in DOMAIN S : Unit[GpuAt + j] = S[j].row
          /\ GpuAt + Len(S) = CtxAt \/ job.bench = "gdeflate"
          /\ job.bench = "snappy" => CtxAt = Len(Unit)
          /\ job.bench = "gdeflate" => GpuAt + Len(S) = Len(Unit)
      <4>1. CASE job.bench \in {"lz4", "snappy"}
        <5>1. Len(S) = 2 /\ \A j \in 1..2 : j \in {1, 2} BY <1>5, <3>3, <4>1
        <5>2. Unit[GpuAt + 1] = "full" /\ Unit[GpuAt + 2] = "parse_only" BY <1>4, <2>3, <4>1, StreamRows
        <5>3. Len(Unit) = CtxAt + (IF job.bench = "lz4" /\ job.context THEN 4 ELSE 0) BY <1>4, <4>1, StreamRows
        <5>4. CtxAt = GpuAt + 2 BY <2>3 DEF CtxAt
        <5>5. \A j \in DOMAIN S : Unit[GpuAt + j] = S[j].row
          <6>1. ASSUME NEW j \in DOMAIN S PROVE Unit[GpuAt + j] = S[j].row
            <7>1. j \in {1, 2} BY <3>4, <5>1
            <7> QED BY <1>5, <3>3, <4>1, <5>2, <7>1
          <6> QED BY <6>1
        <5>6. job.bench = "snappy" => Len(Unit) = CtxAt + 0 BY <5>3
        <5>7. PICK l \in Nat, g \in Nat, c \in Nat : l = Len(Unit) /\ g = GpuAt /\ c = CtxAt BY <2>2
        <5>8. l >= c /\ c = g + 2 BY <5>3, <5>4, <5>7
        <5> QED BY <4>1, <5>1, <5>5, <5>6, <5>7, <5>8
      <4>2. CASE job.bench = "gdeflate"
        <5>1. Len(S) = 1 /\ GpuAt = 1 BY <1>5, <3>3, <4>2 DEF GpuAt
        <5>2. Len(Unit) = 2 /\ Unit[2] = "full" BY <1>4, <2>3, <4>2, OtherRows
        <5>3. \A j \in DOMAIN S : Unit[GpuAt + j] = S[j].row
          <6>1. ASSUME NEW j \in DOMAIN S PROVE Unit[GpuAt + j] = S[j].row
            <7>1. j = 1 BY <3>4, <5>1
            <7> QED BY <3>3, <5>1, <5>2, <7>1
          <6> QED BY <6>1
        <5> QED BY <4>2, <5>1, <5>2, <5>3
      <4> QED BY <1>4, <4>1, <4>2, AskedFacts
    <3>6. ASSUME NEW j \in DOMAIN S PROVE S[j].row = RowName(Len(rows) + j) /\ S[j].row \in {"full", "parse_only"}
      <4>1. j \in Nat \ {0} /\ j <= Len(S) BY <3>4
      <4>2. GpuAt + j <= Len(Unit) BY <2>2, <3>4, <3>5, <4>1
      <4>3. RowName(Len(rows) + j) = Unit[GpuAt + j] BY <1>4, <1>5, <2>1, <2>2, <2>3, <4>1, <4>2, NextRowName
      <4>4. j = 1 \/ (j = 2 /\ Len(S) = 2) BY <3>4, <4>1
      <4>5. S[j].row \in {"full", "parse_only"} BY <3>3, <4>4
      <4> QED BY <3>5, <4>3, <4>5
    <3>7. IsSeq(numbers) /\ Len(numbers) = Len(S) /\ Measured(S) BY <2>3, <3>2 DEF Measured
    <3>8. Len(rows') = Len(rows) + Len(S)
      <4>1. Joined(rows, numbers, rows') BY <1>1, <1>3, <3>7, ConcatFacts
      <4> QED BY <3>7, <4>1 DEF Joined
    <3>9. PICK q : q = doing' OBVIOUS
    <3>10. q = IF job.bench = "lz4" THEN "context" ELSE IF job.bench = "snappy" THEN "digest" ELSE "judge"
      <4>1. job.bench = "lz4" => Head(numbers).row = "full"
        <5>1. 1 \in DOMAIN numbers /\ 1 \in DOMAIN S BY <3>4, <3>7, SeqFacts
        <5>2. Number(S[1], numbers[1]) BY <3>7, <5>1 DEF Measured
        <5>3. numbers[1].row = "full" BY <3>3, <5>2 DEF Number
        <5>4. Head(numbers) = numbers[1]
          <6>1. PICK Z : numbers \in Seq(Z) BY <3>7 DEF IsSeq
          <6> QED BY <5>1, <6>1
        <5> QED BY <5>3, <5>4
      <4>2. job.bench = "gdeflate" => job.mode # "tailwaste" BY <1>7 DEF SweepJob
      <4> QED BY <1>1, <3>9, <4>1, <4>2
    <3>11. ProgressAt(q)'
      <4>1. PICK e \in Nat : e = GpuAt + Len(S) BY <2>2, <3>4
      <4>2. At(e)' BY <1>1, <1>4, <1>5, <2>2, <2>3, <3>4, <3>8, <4>1, AtNext
      <4>3. (q = "context" /\ e = CtxAt) \/ (q \in {"judge", "digest"} /\ e = Len(Unit))
        <5>1. CASE job.bench = "lz4" BY <3>5, <3>10, <4>1, <5>1
        <5>2. CASE job.bench = "snappy" BY <3>5, <3>10, <4>1, <5>2
        <5>3. CASE job.bench = "gdeflate" BY <3>5, <3>10, <4>1, <5>3
        <5> QED BY <1>1, <5>1, <5>2, <5>3
      <4> QED BY <1>1, <2>1, <4>2, <4>3, PlainNext
    <3>12. q \in PlacesOf BY <1>4, <1>7, <3>10, PlacesAre, AskedFacts DEF FrameJob, SweepJob
    <3>13. /\ \A j \in DOMAIN S : S[j].row \in OfKernel \cup {"device_steady", "host_steady", "device_cold", "host_cold"}
           /\ \A j \in DOMAIN S : S[j].row = RowName(Len(rows) + j)
           /\ \A j \in DOMAIN S : S[j].row = "grid" => S[j].shape.count = walk.points[Len(rows) + j].pages
      BY <3>6 DEF OfKernel
    <3>14. q \in {"context", "digest", "judge"} BY <3>10
    <3> QED BY <1>1, <1>5, <3>3, <3>4, <3>7, <3>9, <3>11, <3>12, <3>13, <3>14, PrintInv
  <2>4. CASE job.bench = "lz4" /\ job.context /\ At(CtxAt) /\ Measured(Bench!ContextSeries) /\ Len(numbers) = 4
    <3>1. PICK S : S = Bench!ContextSeries OBVIOUS
    <3>2. /\ IsSeq(S) /\ Len(S) = 4 /\ S # <<>> /\ \A j \in 1..4 : S[j].row = ContextRows[j]
          /\ \A j \in 1..4 : S[j].row \notin OfKernel
          /\ \A j \in 1..4 : ContextRows[j] \in {"device_steady", "host_steady", "device_cold", "host_cold"}
      BY <3>1, ContextIs
    <3>3. DOMAIN S = 1..4 /\ Measured(S) /\ Len(numbers) = Len(S) /\ IsSeq(numbers)
      BY <2>4, <3>1, <3>2, SeqFacts DEF Measured
    <3>4. Len(Unit) = CtxAt + 4 /\ \A j \in 1..4 : Unit[CtxAt + j] = ContextRows[j] BY <1>4, <2>4, StreamRows
    <3>5. ASSUME NEW j \in DOMAIN S
          PROVE  S[j].row = RowName(Len(rows) + j) /\ S[j].row # "grid"
                 /\ S[j].row \in {"device_steady", "host_steady", "device_cold", "host_cold"}
      <4>1. j \in Nat \ {0} /\ j <= 4 BY <3>3
      <4>2. CtxAt + j <= Len(Unit) BY <2>2, <3>4, <4>1
      <4>3. RowName(Len(rows) + j) = Unit[CtxAt + j] BY <1>4, <1>5, <2>1, <2>2, <2>4, <4>1, <4>2, NextRowName
      <4>4. Unit[CtxAt + j] = ContextRows[j] /\ S[j].row = ContextRows[j] BY <3>2, <3>3, <3>4
      <4>5. S[j].row \in {"device_steady", "host_steady", "device_cold", "host_cold"} BY <3>2, <3>3, <4>4
      <4> QED BY <4>3, <4>4, <4>5
    <3>6. Len(rows') = Len(rows) + 4
      <4>1. Joined(rows, numbers, rows') BY <1>1, <1>3, <3>3, ConcatFacts
      <4> QED BY <2>4, <4>1 DEF Joined
    <3>7. doing' = "finish"
      <4>1. 1 \in DOMAIN numbers /\ 1 \in DOMAIN S BY <3>2, <3>3, SeqFacts
      <4>2. Number(S[1], numbers[1]) BY <3>3, <4>1 DEF Measured
      <4>3. numbers[1].row # "full" BY <3>5, <4>1, <4>2 DEF Number
      <4>4. Head(numbers) = numbers[1]
        <5>1. PICK Z : numbers \in Seq(Z) BY <3>3 DEF IsSeq
        <5> QED BY <4>1, <5>1
      <4> QED BY <1>1, <2>4, <4>3, <4>4
    <3>8. ProgressAt("finish")'
      <4>1. Units = 1 /\ walk.at < 1 BY <2>4 DEF Units, At
      <4>2. walk.at = 0 BY <1>5, <4>1
      <4>3. PICK c \in Nat : c = CtxAt BY <2>2
      <4>4. Len(rows) = 0 * (c + 4) + c BY <2>4, <3>4, <4>2, <4>3 DEF At
      <4>5. Len(rows') = 1 * (c + 4) BY <3>6, <4>4
      <4>6. Len(rows') = Units' * Len(Unit') BY <1>1, <3>4, <4>1, <4>3, <4>5, JobFixes
      <4>7. PlainProgress("finish")' BY <4>6 DEF PlainProgress, KernelPlaces, ContextPlaces, TimingPlaces
      <4> QED BY <2>1, <4>7 DEF ProgressAt, Plain
    <3>9. "finish" \in PlacesOf /\ ~Judged BY <1>4, <2>4, PlacesAre DEF Judged
    <3>10. /\ \A j \in DOMAIN S : S[j].row \in OfKernel \cup {"device_steady", "host_steady", "device_cold", "host_cold"}
           /\ \A j \in DOMAIN S : S[j].row = RowName(Len(rows) + j)
           /\ \A j \in DOMAIN S : S[j].row = "grid" => S[j].shape.count = walk.points[Len(rows) + j].pages
      BY <3>5
    <3> QED BY <1>1, <1>5, <3>2, <3>3, <3>7, <3>8, <3>9, <3>10, PrintInv
  <2> QED BY <2>1, <2>3, <2>4 DEF PlainProgress
<1> QED BY <1>6, <1>7

\* From one corpus of a walk to the next, or to the end of it.
LEMMA WalkOn ==
  ASSUME ReportInv, Interior(doing), doing \in Between, Plain, job \in Asked,
         UNCHANGED <<job, batch, exit, trip, samples>>, UNCHANGED Bench!Rest,
         DOMAIN walk' = DOMAIN walk, walk'.points = walk.points, walk'.at = walk.at + 1, walk.at < Units,
         NEW q, doing' = q, q = IF walk.at + 1 < Units THEN "build" ELSE "finish",
         batch \in Batches, Shaped(batch), Gated(batch),
         RowsInv', Len(rows') = (walk.at + 1) * Len(Unit), DriftAt(q)'
  PROVE  ReportInv'
<1>0. AskInv /\ PointsInv /\ StreamInv /\ ContextInv /\ SamplesInv BY DEF ReportInv
<1>1. exit = -1 /\ walk.at \in Nat BY <1>0 DEF AskInv, Interior
<1>2. q \in {"build", "finish"} /\ Interior(q) BY DEF Interior
<1>3. q \notin KernelPlaces \cup ContextPlaces \cup TimingPlaces
  BY <1>2 DEF KernelPlaces, ContextPlaces, TimingPlaces
<1>4. AskInv' BY <1>0, <1>1, <1>2, AskStays DEF Interior
<1>5. PlaceInv'
  <2>1. q \in PlacesOf BY <1>2, PlacesAre
  <2> QED BY <2>1, SamePlaces DEF PlaceInv
<1>6. (FrameJob' <=> FrameJob) /\ (SweepJob' <=> SweepJob) /\ (Plain' <=> Plain)
      /\ Units' = Units /\ Unit' = Unit /\ \A b : Shaped(b)' <=> Shaped(b)
  BY JobFixes
<1>7. CorpusInv'
  <2>1. Gated(batch)' <=> Gated(batch) BY DEF Gated, Bench!RoundTrips
  <2> QED BY <1>2, <1>3, <1>6, <2>1 DEF CorpusInv, CorpusAt, FramePlaces, Plain
<1>8. PointsInv'
  <2>1. \A p : Fits(p)' <=> Fits(p) BY DEF Fits, Grid!BlockThreads
  <2> QED BY <1>0, <1>6, <2>1 DEF PointsInv, Plain
<1>9. SamplesInv' BY <1>0, <1>2, EmptyIs DEF SamplesInv, Between, TimedPlaces
<1>10. StreamInv' /\ ContextInv'
  <2>1. doing \notin {"untimed", "timed"} BY DEF Between
  <2>2. doing' \notin TimingPlaces \cup {"create", "untimed", "timed"} BY <1>2 DEF TimingPlaces
  <2> QED BY <1>0, <2>1, <2>2, HostStays
<1>11. NumbersInv' BY <1>3 DEF NumbersInv
<1>12. ProgressInv'
  <2>1. Units \in Nat /\ Len(Unit) \in Nat BY UnitsNat, UnitLen
  <2>2. PICK u \in Nat, n \in Nat, a \in Nat : u = Units /\ n = Len(Unit) /\ a = walk.at BY <1>1, <2>1
  <2>3. CASE a + 1 < u
    <3>1. q = "build" BY <2>2, <2>3
    <3>2. (a + 1) * n \in Nat BY <2>2, MulComm
    <3>3. At(0)' BY <1>6, <2>2, <2>3, <3>2 DEF At
    <3>4. PlainProgress(q)' BY <1>3, <3>1, <3>3 DEF PlainProgress
    <3> QED BY <1>6, <3>4 DEF ProgressInv, ProgressAt, Plain
  <2>4. CASE ~(a + 1 < u)
    <3>1. q = "finish" BY <2>2, <2>4
    <3>2. a + 1 = u BY <2>2, <2>4
    <3>3. PlainProgress(q)' BY <1>3, <1>6, <2>2, <3>1, <3>2 DEF PlainProgress
    <3> QED BY <1>6, <3>3 DEF ProgressInv, ProgressAt, Plain
  <2> QED BY <2>3, <2>4
<1>13. DriftInv' BY DEF DriftInv, DriftAt
<1>14. ExitInv' BY <1>1, ExitStays
<1> QED BY <1>4, <1>5, <1>7, <1>8, <1>9, <1>10, <1>11, <1>12, <1>13, <1>14 DEF ReportInv

\* What a walk knows of a corpus whose rows are printed.
LEMMA RowsPrinted ==
  ASSUME AskInv, PlaceInv, Interior(doing), CorpusAt(doing), ProgressAt(doing), IsSeq(rows),
         doing \in {"judge", "digest", "cell"}
  PROVE  /\ job \in Asked /\ Plain /\ walk.at < Units /\ walk.at \in Nat
         /\ Len(rows) = (walk.at + 1) * Len(Unit)
         /\ batch \in Batches /\ Shaped(batch) /\ Gated(batch)
<1>1. job \in Asked BY Where DEF Interior
<1>2. Plain BY Where DEF Interior, Plain, FrameJob, SweepJob
<1>3. At(Len(Unit)) BY <1>2 DEF ProgressAt, PlainProgress
<1>4. Len(Unit) \in Nat /\ walk.at \in Nat BY <1>1, UnitLen DEF AskInv
<1>5. PICK n \in Nat, a \in Nat : n = Len(Unit) /\ a = walk.at BY <1>4
<1>6. a * n + n = (a + 1) * n
  <2>1. n * (a + 1) = n * a + n * 1 BY <1>5, Distrib
  <2>2. n * (a + 1) = (a + 1) * n /\ n * a = a * n /\ n * 1 = n BY <1>5, MulComm
  <2> QED BY <2>1, <2>2
<1>7. batch \in Batches /\ Shaped(batch) /\ Gated(batch)
  BY <1>2 DEF CorpusAt, Plain
<1> QED BY <1>1, <1>2, <1>3, <1>5, <1>6, <1>7 DEF At

LEMMA NextCellInv == ASSUME ReportInv, Bench!NextCell PROVE ReportInv'
<1>1. /\ doing = "cell" /\ UNCHANGED <<job, batch, rows, exit, trip, samples>> /\ UNCHANGED Bench!Rest
      /\ walk' = [walk EXCEPT !.at = @ + 1,
                              !.drifted = @ \/ (job.selfcheck /\ ~Bench!Generated /\ ~batch.pinned)]
      /\ doing' = IF walk.at + 1 < Bench!ZstdCorpora THEN "build" ELSE "finish"
  BY DEF Bench!NextCell, Bench!GoOn
<1>2. Interior(doing) /\ doing \in Between BY <1>1 DEF Interior, Between
<1>3. /\ AskInv /\ PlaceInv /\ CorpusAt(doing) /\ ProgressAt(doing) /\ DriftAt("cell") /\ IsSeq(rows) /\ RowsInv
  BY <1>1 DEF ReportInv, CorpusInv, ProgressInv, DriftInv, RowsInv
<1>4. job.bench = "zstd" BY <1>1, <1>2, <1>3, Where DEF Interior
<1>5. /\ job \in Asked /\ Plain /\ walk.at < Units /\ walk.at \in Nat
      /\ Len(rows) = (walk.at + 1) * Len(Unit)
      /\ batch \in Batches /\ Shaped(batch) /\ Gated(batch)
  BY <1>1, <1>2, <1>3, RowsPrinted
<1>6. Units = Bench!ZstdCorpora BY <1>4 DEF Units
<1>7. /\ DOMAIN walk' = DOMAIN walk /\ walk'.points = walk.points /\ walk'.at = walk.at + 1
      /\ walk'.drifted = (walk.drifted \/ (job.selfcheck /\ ~Bench!Generated /\ ~batch.pinned))
  BY <1>1, <1>3 DEF AskInv
<1>8. exit = -1 BY <1>2, <1>3 DEF AskInv, Interior
<1>9. RowsInv' BY <1>1, <1>3, <1>7, <1>8, RowsStay
<1>10. Judged <=> job.selfcheck /\ ~Bench!Generated BY <1>4 DEF Judged
<1>11. PICK q : q = doing' OBVIOUS
<1>12. q = (IF walk.at + 1 < Units THEN "build" ELSE "finish") /\ q \in {"build", "finish"}
  BY <1>1, <1>6, <1>11
<1>13. DriftAt(q)'
  <2>1. Judged' <=> Judged BY <1>1, JobFixes
  <2>2. rows # <<>> /\ rows[Len(rows)].corpus = batch BY <1>3, <1>5 DEF DriftAt, Printed
  <2>3. Len(rows) \in DOMAIN rows BY <1>3, <2>2, SeqFacts
  <2>4. walk'.drifted => Judged /\ (job.mode = "blockmix" \/ \E i \in DOMAIN rows : ~rows[i].corpus.pinned)
    <3>1. CASE walk.drifted BY <1>3, <3>1 DEF DriftAt
    <3>2. CASE Judged /\ ~batch.pinned BY <2>2, <2>3, <3>2
    <3> QED BY <1>7, <1>10, <3>1, <3>2
  <2>5. Judged /\ ~walk'.drifted => \A i \in DOMAIN rows : rows[i].corpus.pinned
    <3>1. SUFFICES ASSUME Judged, ~walk'.drifted, NEW i \in DOMAIN rows PROVE rows[i].corpus.pinned OBVIOUS
    <3>2. ~walk.drifted /\ batch.pinned BY <1>7, <1>10, <3>1
    <3>3. rows[i].corpus.pinned \/ rows[i].corpus = batch BY <1>3, <3>1, <3>2 DEF DriftAt
    <3> QED BY <3>2, <3>3
  <2>6. q \notin Printed BY <1>12 DEF Printed, KernelPlaces, ContextPlaces, TimingPlaces
  <2> QED BY <1>1, <1>4, <1>12, <2>1, <2>4, <2>5, <2>6 DEF DriftAt
<1> QED BY <1>1, <1>2, <1>5, <1>7, <1>9, <1>11, <1>12, <1>13, WalkOn

LEMMA JudgeInv == ASSUME ReportInv, Bench!Judge PROVE ReportInv'
<1>1. /\ doing = "judge" /\ UNCHANGED <<job, batch, rows, exit, trip, samples>> /\ UNCHANGED Bench!Rest
      /\ walk' = [walk EXCEPT !.at = @ + 1, !.drifted = @ \/ Bench!Drift(batch)]
      /\ doing' = IF walk.at + 1 < Bench!Corpora THEN "build" ELSE "finish"
  BY DEF Bench!Judge, Bench!NextCorpus, Bench!GoOn
<1>2. Interior(doing) /\ doing \in Between BY <1>1 DEF Interior, Between
<1>3. /\ AskInv /\ PlaceInv /\ CorpusAt(doing) /\ ProgressAt(doing) /\ DriftAt("judge") /\ IsSeq(rows) /\ RowsInv
  BY <1>1 DEF ReportInv, CorpusInv, ProgressInv, DriftInv, RowsInv
<1>4. job.bench = "gdeflate" /\ job.mode # "blockmix" BY <1>1, <1>2, <1>3, Where DEF Interior
<1>5. /\ job \in Asked /\ Plain /\ walk.at < Units /\ walk.at \in Nat
      /\ Len(rows) = (walk.at + 1) * Len(Unit)
      /\ batch \in Batches /\ Shaped(batch) /\ Gated(batch)
  BY <1>1, <1>2, <1>3, RowsPrinted
<1>6. Units = Bench!Corpora BY <1>4 DEF Units
<1>7. /\ DOMAIN walk' = DOMAIN walk /\ walk'.points = walk.points /\ walk'.at = walk.at + 1
      /\ walk'.drifted = (walk.drifted \/ Bench!Drift(batch))
  BY <1>1, <1>3 DEF AskInv
<1>8. exit = -1 BY <1>2, <1>3 DEF AskInv, Interior
<1>9. RowsInv' BY <1>1, <1>3, <1>7, <1>8, RowsStay
<1>10. (Judged <=> job.selfcheck) /\ (Bench!Drift(batch) <=> job.selfcheck /\ ~batch.pinned)
  BY <1>4 DEF Judged, Bench!Drift
<1>11. PICK q : q = doing' OBVIOUS
<1>12. q = (IF walk.at + 1 < Units THEN "build" ELSE "finish") /\ q \in {"build", "finish"}
  BY <1>1, <1>6, <1>11
<1>13. DriftAt(q)'
  <2>1. Judged' <=> Judged BY <1>1, JobFixes
  <2>2. rows # <<>> /\ rows[Len(rows)].corpus = batch BY <1>3, <1>5 DEF DriftAt, Printed
  <2>3. Len(rows) \in DOMAIN rows BY <1>3, <2>2, SeqFacts
  <2>4. walk'.drifted => Judged /\ (job.mode = "blockmix" \/ \E i \in DOMAIN rows : ~rows[i].corpus.pinned)
    <3>1. CASE walk.drifted BY <1>3, <3>1 DEF DriftAt
    <3>2. CASE Judged /\ ~batch.pinned BY <2>2, <2>3, <3>2
    <3> QED BY <1>7, <1>10, <3>1, <3>2
  <2>5. Judged /\ ~walk'.drifted => \A i \in DOMAIN rows : rows[i].corpus.pinned
    <3>1. SUFFICES ASSUME Judged, ~walk'.drifted, NEW i \in DOMAIN rows PROVE rows[i].corpus.pinned OBVIOUS
    <3>2. ~walk.drifted /\ batch.pinned BY <1>7, <1>10, <3>1
    <3>3. rows[i].corpus.pinned \/ rows[i].corpus = batch BY <1>3, <3>1, <3>2 DEF DriftAt
    <3> QED BY <3>2, <3>3
  <2>6. q \notin Printed BY <1>12 DEF Printed, KernelPlaces, ContextPlaces, TimingPlaces
  <2> QED BY <1>1, <1>4, <1>12, <2>1, <2>4, <2>5, <2>6 DEF DriftAt
<1> QED BY <1>1, <1>2, <1>5, <1>7, <1>9, <1>11, <1>12, <1>13, WalkOn

LEMMA CensusInv == ASSUME ReportInv, Bench!Census PROVE ReportInv'
<1> DEFINE r == [row |-> "mix", corpus |-> batch]
<1>1. /\ doing = "census" /\ UNCHANGED <<job, batch, exit, trip, samples>> /\ UNCHANGED Bench!Rest
      /\ walk' = [walk EXCEPT !.at = @ + 1, !.drifted = @ \/ Bench!Drift(batch)]
      /\ doing' = (IF walk.at + 1 < Bench!Corpora THEN "build" ELSE "finish")
      /\ rows' = Append(rows, r)
  BY DEF Bench!Census, Bench!NextCorpus, Bench!GoOn
<1>r. r.row = "mix" /\ r.corpus = batch OBVIOUS
<1> HIDE DEF r
<1>2. Interior(doing) /\ doing \in Between BY <1>1 DEF Interior, Between
<1>3. /\ AskInv /\ PlaceInv /\ CorpusAt("census") /\ ProgressAt("census") /\ DriftAt("census")
      /\ IsSeq(rows) /\ RowsInv
  BY <1>1 DEF ReportInv, CorpusInv, ProgressInv, DriftInv, RowsInv
<1>4. job \in Asked /\ job.bench = "gdeflate" /\ job.mode = "blockmix" BY <1>1, <1>2, <1>3, Where DEF Interior
<1>5. Plain BY <1>4 DEF Plain, FrameJob, SweepJob
<1>6. /\ batch \in Batches /\ Shaped(batch) /\ Gated(batch) /\ Bench!Decoded(batch) /\ At(0) /\ walk.at \in Nat
  BY <1>3, <1>5 DEF CorpusAt, Plain, ProgressAt, PlainProgress, AskInv
<1>7. Units = Bench!Corpora /\ Len(Unit) = 1 /\ Unit[1] = "mix" BY <1>4, OtherRows DEF Units
<1>8. /\ DOMAIN walk' = DOMAIN walk /\ walk'.points = walk.points /\ walk'.at = walk.at + 1
      /\ walk'.drifted = (walk.drifted \/ Bench!Drift(batch))
  BY <1>1, <1>3 DEF AskInv
<1>9. exit = -1 BY <1>2, <1>3 DEF AskInv, Interior
<1>10. RowWorth(Len(rows) + 1, r) BY <1>6, <1>r DEF RowWorth, Bench!OnDevice
<1>11. r.row = RowName(Len(rows) + 1)
  <2>1. RowName(Len(rows) + 1) = Unit[0 + 1] BY <1>4, <1>5, <1>6, <1>7, NextRowName
  <2> QED BY <1>7, <1>r, <2>1
<1>12. RowsInv' BY <1>1, <1>3, <1>8, <1>9, <1>10, <1>11, RowsGrow
<1>13. /\ Longer(rows, r, rows') /\ Len(rows) \in Nat /\ DOMAIN rows = 1..Len(rows)
       /\ Len(rows') = Len(rows) + 1
  BY <1>1, <1>3, AppendFacts, SeqFacts DEF Longer
<1>14. Len(rows') = (walk.at + 1) * Len(Unit) /\ walk.at < Units
  <2>1. PICK a \in Nat : a = walk.at BY <1>6
  <2>2. Len(rows) = a * 1 + 0 /\ a < Units BY <1>6, <1>7, <2>1 DEF At
  <2> QED BY <1>7, <1>13, <2>1, <2>2
<1>15. Judged <=> job.selfcheck BY <1>4 DEF Judged
<1>16. (Bench!Drift(batch) => job.selfcheck) /\ (job.selfcheck /\ ~batch.pinned => Bench!Drift(batch))
  BY DEF Bench!Drift
<1>17. PICK q : q = doing' OBVIOUS
<1>18. q = (IF walk.at + 1 < Units THEN "build" ELSE "finish") /\ q \in {"build", "finish"}
  BY <1>1, <1>7, <1>17
<1>19. DriftAt(q)'
  <2>1. Judged' <=> Judged BY <1>1, JobFixes
  <2>2. walk'.drifted => Judged
    <3>1. walk.drifted => Judged BY <1>3 DEF DriftAt
    <3> QED BY <1>8, <1>15, <1>16, <3>1
  <2>3. Judged /\ ~walk'.drifted => \A i \in DOMAIN rows' : rows'[i].corpus.pinned
    <3>1. SUFFICES ASSUME Judged, ~walk'.drifted, NEW i \in DOMAIN rows' PROVE rows'[i].corpus.pinned OBVIOUS
    <3>2. ~walk.drifted /\ batch.pinned BY <1>8, <1>15, <1>16, <3>1
    <3>3. CASE i \in DOMAIN rows
      <4>1. rows[i].corpus.pinned \/ rows[i].corpus = batch BY <1>3, <3>1, <3>2, <3>3 DEF DriftAt
      <4> QED BY <1>13, <3>2, <3>3, <4>1 DEF Longer
    <3>4. CASE i \notin DOMAIN rows
      <4>1. i = Len(rows) + 1 BY <1>13, <3>4 DEF Longer
      <4> QED BY <1>13, <1>r, <3>2, <4>1 DEF Longer
    <3> QED BY <3>3, <3>4
  <2>4. q \notin Printed BY <1>18 DEF Printed, KernelPlaces, ContextPlaces, TimingPlaces
  <2> QED BY <1>1, <1>4, <1>18, <2>1, <2>2, <2>3, <2>4 DEF DriftAt
<1> QED BY <1>1, <1>2, <1>4, <1>5, <1>6, <1>8, <1>12, <1>14, <1>17, <1>18, <1>19, WalkOn

LEMMA CheckDigestInv == ASSUME ReportInv, Bench!CheckDigest PROVE ReportInv'
<1>1. /\ doing = "digest" /\ UNCHANGED <<job, batch, rows, trip, samples>> /\ UNCHANGED Bench!Rest
      /\ walk' = [walk EXCEPT !.at = @ + 1]
      /\ \/ /\ job.selfcheck /\ ~Bench!Generated => batch.pinned
            /\ doing' = (IF walk.at + 1 < Bench!SnappyCorpora THEN "build" ELSE "finish") /\ exit' = exit
         \/ /\ job.selfcheck /\ ~Bench!Generated /\ ~batch.pinned
            /\ doing' = "exited" /\ exit' = 1
  <2>1. /\ doing = "digest" /\ UNCHANGED <<job, batch, rows, trip, samples>> /\ UNCHANGED Bench!Rest
        /\ walk' = [walk EXCEPT !.at = @ + 1]
    BY DEF Bench!CheckDigest
  <2>2. CASE job.selfcheck /\ ~Bench!Generated => batch.pinned
    BY <2>1, <2>2 DEF Bench!CheckDigest, Bench!ExitUnless, Bench!GoOn
  <2>3. CASE ~(job.selfcheck /\ ~Bench!Generated => batch.pinned)
    BY <2>1, <2>3 DEF Bench!CheckDigest, Bench!ExitUnless, Bench!Exit
  <2> QED BY <2>2, <2>3
<1>2. Interior(doing) /\ doing \in Between BY <1>1 DEF Interior, Between
<1>3. /\ AskInv /\ PlaceInv /\ CorpusAt(doing) /\ ProgressAt(doing) /\ DriftAt("digest") /\ IsSeq(rows) /\ RowsInv
      /\ PointsInv
  BY <1>1 DEF ReportInv, CorpusInv, ProgressInv, DriftInv, RowsInv
<1>4. job.bench = "snappy" BY <1>1, <1>2, <1>3, Where DEF Interior
<1>5. /\ job \in Asked /\ Plain /\ walk.at < Units /\ walk.at \in Nat
      /\ Len(rows) = (walk.at + 1) * Len(Unit)
      /\ batch \in Batches /\ Shaped(batch) /\ Gated(batch)
  BY <1>1, <1>2, <1>3, RowsPrinted
<1>6. Units = Bench!SnappyCorpora BY <1>4 DEF Units
<1>7. /\ DOMAIN walk' = DOMAIN walk /\ walk'.points = walk.points /\ walk'.at = walk.at + 1
      /\ walk'.drifted = walk.drifted
  BY <1>1, <1>3 DEF AskInv
<1>8. exit = -1 BY <1>2, <1>3 DEF AskInv, Interior
<1>9. Judged <=> job.selfcheck /\ ~Bench!Generated BY <1>4 DEF Judged
<1>10. rows # <<>> /\ rows[Len(rows)].corpus = batch BY <1>3, <1>5 DEF DriftAt, Printed
<1>11. ~walk.drifted BY <1>3, <1>4 DEF DriftAt
<1>12. CASE job.selfcheck /\ ~Bench!Generated => batch.pinned
  <2>1. exit' = exit /\ doing' = IF walk.at + 1 < Units THEN "build" ELSE "finish" BY <1>1, <1>6, <1>12
  <2>2. PICK q : q = doing' OBVIOUS
  <2>3. q = (IF walk.at + 1 < Units THEN "build" ELSE "finish") /\ q \in {"build", "finish"}
    BY <2>1, <2>2
  <2>4. RowsInv' BY <1>1, <1>3, <1>7, <1>8, RowsStay
  <2>5. DriftAt(q)'
    <3>1. Judged' <=> Judged BY <1>1, JobFixes
    <3>2. Judged => \A i \in DOMAIN rows : rows[i].corpus.pinned
      <4>1. SUFFICES ASSUME Judged, NEW i \in DOMAIN rows PROVE rows[i].corpus.pinned OBVIOUS
      <4>2. batch.pinned BY <1>9, <1>12, <4>1
      <4>3. rows[i].corpus.pinned \/ rows[i].corpus = batch BY <1>3, <1>11, <4>1 DEF DriftAt
      <4> QED BY <4>2, <4>3
    <3>3. q \notin Printed BY <2>3 DEF Printed, KernelPlaces, ContextPlaces, TimingPlaces
    <3> QED BY <1>1, <1>7, <1>11, <2>3, <3>1, <3>2, <3>3 DEF DriftAt
  <2> QED BY <1>1, <1>2, <1>5, <1>7, <2>1, <2>2, <2>3, <2>4, <2>5, WalkOn
<1>13. CASE ~(job.selfcheck /\ ~Bench!Generated => batch.pinned)
  <2>1. doing' = "exited" /\ exit' = 1 BY <1>1, <1>13
  <2>2. Len(rows) \in DOMAIN rows BY <1>3, <1>10, SeqFacts
  <2>3. ~Pinned
    <3>1. Judged /\ ~batch.pinned BY <1>9, <1>13
    <3> QED BY <1>10, <2>2, <3>1 DEF Pinned
  <2>4. (Pinned' <=> Pinned) /\ WantedLen' = WantedLen
    <3>1. /\ Unit' = Unit /\ Units' = Units /\ (FrameJob' <=> FrameJob) /\ (SweepJob' <=> SweepJob)
          /\ (Judged' <=> Judged)
      BY <1>1, JobFixes
    <3> QED BY <1>1, <1>7, <3>1 DEF Pinned, WantedLen, Bench!Rungs
  <2>5. Len(rows) <= WantedLen
    <3>1. WantedLen = Units * Len(Unit) BY <1>5 DEF WantedLen, Plain
    <3>2. PICK u \in Nat, n \in Nat, a \in Nat : u = Units /\ n = Len(Unit) /\ a = walk.at
      BY <1>5, UnitsNat, UnitLen
    <3>3. PICK k \in Nat : u = (a + 1) + k
      <4>1. a + 1 <= u BY <1>5, <3>2
      <4>2. u - (a + 1) \in Nat /\ u = (a + 1) + (u - (a + 1)) BY <3>2, <4>1
      <4> QED BY <4>2
    <3>4. n * ((a + 1) + k) = n * (a + 1) + n * k
      <4>1. PICK b \in Nat : b = a + 1 BY <3>2
      <4>2. n * (b + k) = n * b + n * k BY <3>2, <3>3, Distrib
      <4> QED BY <4>1, <4>2
    <3>5. n * (a + 1) = (a + 1) * n /\ n * u = u * n /\ n * k \in Nat /\ (a + 1) * n \in Nat
      BY <3>2, <3>3, MulComm
    <3>6. PICK x \in Nat, y \in Nat : x = (a + 1) * n /\ y = n * k BY <3>5
    <3>7. u * n = x + y BY <3>3, <3>4, <3>5, <3>6
    <3> QED BY <1>5, <3>1, <3>2, <3>6, <3>7
  <2>6. ExitInv' BY <1>1, <2>1, <2>3, <2>4, <2>5 DEF ExitInv
  <2>7. ~FrameJob BY <1>5 DEF Plain
  <2> QED BY <1>1, <1>2, <1>5, <1>7, <2>1, <2>6, <2>7, HostLeaves DEF Between
<1> QED BY <1>12, <1>13

\* What holds of any job asked for holds of the next one too.
CountsKnown ==
  /\ job \in Asked => Units \in Nat \ {0} /\ Len(Unit) \in Nat \ {0}
  /\ job \in Asked /\ PointsInv /\ (FrameJob => batch \in Batches) => WantedLen \in Nat
LEMMA CountsNow == CountsKnown
BY UnitsNat, UnitLen, WantedNat DEF CountsKnown
LEMMA CountsNext == CountsKnown'
BY CountsNow, PTL

Formed ==
  /\ job \in Asked
  /\ job.bench \in {"lz4", "snappy"} => job.kernel = "chunk"
  /\ job.bench = "gdeflate" => job.kernel = "gdeflate" /\ job.generated \subseteq GDeflateFlags
  /\ job.bench # "gdeflate" => job.mode = ""

Unwalked == rows = <<>> /\ walk = [at |-> 0, drifted |-> FALSE, points |-> <<>>]
AskedNow ==
  /\ job \in Asked
  /\ job.bench \in {"lz4", "snappy"} => job.kernel = "chunk"
  /\ job.bench = "gdeflate" => job.kernel = "gdeflate" /\ job.generated \subseteq GDeflateFlags
  /\ job.bench # "gdeflate" => job.mode = ""
  /\ job.bench = "gdeflate" /\ doing # "options" /\ exit # 2 => job.mode \in GModes
Parted ==
  AskInv <=> /\ doing # "idle" => AskedNow
             /\ exit = -1 <=> doing # "exited"
             /\ doing \in {"idle", "options"} => Unwalked
             /\ DOMAIN walk = {"at", "drifted", "points"} /\ walk.at \in Nat
LEMMA AskParts == Parted
BY Zenon DEF Parted, AskInv, AskedNow, Unwalked
LEMMA AskPartsNext == Parted'
BY AskParts, PTL

ModeChosen == exit # 2 /\ job.bench = "gdeflate" => job.mode \in GModes
Started ==
  \/ doing' = "build" /\ exit' = exit
  \/ doing' = "exited" /\ exit' = 1 /\ job'.bench \in {"gdeflate", "zstd"}
  \/ doing' = "exited" /\ exit' = 2

\* The options are looked at, and a main begins or gives up.
LEMMA OptionsTaken ==
  ASSUME ReportInv, doing = "options", Formed',
         Started,
         ModeChosen',
         UNCHANGED <<walk, rows, trip, samples>>, UNCHANGED Bench!Rest
  PROVE  ReportInv'
<1>d. doing' \in {"build", "exited"} /\ (doing' = "build" => exit' = exit) /\ (doing' = "exited" => exit' \in {1, 2})
      /\ (exit' = 1 /\ doing' = "exited" => job'.bench \in {"gdeflate", "zstd"})
  BY DEF Started
<1>0. AskInv /\ SamplesInv /\ StreamInv /\ ContextInv BY DEF ReportInv
<1>a. exit = -1 /\ Unwalked /\ DOMAIN walk = {"at", "drifted", "points"} /\ walk.at \in Nat BY <1>0, AskParts DEF Parted
<1>1. exit = -1 /\ rows = <<>> /\ walk.at = 0 /\ ~walk.drifted /\ walk.points = <<>> BY <1>a DEF Unwalked
<1>2. DOMAIN rows = {} /\ Len(rows) = 0 /\ IsSeq(rows) /\ DOMAIN walk.points = {} /\ IsSeq(walk.points)
  BY <1>1, EmptyIs
<1>3. AskInv'
  <2>1. AskedNow' BY DEF AskedNow, Formed, ModeChosen
  <2>2. exit' = -1 <=> doing' # "exited" BY <1>d, <1>a
  <2>3. doing' \notin {"idle", "options"} BY <1>d
  <2>4. DOMAIN walk' = {"at", "drifted", "points"} /\ walk'.at \in Nat BY <1>a
  <2> QED BY <2>1, <2>2, <2>3, <2>4, AskPartsNext DEF Parted
<1>4. PlaceInv' BY <1>d DEF PlaceInv, PlacesOf
<1>5. CorpusInv'
  BY <1>d, <1>1 DEF CorpusInv, CorpusAt, FramePlaces, KernelPlaces, ContextPlaces, TimingPlaces, FrameJob
<1>6. PointsInv' BY <1>d, <1>2 DEF PointsInv, KernelPlaces, TimingPlaces
<1>7. SamplesInv' BY <1>d, <1>0, EmptyIs DEF SamplesInv, Between, TimedPlaces
<1>8. StreamInv' /\ ContextInv'
  <2>1. doing' \notin TimingPlaces \cup {"create", "untimed", "timed"} BY <1>d DEF TimingPlaces
  <2> QED BY <1>0, <2>1, HostStays
<1>9. NumbersInv' BY <1>d DEF NumbersInv, KernelPlaces, ContextPlaces, TimingPlaces
<1>10. RowsInv' BY <1>d, <1>2 DEF RowsInv
<1>11. ProgressInv'
  <2>1. Units' \in Nat \ {0} /\ Len(Unit') \in Nat \ {0} BY CountsNext DEF CountsKnown, Formed
  <2>2. At(0)'
    <3>1. PICK n \in Nat : n = Len(Unit') BY <2>1
    <3>2. Len(rows') = 0 * n + 0 BY <1>2, <3>1
    <3> QED BY <1>1, <2>1, <3>1, <3>2 DEF At
  <2>3. PlainProgress(doing)' BY <1>d, <2>2 DEF PlainProgress, KernelPlaces, ContextPlaces, TimingPlaces
  <2>4. SweepProgress(doing)' BY <1>d, <1>1 DEF SweepProgress, KernelPlaces, TimingPlaces
  <2>5. FrameProgress(doing)' BY <1>d, <1>1 DEF FrameProgress, FramePlaces
  <2> QED BY <2>3, <2>4, <2>5 DEF ProgressInv, ProgressAt
<1>12. DriftInv' BY <1>d, <1>1, <1>2 DEF DriftInv, DriftAt, Printed, KernelPlaces, ContextPlaces, TimingPlaces
<1>13. ExitInv'
  <2>1. CASE exit' = 1
    <3>1. ~FrameJob' BY <1>d, <1>1, <2>1 DEF FrameJob
    <3>2. WantedLen' \in Nat BY <1>6, <3>1, CountsNext DEF CountsKnown, Formed
    <3> QED BY <1>2, <2>1, <3>2 DEF ExitInv
  <2>2. CASE exit' # 1 BY <1>d, <1>1, <2>2 DEF ExitInv
  <2> QED BY <2>1, <2>2
<1> QED BY <1>3, <1>4, <1>5, <1>6, <1>7, <1>8, <1>9, <1>10, <1>11, <1>12, <1>13 DEF ReportInv

LEMMA BeginInv == ASSUME ReportInv, Bench!Begin PROVE ReportInv'
<1>0. /\ doing = "idle" /\ job' \in Jobs /\ doing' = "options"
      /\ UNCHANGED <<batch, walk, rows, exit, trip, samples>> /\ UNCHANGED Bench!Rest
  BY DEF Bench!Begin, Bench!GoOn
<1>1. AskInv /\ SamplesInv /\ StreamInv /\ ContextInv BY DEF ReportInv
<1>2. exit = -1 /\ rows = <<>> /\ walk.at = 0 /\ ~walk.drifted /\ walk.points = <<>> BY <1>0, <1>1 DEF AskInv
<1>3. DOMAIN rows = {} /\ IsSeq(rows) /\ DOMAIN walk.points = {} /\ IsSeq(walk.points)
  BY <1>2, EmptyIs
<1>4. Formed'
  <2>1. job' \in JobRecords BY <1>0, BenchAssumption
  <2>2. job' \in Asked BY <2>1 DEF JobRecords, Asked
  <2>3. job'.mode = "" BY <2>1 DEF JobRecords
  <2> QED BY <1>0, <2>2, <2>3, BenchAssumption DEF Formed
<1>5. AskInv' BY <1>0, <1>1, <1>2, <1>4 DEF AskInv, Formed
<1>6. PlaceInv' /\ CorpusInv' /\ NumbersInv' /\ ProgressInv'
  BY <1>0 DEF PlaceInv, CorpusInv, CorpusAt, NumbersInv, ProgressInv, ProgressAt, PlainProgress, SweepProgress,
              FrameProgress, KernelPlaces, ContextPlaces, TimingPlaces, FramePlaces
<1>7. PointsInv' BY <1>0, <1>2, <1>3 DEF PointsInv, KernelPlaces, TimingPlaces
<1>8. SamplesInv' BY <1>0, <1>1, EmptyIs DEF SamplesInv, Between, TimedPlaces
<1>9. StreamInv' /\ ContextInv'
  <2>1. doing' \notin TimingPlaces \cup {"create", "untimed", "timed"} BY <1>0 DEF TimingPlaces
  <2> QED BY <1>0, <1>1, <2>1, HostStays
<1>10. RowsInv' BY <1>0, <1>3 DEF RowsInv
<1>11. DriftInv' BY <1>0, <1>2, <1>3 DEF DriftInv, DriftAt, Printed, KernelPlaces, ContextPlaces, TimingPlaces
<1>12. ExitInv' BY <1>0, <1>2 DEF ExitInv
<1> QED BY <1>5, <1>6, <1>7, <1>8, <1>9, <1>10, <1>11, <1>12 DEF ReportInv

\* A main may change the counts of a job, and the mode of a GDeflate one.
LEMMA Recounted ==
  ASSUME NEW j \in Asked, NEW w \in Nat, NEW r \in Nat \ {0}
  PROVE  /\ [j EXCEPT !.warmup = w, !.runs = r] \in Asked
         /\ \A m \in GModes : [j EXCEPT !.mode = m, !.warmup = w, !.runs = r] \in Asked
BY DEF Asked

LEMMA AcceptForms ==
  ASSUME Formed, Bench!Accept PROVE Formed' /\ job'.bench = job.bench
<1>1. SelfcheckWarmup \in Nat /\ SelfcheckRuns \in Nat \ {0} BY BenchAssumption
<1>2. job' = job \/ job' = [job EXCEPT !.warmup = SelfcheckWarmup, !.runs = SelfcheckRuns]
  BY DEF Bench!Accept
<1>3. CASE job' = job BY <1>3 DEF Formed
<1>4. CASE job' = [job EXCEPT !.warmup = SelfcheckWarmup, !.runs = SelfcheckRuns]
  <2>1. job' \in Asked BY <1>1, <1>4, Recounted DEF Formed
  <2>2. job'.bench = job.bench /\ job'.kernel = job.kernel /\ job'.generated = job.generated /\ job'.mode = job.mode
    BY <1>4 DEF Formed, Asked
  <2> QED BY <2>1, <2>2 DEF Formed
<1> QED BY <1>2, <1>3, <1>4

LEMMA StreamOptionsInv ==
  ASSUME ReportInv, Bench!Options \/ Bench!SnappyOptions PROVE ReportInv'
<1>1. /\ doing = "options" /\ job.bench \in {"lz4", "snappy"}
      /\ UNCHANGED <<walk, rows, trip, samples>> /\ UNCHANGED Bench!Rest
      /\ (exit' = 2 /\ doing' = "exited" /\ job' = job) \/ Bench!Accept
  <2>1. CASE Bench!Options BY <2>1 DEF Bench!Options, Bench!Exit
  <2>2. CASE Bench!SnappyOptions BY <2>2 DEF Bench!SnappyOptions, Bench!Exit
  <2> QED BY <2>1, <2>2
<1>2. Formed BY <1>1 DEF ReportInv, AskInv, Formed
<1>3. CASE Bench!Accept
  <2>1. doing' = "build" /\ exit' = exit BY <1>3 DEF Bench!Accept, Bench!GoOn
  <2>2. Formed' /\ job'.bench # "gdeflate" BY <1>1, <1>2, <1>3, AcceptForms
  <2>3. ModeChosen' BY <2>2 DEF ModeChosen
  <2> QED BY <1>1, <2>1, <2>2, <2>3, OptionsTaken DEF Started
<1>4. CASE exit' = 2 /\ doing' = "exited" /\ job' = job
  <2>1. Formed' /\ ModeChosen' BY <1>2, <1>4 DEF Formed, ModeChosen
  <2> QED BY <1>1, <1>4, <2>1, OptionsTaken DEF Started
<1> QED BY <1>1, <1>3, <1>4

LEMMA ZstdOptionsInv ==
  ASSUME ReportInv, Bench!ZstdOptions PROVE ReportInv'
<1>1. /\ doing = "options" /\ job.bench = "zstd"
      /\ UNCHANGED <<walk, rows, trip, samples>> /\ UNCHANGED Bench!Rest
  BY DEF Bench!ZstdOptions
<1>2. \/ exit' = 2 /\ doing' = "exited" /\ job' = job
      \/ /\ job' = [job EXCEPT !.warmup = 0, !.runs = 1] \/ job' = job
         /\ (doing' = "build" /\ exit' = exit) \/ (doing' = "exited" /\ exit' = 1)
  <2>1. CASE Bench!ZstdRefused BY <2>1 DEF Bench!ZstdOptions, Bench!Exit
  <2>2. CASE ~Bench!ZstdRefused
    <3>1. job' = [job EXCEPT !.warmup = 0, !.runs = 1] \/ job' = job BY <2>2 DEF Bench!ZstdOptions
    <3>2. PICK readable : Bench!ExitUnless(readable, "build") BY <2>2 DEF Bench!ZstdOptions
    <3>3. (doing' = "build" /\ exit' = exit) \/ (doing' = "exited" /\ exit' = 1)
      BY <3>2 DEF Bench!ExitUnless, Bench!GoOn, Bench!Exit
    <3> QED BY <3>1, <3>3
  <2> QED BY <2>1, <2>2
<1>3. Formed BY <1>1 DEF ReportInv, AskInv, Formed
<1>4. Formed' /\ job'.bench = "zstd"
  <2>1. CASE job' = job BY <1>1, <1>3, <2>1 DEF Formed
  <2>2. CASE job' = [job EXCEPT !.warmup = 0, !.runs = 1]
    <3>a. PICK w \in Nat, r \in Nat \ {0} : w = 0 /\ r = 1 OBVIOUS
    <3>b. [job EXCEPT !.warmup = w, !.runs = r] \in Asked BY <1>3, Recounted DEF Formed
    <3>1. job' \in Asked BY <2>2, <3>a, <3>b
    <3>2. job'.bench = job.bench /\ job'.kernel = job.kernel /\ job'.generated = job.generated /\ job'.mode = job.mode
      BY <1>3, <2>2 DEF Formed, Asked
    <3> QED BY <1>1, <1>3, <3>1, <3>2 DEF Formed
  <2> QED BY <1>2, <2>1, <2>2
<1>5. ModeChosen' BY <1>4 DEF ModeChosen
<1> QED BY <1>1, <1>2, <1>4, <1>5, OptionsTaken DEF Started

LEMMA GDeflateOptionsInv ==
  ASSUME ReportInv, Bench!GDeflateOptions PROVE ReportInv'
<1>1. /\ doing = "options" /\ job.bench = "gdeflate"
      /\ UNCHANGED <<walk, rows, trip, samples>> /\ UNCHANGED Bench!Rest
  BY DEF Bench!GDeflateOptions
<1>3. Formed BY <1>1 DEF ReportInv, AskInv, Formed
<1>4. Bench!ModeOf \in GModes
  <2>1. Bench!Modes \subseteq GDeflateFlags \ {"assetlike"} BY <1>1, <1>3 DEF Formed, Bench!Modes
  <2>2. Bench!Modes # {} => (CHOOSE m \in Bench!Modes : TRUE) \in Bench!Modes OBVIOUS
  <2> QED BY <2>1, <2>2 DEF Bench!ModeOf, GModes
<1>5. CASE Bench!GDeflateRefused \/ (Bench!NeedsFiles /\ ~job.files)
  <2>1. exit' = 2 /\ doing' = "exited" /\ job' = job BY <1>5 DEF Bench!GDeflateOptions, Bench!Exit
  <2>2. Formed' /\ ModeChosen' BY <1>3, <2>1 DEF Formed, ModeChosen
  <2> QED BY <1>1, <2>1, <2>2, OptionsTaken DEF Started
<1>6. CASE ~(Bench!GDeflateRefused \/ (Bench!NeedsFiles /\ ~job.files))
  <2>1. job' = [job EXCEPT !.mode = Bench!ModeOf, !.warmup = IF job.selfcheck THEN 0 ELSE @,
                           !.runs = IF job.selfcheck THEN 1 ELSE @]
    BY <1>6 DEF Bench!GDeflateOptions
  <2>2. PICK readable : Bench!ExitUnless(readable, "build") BY <1>6 DEF Bench!GDeflateOptions
  <2>3. (doing' = "build" /\ exit' = exit) \/ (doing' = "exited" /\ exit' = 1)
    BY <2>2 DEF Bench!ExitUnless, Bench!GoOn, Bench!Exit
  <2>4. PICK w \in Nat, r \in Nat \ {0} : w = (IF job.selfcheck THEN 0 ELSE job.warmup)
                                       /\ r = (IF job.selfcheck THEN 1 ELSE job.runs)
    <3>1. (IF job.selfcheck THEN 0 ELSE job.warmup) \in Nat
      BY <1>3, AskedFacts DEF Formed
    <3>2. (IF job.selfcheck THEN 1 ELSE job.runs) \in Nat \ {0}
      <4>a. job \in Asked BY <1>3 DEF Formed
      <4>b. job.runs \in Nat \ {0} BY <4>a, AskedFacts
      <4>1. job.runs \in Nat \ {0} /\ 1 \in Nat \ {0} BY <4>b
      <4>2. CASE job.selfcheck BY <4>1, <4>2
      <4>3. CASE ~job.selfcheck BY <4>1, <4>3
      <4> QED BY <4>2, <4>3
    <3> QED BY <3>1, <3>2
  <2>5. PICK m \in GModes : m = Bench!ModeOf BY <1>4
  <2>6. job' = [job EXCEPT !.mode = m, !.warmup = w, !.runs = r]
    BY <1>3, <2>1, <2>4, <2>5 DEF Formed, Asked
  <2>7. job' \in Asked BY <1>3, <2>6, Recounted DEF Formed
  <2>8. job'.bench = job.bench /\ job'.kernel = job.kernel /\ job'.generated = job.generated /\ job'.mode = m
    BY <1>3, <2>6 DEF Formed, Asked
  <2>9. Formed' BY <1>1, <1>3, <2>7, <2>8 DEF Formed
  <2>10. ModeChosen' BY <2>5, <2>8 DEF ModeChosen
  <2>11. job'.bench \in {"gdeflate", "zstd"} BY <1>1, <2>8
  <2> QED BY <1>1, <2>3, <2>9, <2>10, <2>11, OptionsTaken DEF Started
<1> QED BY <1>5, <1>6

BuildNext == {"rung", "verify", "cpu_warmup", "count", "census", "residency"}
\* What is known of a corpus that is taken.
AdmittedAt(q, b) ==
  /\ Shaped(b)
  /\ q \notin {"verify", "rung"} => Gated(b)
  /\ q = "rung" <=> FrameJob
  /\ q = "residency" <=> SweepJob
  /\ q = "verify" => b.chunks # <<>>
  /\ q \in {"count", "census"} => Bench!Decoded(b)
  /\ SweepJob /\ job.selfcheck => b.pinned

\* A corpus is built and taken.
LEMMA BuildStays ==
  ASSUME ReportInv, doing = "build", NEW b \in Batches, batch' = b,
         UNCHANGED <<job, walk, rows, exit, trip, samples>>, UNCHANGED Bench!Rest,
         NEW q, doing' = q, q \in PlacesOf, q \in BuildNext, AdmittedAt(q, b)
  PROVE  ReportInv'
<1>0. /\ AskInv /\ PlaceInv /\ CorpusInv /\ PointsInv /\ SamplesInv /\ ContextInv /\ StreamInv
      /\ NumbersInv /\ RowsInv /\ ProgressInv /\ DriftInv /\ ExitInv
  BY DEF ReportInv
<1>q. /\ q \notin {"idle", "options", "exited", "build", "finish", "measured", "untimed", "timed", "create", "failed"}
      /\ q \notin KernelPlaces \cup ContextPlaces \cup TimingPlaces \cup FramePlaces \cup Printed
  BY DEF BuildNext, KernelPlaces, ContextPlaces, TimingPlaces, FramePlaces, Printed
<1>1. job' = job /\ walk' = walk /\ rows' = rows /\ exit' = exit /\ trip' = trip /\ samples' = samples OBVIOUS
<1>a. exit = -1 /\ DOMAIN walk = {"at", "drifted", "points"} /\ walk.at \in Nat BY <1>0, AskParts DEF Parted
<1>j. /\ Unit' = Unit /\ Units' = Units
      /\ (FrameJob' <=> FrameJob) /\ (SweepJob' <=> SweepJob) /\ (Plain' <=> Plain)
      /\ (Judged' <=> Judged)
  BY <1>1, JobFixes
<1>2. AskInv' BY <1>0, <1>1, <1>a, <1>q, AskStays
<1>3. PlaceInv'
  <2>1. PlacesOf' = PlacesOf BY <1>1, SamePlaces
  <2> QED BY <2>1 DEF PlaceInv
<1>4. CorpusInv'
  <2>1. Shaped(batch)' BY <1>1 DEF AdmittedAt, Shaped, Bench!Generated
  <2>2. q \notin {"verify", "rung"} => Gated(batch)' BY DEF AdmittedAt, Gated, Bench!RoundTrips
  <2>3. q \in {"count", "census"} => Bench!Decoded(batch)' BY DEF AdmittedAt, Bench!Decoded
  <2>4. q = "verify" => batch'.chunks # <<>> BY DEF AdmittedAt
  <2>5. q = "rung" => FrameJob' BY <1>j DEF AdmittedAt
  <2>6. SweepJob' /\ job'.selfcheck => batch'.pinned BY <1>1, <1>j DEF AdmittedAt
  <2>7. batch' \in Batches OBVIOUS
  <2>8. q \notin {"exited"} /\ q \notin FramePlaces \ {"frame_verify"}
        /\ q \notin ((KernelPlaces \cup ContextPlaces) \ Unverified) \cup {"measured"}
    BY <1>q
  <2> QED BY <2>1, <2>2, <2>3, <2>4, <2>5, <2>6, <2>7, <2>8 DEF CorpusInv, CorpusAt
<1>5. PointsInv' BY <1>0, <1>1, <1>q, PointsStay
<1>6. SamplesInv'
  <2>1. samples = <<>> /\ trip = 0 BY <1>0 DEF SamplesInv, Between
  <2>2. samples' = <<>> /\ trip' = 0 BY <1>1, <2>1
  <2>3. q \notin {"cpu_run", "frame_run", "report", "frame_report", "median", "context_median"}
        /\ q \notin TimedPlaces \cup {"create", "timed"}
    BY <1>q DEF TimedPlaces, TimingPlaces, BuildNext
  <2> QED BY <2>2, <2>3, EmptyIs DEF SamplesInv
<1>7. StreamInv' /\ ContextInv' BY <1>0, <1>q, HostStays
<1>8. NumbersInv' BY <1>q DEF NumbersInv
<1>9. RowsInv' BY <1>0, <1>1, <1>a, RowsStay
<1>10. ProgressInv'
  <2>1. CASE Plain
    <3>1. At(0)
      <4>1. ProgressAt("build") BY <1>0 DEF ProgressInv
      <4>2. PlainProgress("build") BY <2>1, <4>1 DEF ProgressAt
      <4> QED BY <4>2 DEF PlainProgress
    <3>2. At(0)' BY <1>1, <1>j, <3>1 DEF At
    <3>3. q \in {"verify", "cpu_warmup", "count", "census"}
      BY <2>1 DEF AdmittedAt, BuildNext, Plain
    <3>4. PlainProgress(doing)' BY <1>q, <3>2, <3>3 DEF PlainProgress
    <3>5. ~SweepJob' /\ ~FrameJob' BY <1>j, <2>1 DEF Plain
    <3> QED BY <3>4, <3>5 DEF ProgressInv, ProgressAt
  <2>2. CASE SweepJob
    <3>1. rows = <<>>
      <4>1. ProgressAt("build") BY <1>0 DEF ProgressInv
      <4>2. SweepProgress("build") BY <2>2, <4>1 DEF ProgressAt
      <4> QED BY <4>2 DEF SweepProgress
    <3>2. q = "residency" BY <2>2 DEF AdmittedAt
    <3>3. SweepProgress(doing)' BY <1>1, <3>1, <3>2 DEF SweepProgress
    <3>4. ~Plain' /\ ~FrameJob' BY <1>j, <2>2 DEF Plain, SweepJob, FrameJob
    <3> QED BY <3>3, <3>4 DEF ProgressInv, ProgressAt
  <2>3. CASE FrameJob
    <3>1. rows = <<>>
      <4>1. ProgressAt("build") BY <1>0 DEF ProgressInv
      <4>2. FrameProgress("build") BY <2>3, <4>1 DEF ProgressAt
      <4> QED BY <4>2 DEF FrameProgress
    <3>2. q = "rung" BY <2>3 DEF AdmittedAt
    <3>3. PICK n \in Nat : n = Len(b.rungs) BY RungsAre
    <3>4. Len(rows') <= Bench!Rungs' BY <1>1, <3>1, <3>3, EmptyIs DEF Bench!Rungs
    <3>5. FrameProgress(doing)' BY <3>2, <3>4 DEF FrameProgress, FramePlaces
    <3>6. ~Plain' /\ ~SweepJob' BY <1>j, <2>3 DEF Plain, SweepJob, FrameJob
    <3> QED BY <3>5, <3>6 DEF ProgressInv, ProgressAt
  <2> QED BY <2>1, <2>2, <2>3 DEF Plain
<1>11. DriftInv'
  <2>1. DriftAt("build") BY <1>0 DEF DriftInv
  <2>2. /\ walk.drifted => job.bench \in {"gdeflate", "zstd"}
        /\ walk.drifted => Judged /\ (job.mode = "blockmix" \/ \E i \in DOMAIN rows : ~rows[i].corpus.pinned)
        /\ Judged /\ ~walk.drifted => \A i \in DOMAIN rows : rows[i].corpus.pinned
    BY <2>1 DEF DriftAt
  <2>3. q \notin Printed BY <1>q
  <2> QED BY <1>1, <1>j, <2>2, <2>3 DEF DriftInv, DriftAt
<1>12. ExitInv' BY <1>1, <1>a, ExitStays
<1> QED BY <1>2, <1>3, <1>4, <1>5, <1>6, <1>7, <1>8, <1>9, <1>10, <1>11, <1>12 DEF ReportInv

LEMMA BuildFails ==
  ASSUME ReportInv, doing = "build", NEW b \in Batches, batch' = b, doing' = "exited", exit' = 1,
         UNCHANGED <<job, walk, rows, trip, samples>>, UNCHANGED Bench!Rest
  PROVE  ReportInv'
<1>0. AskInv /\ PointsInv /\ ProgressInv BY DEF ReportInv
<1>1. job' = job /\ walk' = walk /\ rows' = rows OBVIOUS
<1>2. job \in Asked /\ walk.at \in Nat BY <1>0, AskParts DEF Parted, AskedNow
<1>3. ProgressAt("build") BY <1>0 DEF ProgressInv
<1>4. ExitInv'
  <2>1. CASE Plain
    <3>1. PlainProgress("build") BY <2>1, <1>3 DEF ProgressAt
    <3>2. At(0) BY <3>1 DEF PlainProgress
    <3>3. PICK d \in Nat : d = 0 OBVIOUS
    <3>4. d < Len(Unit) BY <1>2, <3>3, UnitLen
    <3>5. Short BY <1>2, <2>1, <3>2, <3>3, <3>4, ShortOfWanted
    <3> QED BY <2>1, <3>5, <1>1, ExitsShort DEF Plain
  <2>2. CASE SweepJob
    <3>1. SweepProgress("build") BY <2>2, <1>3 DEF ProgressAt
    <3>2. rows = <<>> BY <3>1 DEF SweepProgress
    <3>3. ~FrameJob BY <2>2 DEF FrameJob, SweepJob
    <3>4. WantedLen \in Nat BY <1>0, <1>2, <3>3, WantedNat
    <3>5. Short BY <3>2, <3>4, EmptyIs DEF Short
    <3> QED BY <3>3, <3>5, <1>1, ExitsShort
  <2>3. CASE FrameJob
    <3>1. FrameProgress("build") BY <2>3, <1>3 DEF ProgressAt
    <3>2. rows = <<>> BY <3>1 DEF FrameProgress
    <3>3. PICK n \in Nat \ {0} : n = Len(b.rungs) BY RungsAre
    <3>4. FrameJob' BY <1>1, <2>3, JobFixes
    <3>5. WantedLen' = n BY <3>3, <3>4 DEF WantedLen, Bench!Rungs
    <3>6. Len(rows') = 0 BY <1>1, <3>2, EmptyIs
    <3> QED BY <3>5, <3>6 DEF ExitInv
  <2> QED BY <2>1, <2>2, <2>3 DEF Plain
<1>5. Interior(doing) /\ doing \notin {"untimed", "timed"} BY DEF Interior
<1> QED BY <1>1, <1>4, <1>5, HostExits

\* Every build of the four mains is one or the other.
Building(q, b) ==
  /\ doing = "build" /\ batch' = b /\ job.bench \in {"lz4", "snappy", "gdeflate", "zstd"}
  /\ UNCHANGED <<job, walk, rows, trip, samples>> /\ UNCHANGED Bench!Rest
  /\ \/ doing' = q /\ exit' = exit /\ q \in PlacesOf /\ q \in BuildNext /\ AdmittedAt(q, b)
     \/ doing' = "exited" /\ exit' = 1
LEMMA Builds ==
  ASSUME ReportInv, NEW q, NEW b \in Batches, Building(q, b) PROVE ReportInv'
<1>1. /\ doing = "build" /\ batch' = b
      /\ UNCHANGED <<job, walk, rows, trip, samples>> /\ UNCHANGED Bench!Rest
  BY DEF Building
<1>2. CASE doing' = q /\ exit' = exit /\ q \in PlacesOf /\ q \in BuildNext /\ AdmittedAt(q, b)
  BY <1>1, <1>2, BuildStays
<1>3. CASE doing' = "exited" /\ exit' = 1 BY <1>1, <1>3, BuildFails
<1> QED BY <1>2, <1>3 DEF Building

LEMMA Lz4BuildInv == ASSUME ReportInv, Bench!Build PROVE ReportInv'
<1>0. AskInv BY DEF ReportInv
<1>1. PICK b \in Batches : batch' = b /\ Bench!ExitUnless(Bench!Built(b), IF job.frame THEN "rung" ELSE "verify")
  BY DEF Bench!Build
<1>2. doing = "build" /\ job.bench = "lz4" /\ UNCHANGED <<job, walk, rows, trip, samples>> /\ UNCHANGED Bench!Rest
  BY DEF Bench!Build
<1>3. job \in Asked /\ job.mode = "" BY <1>0, <1>2, AskParts DEF Parted, AskedNow
<1>f. job.frame \in BOOLEAN BY <1>3, AskedFacts
<1>4. PICK q : q = IF job.frame THEN "rung" ELSE "verify" OBVIOUS
<1>5. CASE Bench!Built(b)
  <2>1. doing' = q /\ exit' = exit BY <1>1, <1>4, <1>5 DEF Bench!ExitUnless, Bench!GoOn
  <2>2. b.chunks # <<>> /\ (Bench!Generated => b.in_shape) BY <1>5 DEF Bench!Built
  <2>3. Shaped(b) BY <1>2, <1>3, <2>2 DEF Shaped
  <2>4. q \in PlacesOf /\ q \in BuildNext
    <3>1. CASE job.frame
      <4>1. q = "rung" /\ FrameJob BY <1>2, <1>4, <3>1 DEF FrameJob
      <4> QED BY <4>1, <1>3, PlacesAre DEF BuildNext
    <3>2. CASE ~job.frame
      <4>1. q = "verify" BY <1>4, <3>2
      <4>2. "verify" \in PlacesOf BY <1>2, <1>3, <3>2, PlacesAre
      <4> QED BY <4>1, <4>2 DEF BuildNext
    <3> QED BY <3>1, <3>2
  <2>5. AdmittedAt(q, b)
    <3>1. q = "rung" <=> FrameJob BY <1>2, <1>4, <1>f DEF FrameJob
    <3>2. ~SweepJob /\ q \in {"rung", "verify"} BY <1>2, <1>4 DEF SweepJob
    <3> QED BY <2>2, <2>3, <3>1, <3>2 DEF AdmittedAt
  <2> QED BY <1>1, <1>2, <2>1, <2>4, <2>5, Builds DEF Building
<1>6. CASE ~Bench!Built(b)
  <2>1. doing' = "exited" /\ exit' = 1 BY <1>1, <1>6 DEF Bench!ExitUnless, Bench!Exit
  <2> QED BY <1>1, <1>2, <2>1, Builds DEF Building
<1> QED BY <1>5, <1>6

LEMMA SnappyBuildInv == ASSUME ReportInv, Bench!SnappyBuild PROVE ReportInv'
<1>0. AskInv BY DEF ReportInv
<1>1. PICK b \in Batches : batch' = b /\ Bench!ExitUnless(Bench!ShapeBuilt(b) /\ Bench!ShapeVerified(b), "cpu_warmup")
  BY DEF Bench!SnappyBuild
<1>2. doing = "build" /\ job.bench = "snappy" /\ UNCHANGED <<job, walk, rows, trip, samples>> /\ UNCHANGED Bench!Rest
  BY DEF Bench!SnappyBuild
<1>3. job \in Asked /\ job.mode = "" BY <1>0, <1>2, AskParts DEF Parted, AskedNow
<1>5. CASE Bench!ShapeBuilt(b) /\ Bench!ShapeVerified(b)
  <2>1. doing' = "cpu_warmup" /\ exit' = exit BY <1>1, <1>5 DEF Bench!ExitUnless, Bench!GoOn
  <2>2. Gated(b) /\ (Bench!Generated => b.in_shape)
    BY <1>5 DEF Bench!ShapeBuilt, Bench!ShapeVerified, Gated
  <2>3. Shaped(b) BY <1>2, <1>3, <2>2 DEF Shaped
  <2>4. "cpu_warmup" \in PlacesOf BY <1>2, <1>3, PlacesAre DEF CpuPlaces
  <2>5. AdmittedAt("cpu_warmup", b)
    BY <1>2, <2>2, <2>3 DEF AdmittedAt, FrameJob, SweepJob
  <2>6. "cpu_warmup" \in BuildNext BY DEF BuildNext
  <2> QED BY <1>1, <1>2, <2>1, <2>4, <2>5, <2>6, Builds DEF Building
<1>6. CASE ~(Bench!ShapeBuilt(b) /\ Bench!ShapeVerified(b))
  <2>1. doing' = "exited" /\ exit' = 1 BY <1>1, <1>6 DEF Bench!ExitUnless, Bench!Exit
  <2> QED BY <1>1, <1>2, <2>1, Builds DEF Building
<1> QED BY <1>5, <1>6

LEMMA ZstdBuildInv == ASSUME ReportInv, Bench!ZstdBuild PROVE ReportInv'
<1>0. AskInv BY DEF ReportInv
<1>1. PICK b \in Batches :
        batch' = b /\ Bench!ExitUnless(Bench!ZstdAdmitted(b), IF Bench!Counted THEN "count" ELSE "cpu_warmup")
  BY DEF Bench!ZstdBuild
<1>2. doing = "build" /\ job.bench = "zstd" /\ UNCHANGED <<job, walk, rows, trip, samples>> /\ UNCHANGED Bench!Rest
  BY DEF Bench!ZstdBuild
<1>3. job \in Asked /\ job.mode = "" BY <1>0, <1>2, AskParts DEF Parted, AskedNow
<1>4. PICK q : q = IF Bench!Counted THEN "count" ELSE "cpu_warmup" OBVIOUS
<1>q. q \in {"count", "cpu_warmup"} /\ (q = "count" <=> Bench!Counted) BY <1>4
<1>5. CASE Bench!ZstdAdmitted(b)
  <2>1. doing' = q /\ exit' = exit BY <1>1, <1>4, <1>5 DEF Bench!ExitUnless, Bench!GoOn
  <2>2. Gated(b) /\ (Bench!Generated => b.in_shape) /\ (Bench!Counted => Bench!Decoded(b))
    BY <1>5 DEF Bench!ZstdAdmitted, Bench!Reconstructs, Bench!Accounted, Gated
  <2>3. Shaped(b) BY <1>2, <1>3, <2>2 DEF Shaped
  <2>4. q \in PlacesOf BY <1>2, <1>3, <1>q, PlacesAre DEF CpuPlaces
  <2>5. AdmittedAt(q, b)
    BY <1>2, <1>q, <2>2, <2>3 DEF AdmittedAt, FrameJob, SweepJob
  <2>6. q \in BuildNext BY <1>q DEF BuildNext
  <2> QED BY <1>1, <1>2, <2>1, <2>4, <2>5, <2>6, Builds DEF Building
<1>6. CASE ~Bench!ZstdAdmitted(b)
  <2>1. doing' = "exited" /\ exit' = 1 BY <1>1, <1>6 DEF Bench!ExitUnless, Bench!Exit
  <2> QED BY <1>1, <1>2, <2>1, Builds DEF Building
<1> QED BY <1>5, <1>6

LEMMA GDeflateBuildInv == ASSUME ReportInv, Bench!GDeflateBuild PROVE ReportInv'
<1>0. AskInv BY DEF ReportInv
<1>4. PICK q : q = CASE job.mode = "blockmix" -> "census" [] job.mode = "tailwaste" -> "residency"
                     [] OTHER -> "cpu_warmup"
  OBVIOUS
<1>1. PICK b \in Batches : batch' = b /\ Bench!ExitUnless(Bench!Admitted(b), q)
  BY <1>4 DEF Bench!GDeflateBuild
<1>2. doing = "build" /\ job.bench = "gdeflate" /\ UNCHANGED <<job, walk, rows, trip, samples>> /\ UNCHANGED Bench!Rest
  BY DEF Bench!GDeflateBuild
<1>3. job \in Asked /\ job.mode \in GModes BY <1>0, <1>2, AskParts DEF Parted, AskedNow
<1>q. /\ q = "census" <=> job.mode = "blockmix"
      /\ q = "residency" <=> job.mode = "tailwaste"
      /\ q \in {"census", "residency", "cpu_warmup"}
  BY <1>4
<1>5. CASE Bench!Admitted(b)
  <2>1. doing' = q /\ exit' = exit BY <1>1, <1>5 DEF Bench!ExitUnless, Bench!GoOn
  <2>2. /\ Gated(b)
        /\ Bench!Worst \/ job.mode = "blocktypes" => b.in_shape
        /\ Bench!Worst \/ job.mode = "blockmix" => Bench!Decoded(b)
        /\ Bench!Worst \/ (job.mode = "tailwaste" /\ job.selfcheck) => b.pinned
    BY <1>5 DEF Bench!Admitted, Gated
  <2>3. Shaped(b) BY <1>2, <2>2 DEF Shaped, Bench!Worst
  <2>4. q \in PlacesOf
    <3>1. CASE job.mode = "blockmix" BY <1>2, <1>3, <1>q, <3>1, PlacesAre
    <3>2. CASE SweepJob BY <1>q, <1>3, <3>2, PlacesAre DEF SweepJob
    <3>3. CASE job.mode \notin {"blockmix", "tailwaste"}
      <4>1. q = "cpu_warmup" BY <1>q, <3>3
      <4> QED BY <1>2, <1>3, <3>3, <4>1, PlacesAre DEF CpuPlaces
    <3> QED BY <1>2, <3>1, <3>2, <3>3 DEF SweepJob
  <2>5. AdmittedAt(q, b)
    <3>1. ~FrameJob /\ q # "rung" BY <1>2, <1>q DEF FrameJob
    <3>2. q = "residency" <=> SweepJob BY <1>2, <1>q DEF SweepJob
    <3>3. q \in {"count", "census"} => Bench!Decoded(b) BY <1>q, <2>2
    <3>4. SweepJob /\ job.selfcheck => b.pinned BY <2>2 DEF SweepJob
    <3>5. q # "verify" BY <1>q
    <3> QED BY <2>2, <2>3, <3>1, <3>2, <3>3, <3>4, <3>5 DEF AdmittedAt
  <2>6. q \in BuildNext BY <1>q DEF BuildNext
  <2> QED BY <1>1, <1>2, <2>1, <2>4, <2>5, <2>6, Builds DEF Building
<1>6. CASE ~Bench!Admitted(b)
  <2>1. doing' = "exited" /\ exit' = 1 BY <1>1, <1>6 DEF Bench!ExitUnless, Bench!Exit
  <2> QED BY <1>1, <1>2, <2>1, Builds DEF Building
<1> QED BY <1>5, <1>6

\* The points of both sweeps: there are some, and each is of a grid below the index limit.
LEMMA SweepFits ==
  ASSUME batch \in Batches, batch.chunks # <<>>, NEW resident \in Residents
  PROVE  /\ Bench!SweepPoints(resident) # <<>> /\ IsSeq(Bench!SweepPoints(resident))
         /\ \A i \in DOMAIN Bench!SweepPoints(resident) : Fits(Bench!SweepPoints(resident)[i])
<1>1. PICK n \in Nat \ {0} : n = Bench!Pages BY PagesNat
<1>2. resident \in Nat /\ resident * BlockWarps \in Nat /\ StepShare \in Nat \ {0}
  BY BenchConsts, GridConsts, MulComm
<1>3. PICK apart \in Nat \ {0} :
        /\ apart = (LET share == (resident * BlockWarps) \div StepShare
                    IN IF share \in 1..n THEN share ELSE n)
        /\ apart <= n
  BY <1>1, <1>2
<1>4. PICK k \in Nat \ {0} : k = n \div apart
  <2>1. PICK d \in Nat : d = n \div apart BY <1>1, <1>3, DivMod
  <2>2. n = apart * d + (n % apart) /\ n % apart \in 0..apart - 1 BY <1>1, <1>3, <2>1, DivMod, ModRange
  <2>3. d # 0
    <3>1. SUFFICES ASSUME d = 0 PROVE FALSE OBVIOUS
    <3>2. apart * 0 = 0 BY <1>3
    <3>3. n = n % apart BY <1>3, <2>2, <3>1, <3>2
    <3> QED BY <1>1, <1>3, <2>2, <3>3
  <2> QED BY <2>1, <2>3
<1>d. PICK t \in Nat : t = Grid!BlockThreads(kCudaWaveSize) BY GridConsts, MulComm DEF Grid!BlockThreads
<1>5. PICK f \in Seq(Point) :
        /\ f = [i \in DOMAIN kTailwasteGridMultiples |->
                 [pages |-> n, blocks |-> kTailwasteGridMultiples[i] * resident]]
        /\ \A i \in DOMAIN f : Fits(f[i])
  <2>1. PICK s \in Seq(Nat) : s = kTailwasteGridMultiples BY BenchConsts
  <2>2. DOMAIN s = 1..Len(s) /\ Len(s) \in Nat /\ \A i \in 1..Len(s) : s[i] \in Nat OBVIOUS
  <2>3. \A i \in 1..Len(s) : [pages |-> n, blocks |-> s[i] * resident] \in Point
    BY <1>2, <2>2, MulComm DEF Point
  <2>4. [i \in 1..Len(s) |-> [pages |-> n, blocks |-> s[i] * resident]] \in [1..Len(s) -> Point]
    BY <2>3
  <2>5. [i \in 1..Len(s) |-> [pages |-> n, blocks |-> s[i] * resident]] \in Seq(Point)
    BY <2>2, <2>4, FunSeq
  <2>6. \A i \in 1..Len(s) : Fits([pages |-> n, blocks |-> s[i] * resident])
    <3> SUFFICES ASSUME NEW i \in 1..Len(s) PROVE Fits([pages |-> n, blocks |-> s[i] * resident]) OBVIOUS
    <3>1. (s[i] * resident) * t <= IndexLimit
      BY <1>d, <2>1, <2>2, GridAssumption DEF Grid!BlockThreads
    <3> QED BY <1>d, <2>3, <3>1 DEF Fits
  <2> QED BY <2>1, <2>2, <2>5, <2>6
<1>6. PICK g \in Seq(Point) :
        /\ g = [i \in 1..k |-> [pages |-> i * apart, blocks |-> 0]]
        /\ DOMAIN g = 1..k /\ \A i \in DOMAIN g : Fits(g[i])
  <2>1. \A i \in 1..k : [pages |-> i * apart, blocks |-> 0] \in Point BY <1>3, MulComm DEF Point
  <2>2. [i \in 1..k |-> [pages |-> i * apart, blocks |-> 0]] \in [1..k -> Point] BY <2>1
  <2>3. [i \in 1..k |-> [pages |-> i * apart, blocks |-> 0]] \in Seq(Point) BY <2>2, FunSeq
  <2>4. \A i \in 1..k : Fits([pages |-> i * apart, blocks |-> 0])
    <3> SUFFICES ASSUME NEW i \in 1..k PROVE Fits([pages |-> i * apart, blocks |-> 0]) OBVIOUS
    <3>1. 0 * t = 0 /\ 0 <= IndexLimit BY <1>d, GridConsts
    <3> QED BY <1>d, <2>1, <3>1 DEF Fits
  <2> QED BY <2>3, <2>4
<1>7. Bench!SweepPoints(resident) = f \o g
  BY <1>1, <1>3, <1>4, <1>5, <1>6 DEF Bench!SweepPoints
<1>8. IsSeq(f) /\ IsSeq(g) BY SeqIs
<1>9. Joined(f, g, f \o g) BY <1>8, ConcatFacts
<1>10. Len(f) \in Nat /\ DOMAIN f = 1..Len(f) /\ Len(g) = k /\ DOMAIN g = 1..k
  BY <1>6, <1>8, SeqFacts
<1>11. PICK u : u = f \o g OBVIOUS
<1>12. /\ IsSeq(u) /\ Len(u) = Len(f) + k /\ DOMAIN u = 1..Len(f) + k
       /\ \A i \in 1..Len(f) : u[i] = f[i]
       /\ \A i \in 1..k : u[Len(f) + i] = g[i]
  BY <1>9, <1>10, <1>11 DEF Joined
<1>13. u # <<>> BY <1>10, <1>12, EmptyIs
<1>14. \A i \in DOMAIN u : Fits(u[i])
  <2> SUFFICES ASSUME NEW i \in 1..Len(f) + k PROVE Fits(u[i]) BY <1>12
  <2>1. CASE i <= Len(f)
    <3>1. i \in 1..Len(f) BY <2>1, <1>10
    <3> QED BY <3>1, <1>5, <1>10, <1>12
  <2>2. CASE i > Len(f)
    <3>1. PICK j \in 1..k : i = Len(f) + j
      <4>1. i - Len(f) \in 1..k /\ i = Len(f) + (i - Len(f)) BY <2>2, <1>10
      <4> QED BY <4>1
    <3>2. u[i] = g[j] BY <3>1, <1>12
    <3> QED BY <3>1, <3>2, <1>6, <1>10
  <2> QED BY <2>1, <2>2, <1>10
<1> QED BY <1>7, <1>11, <1>12, <1>13, <1>14

\* A series for each point.
LEMMA SweepIs ==
  ASSUME NEW points, IsSeq(points)
  PROVE  /\ IsSeq(Bench!SweepSeries(points)) /\ Len(Bench!SweepSeries(points)) = Len(points)
         /\ \A i \in DOMAIN points : Bench!SweepSeries(points)[i] = PointSeries(points[i])
<1>1. PICK n \in Nat : n = Len(points) /\ DOMAIN points = 1..n BY SeqFacts
<1>2. PICK u : u = Bench!SweepSeries(points) OBVIOUS
<1>3. u = [i \in 1..n |-> PointSeries(points[i])]
  BY <1>1, <1>2, BenchGrid DEF Bench!SweepSeries, PointSeries
<1>4. DOMAIN u = 1..n /\ u = [i \in 1..n |-> u[i]] BY <1>3
<1>5. IsSeq(u) /\ Len(u) = n BY <1>4, FunIs
<1> QED BY <1>1, <1>2, <1>3, <1>5

LEMMA ResidencyInv == ASSUME ReportInv, Bench!Residency PROVE ReportInv'
<1>0. /\ AskInv /\ PlaceInv /\ CorpusInv /\ PointsInv /\ SamplesInv /\ ContextInv /\ StreamInv
      /\ NumbersInv /\ RowsInv /\ ProgressInv /\ DriftInv /\ ExitInv
  BY DEF ReportInv
<1>1. /\ doing = "residency" /\ doing' = "upload" /\ numbers' = <<>>
      /\ UNCHANGED <<job, batch, rows, exit, trip, samples>> /\ UNCHANGED Bench!Rest
  BY DEF Bench!Residency, Bench!GoOn
<1>2. PICK resident \in Residents :
        /\ walk' = [walk EXCEPT !.points = Bench!SweepPoints(resident)]
        /\ todo' = Bench!SweepSeries(Bench!SweepPoints(resident))
  BY DEF Bench!Residency
<1>3. PICK points : points = Bench!SweepPoints(resident) OBVIOUS
<1>a. exit = -1 /\ DOMAIN walk = {"at", "drifted", "points"} /\ walk.at \in Nat
  BY <1>0, <1>1, AskParts DEF Parted
<1>w. /\ walk'.points = points /\ walk'.at = walk.at /\ walk'.drifted = walk.drifted
      /\ DOMAIN walk' = DOMAIN walk
  BY <1>2, <1>3, <1>a
<1>s. SweepJob /\ job \in Asked BY <1>0, <1>1, Where
<1>j. /\ (FrameJob' <=> FrameJob) /\ (SweepJob' <=> SweepJob) /\ (Plain' <=> Plain)
      /\ (Judged' <=> Judged)
  BY <1>1, JobFixes
<1>p. ~FrameJob /\ ~Plain BY <1>s DEF SweepJob, FrameJob, Plain
<1>c. batch \in Batches /\ Shaped(batch) /\ Gated(batch) /\ (job.selfcheck => batch.pinned)
  BY <1>0, <1>1, <1>s, <1>p DEF CorpusInv, CorpusAt
<1>r. rows = <<>>
  <2>1. ProgressAt("residency") BY <1>0, <1>1 DEF ProgressInv
  <2>2. SweepProgress("residency") BY <2>1, <1>s DEF ProgressAt
  <2> QED BY <2>2 DEF SweepProgress
<1>4. points # <<>> /\ IsSeq(points) /\ \A i \in DOMAIN points : Fits(points[i])
  BY <1>3, <1>c, SweepFits DEF Gated
<1>5. AskInv' BY <1>0, <1>1, <1>a, <1>w, AskStays
<1>6. PlaceInv'
  <2>1. "upload" \in PlacesOf BY <1>s, PlacesAre DEF KernelPlaces
  <2>2. PlacesOf' = PlacesOf BY <1>1, SamePlaces
  <2> QED BY <1>1, <2>1, <2>2 DEF PlaceInv
<1>7. CorpusInv'
  <2>1. \A p : CorpusAt(p)' <=> CorpusAt(p) BY <1>1, SameCorpus
  <2>2. CorpusAt("upload")
    BY <1>c, <1>p, <1>s DEF CorpusAt, FramePlaces, Unverified
  <2> QED BY <1>1, <2>1, <2>2 DEF CorpusInv
<1>8. PointsInv' BY <1>4, <1>w DEF PointsInv, Fits
<1>9. SamplesInv'
  <2>1. samples = <<>> /\ trip = 0 BY <1>0, <1>1 DEF SamplesInv, Between
  <2>2. samples' = <<>> /\ trip' = 0 BY <1>1, <2>1
  <2> QED BY <1>1, <2>2, EmptyIs DEF SamplesInv, TimedPlaces
<1>10. StreamInv' /\ ContextInv' BY <1>0, <1>1, HostStays DEF TimingPlaces
<1>11. NumbersInv'
  <2>1. SeriesOf' = Bench!SweepSeries(points)
    BY <1>j, <1>s, <1>w DEF SeriesOf, Bench!SweepSeries, Bench!Grid!GridBlocks, Bench!Grid!Capped, Bench!Grid!BlockThreads
  <2>2. IsSeq(Bench!SweepSeries(points)) BY <1>4, SweepIs
  <2>3. PICK S : S = Bench!SweepSeries(points) OBVIOUS
  <2>4. todo' = S /\ IsSeq(S) /\ SeriesOf' = S BY <1>2, <1>3, <2>1, <2>2, <2>3
  <2>5. Len(S) \in Nat /\ \A j \in DOMAIN S : j \in Nat BY <2>4, SeqFacts
  <2>6. IsSeq(numbers') /\ Len(numbers') = 0 /\ DOMAIN numbers' = {} BY <1>1, EmptyIs
  <2>7. Measured(S)' BY <2>5, <2>6 DEF Measured
  <2>8. Remain(S)'
    <3>1. \A j \in DOMAIN S : 0 + j = j BY <2>5
    <3> QED BY <2>4, <2>5, <2>6, <2>7, <3>1 DEF Remain
  <2>9. Remain(SeriesOf)' BY <2>4, <2>5, <2>6, <2>7, <2>8 DEF Remain, Measured
  <2> QED BY <1>1, <2>9 DEF NumbersInv, ContextPlaces
<1>12. RowsInv' BY <1>1, <1>r, EmptyIs DEF RowsInv
<1>13. ProgressInv'
  <2>1. SweepProgress("upload")' BY <1>1, <1>r DEF SweepProgress
  <2> QED BY <1>1, <2>1, <1>j, <1>s, <1>p DEF ProgressInv, ProgressAt
<1>14. DriftInv'
  <2>1. DriftAt("residency") BY <1>0, <1>1 DEF DriftInv
  <2>2. /\ walk.drifted => job.bench \in {"gdeflate", "zstd"}
        /\ walk.drifted => Judged /\ (job.mode = "blockmix" \/ \E i \in DOMAIN rows : ~rows[i].corpus.pinned)
    BY <2>1 DEF DriftAt
  <2>3. DOMAIN rows' = {} /\ rows' = rows BY <1>1, <1>r, EmptyIs
  <2> QED BY <1>1, <1>j, <1>w, <1>p, <2>2, <2>3 DEF DriftInv, DriftAt
<1>15. ExitInv' BY <1>1, <1>a, ExitStays
<1> QED BY <1>5, <1>6, <1>7, <1>8, <1>9, <1>10, <1>11, <1>12, <1>13, <1>14, <1>15 DEF ReportInv

\* From one place of the timing of a kernel to another nothing is printed.
LEMMA KernelMoves ==
  ASSUME ReportInv, doing \in KernelPlaces, NEW q \in KernelPlaces, doing' = q, Quietly,
         doing \in Unverified /\ q \notin Unverified => Bench!IsVerified,
         context' = context, SamplesInv', StreamInv', NumbersInv'
  PROVE  ReportInv'
<1>0. AskInv /\ PlaceInv /\ CorpusInv /\ ContextInv /\ ProgressInv /\ DriftInv
  BY DEF ReportInv
<1>1. Interior(doing) /\ Interior(q) BY DEF Interior, KernelPlaces, TimingPlaces
<1>2. /\ job \in Asked /\ ~FrameJob /\ (job.gpu \/ SweepJob) /\ job.bench # "zstd"
      /\ ~(job.bench = "gdeflate" /\ job.mode = "blockmix")
  BY <1>0, <1>1, Where DEF Interior
<1>m. job.bench # "gdeflate" => job.mode = "" BY <1>0, <1>1, AskParts DEF Parted, AskedNow, Interior
<1>3. q \in PlacesOf
  <2>1. CASE SweepJob BY <1>2, <2>1, PlacesAre
  <2>2. CASE ~SweepJob
    <3>1. job.mode # "blockmix" BY <1>2, <1>m
    <3> QED BY <1>2, <2>2, <3>1, PlacesAre
  <2> QED BY <2>1, <2>2
<1>n. q \notin {"verify", "failed", "exited", "measured", "build", "finish", "options", "idle"}
      /\ q \notin FramePlaces \cup {"count", "census", "residency", "rung"}
      /\ doing \notin {"verify", "failed", "exited", "build", "finish", "options", "idle"}
      /\ q \notin ContextPlaces /\ doing \notin ContextPlaces /\ q \notin {"timed", "untimed", "create"}
      /\ doing \notin {"timed", "untimed"}
  BY DEF KernelPlaces, TimingPlaces, FramePlaces, ContextPlaces
<1>4. CorpusAt(q)
  <2>1. CorpusAt(doing) BY <1>0 DEF CorpusInv
  <2>2. batch \in Batches /\ Shaped(batch) /\ Gated(batch) BY <2>1, <1>2, <1>n DEF CorpusAt
  <2>3. SweepJob /\ job.selfcheck => batch.pinned BY <2>1 DEF CorpusAt
  <2>4. q \notin Unverified => Bench!IsVerified BY <2>1 DEF CorpusAt
  <2> QED BY <1>2, <1>n, <2>2, <2>3, <2>4 DEF CorpusAt
<1>5. ProgressAt(q)
  <2>1. ProgressAt(doing) BY <1>0 DEF ProgressInv
  <2>2. CASE Plain
    <3>1. PlainProgress(doing) BY <2>1, <2>2 DEF ProgressAt
    <3>2. At(GpuAt) BY <3>1 DEF PlainProgress
    <3>3. PlainProgress(q)
      <4>1. q \notin {"literals", "context", "judge", "digest", "cell", "cpu_warmup", "cpu_run", "report"}
        BY DEF KernelPlaces, TimingPlaces
      <4> QED BY <3>2, <1>n, <4>1 DEF PlainProgress
    <3> QED BY <3>3, <2>2 DEF ProgressAt, Plain
  <2>3. CASE SweepJob
    <3>1. SweepProgress(doing) BY <2>1, <2>3 DEF ProgressAt
    <3>2. SweepProgress(q) BY <3>1, <1>n DEF SweepProgress
    <3> QED BY <3>2, <2>3, <1>2 DEF ProgressAt, Plain
  <2> QED BY <1>2, <2>2, <2>3 DEF Plain
<1>6. DriftAt(q)
  <2>1. DriftAt(doing) BY <1>0 DEF DriftInv
  <2> QED BY <2>1, <1>n DEF DriftAt, Printed
<1>7. ContextInv' BY <1>0, <1>n DEF ContextInv
<1> QED BY <1>1, <1>3, <1>4, <1>5, <1>6, <1>7, <1>n, HostMoves

\* A call fails, or a check of what it gave: the run is over, with rows missing.
Breaking == KernelPlaces \cup ContextPlaces \cup {"residency", "frame_verify", "frame_warmup", "frame_run"}
LEMMA Breaks ==
  ASSUME ReportInv, doing \in Breaking, doing' = "failed", Quietly, context' = "none",
         IsSeq(samples'), trip' \in Nat, UNCHANGED <<log, event, numbers>>
  PROVE  ReportInv'
<1>0. /\ AskInv /\ PlaceInv /\ CorpusInv /\ PointsInv /\ SamplesInv /\ ContextInv /\ StreamInv
      /\ NumbersInv /\ RowsInv /\ ProgressInv /\ DriftInv /\ ExitInv
  BY DEF ReportInv
<1>1. Interior(doing) /\ doing \notin {"build", "verify", "exited", "finish", "options", "idle", "failed"}
      /\ doing \notin {"literals", "gpu", "context", "judge", "digest", "cell", "rung", "measured"}
  BY DEF Breaking, Interior, KernelPlaces, TimingPlaces, ContextPlaces
<1>2. job \in Asked BY <1>0, <1>1, Where DEF Interior
<1>q. PICK q : q = "failed" OBVIOUS
<1>n. Interior(q) /\ q \notin KernelPlaces \cup ContextPlaces \cup FramePlaces \cup TimingPlaces \cup Printed
      /\ q \notin TimedPlaces \cup Between \cup {"measured", "finish"}
  BY <1>q DEF Interior, KernelPlaces, TimingPlaces, ContextPlaces, FramePlaces, Printed, TimedPlaces, Between
<1>3. q \in PlacesOf BY <1>2, <1>q, PlacesAre
<1>4. CorpusAt(q)
  <2>1. CorpusAt(doing) BY <1>0 DEF CorpusInv
  <2>2. batch \in Batches /\ Shaped(batch) BY <2>1, <1>1 DEF CorpusAt
  <2> QED BY <1>q, <1>n, <2>2 DEF CorpusAt
<1>5. ProgressAt(q)
  <2>1. ProgressAt(doing) BY <1>0 DEF ProgressInv
  <2>2. CASE Plain
    <3>1. Short BY <1>1, RowsMissing
    <3>2. WantedLen = Units * Len(Unit) BY <2>2 DEF WantedLen, Plain
    <3>3. PICK u \in Nat \ {0}, n \in Nat \ {0} : u = Units /\ n = Len(Unit)
      BY <1>2, UnitsNat, UnitLen
    <3>4. u * n \in Nat \ {0} BY <3>3, MulComm, InRow
    <3>5. Len(rows) < u * n BY <3>1, <3>2, <3>3, <3>4 DEF Short
    <3>6. PlainProgress("failed") BY <3>3, <3>5 DEF PlainProgress, KernelPlaces, TimingPlaces, ContextPlaces
    <3> QED BY <1>q, <2>2, <3>6 DEF ProgressAt, Plain
  <2>3. CASE SweepJob
    <3>1. ~FrameJob /\ ~Plain BY <2>3 DEF SweepJob, FrameJob, Plain
    <3>2. SweepProgress(doing) BY <2>1, <2>3 DEF ProgressAt
    <3>3. doing \in {"residency"} \cup KernelPlaces
      BY <1>0, <1>1, <3>1, <2>3, Where DEF Breaking, Interior, FramePlaces, SweepJob
    <3>4. rows = <<>> BY <3>2, <3>3 DEF SweepProgress
    <3>5. SweepProgress(q) BY <1>n, <3>4 DEF SweepProgress
    <3> QED BY <3>1, <3>5 DEF ProgressAt
  <2>4. CASE FrameJob
    <3>1. ~SweepJob /\ ~Plain BY <2>4 DEF SweepJob, FrameJob, Plain
    <3>2. FrameProgress(doing) BY <2>1, <2>4 DEF ProgressAt
    <3>3. doing \in FramePlaces
      BY <1>0, <1>1, <3>1, <2>4, Where DEF Breaking, Interior, FramePlaces, FrameJob
    <3>4. Len(rows) < Bench!Rungs BY <3>2, <3>3 DEF FrameProgress
    <3>5. FrameProgress(q) BY <1>q, <3>4 DEF FrameProgress
    <3> QED BY <3>1, <3>5 DEF ProgressAt
  <2> QED BY <2>2, <2>3, <2>4 DEF Plain
<1>6. DriftAt(q)
  <2>1. DriftAt(doing) BY <1>0 DEF DriftInv
  <2> QED BY <2>1, <1>n, <1>q, <1>1 DEF DriftAt
<1>7. SamplesInv' BY <1>q, <1>n DEF SamplesInv
<1>8. StreamInv'
  <2>1. IsSeq(log) /\ event \in [{"start", "stop"} -> Nat \cup {-1}] BY <1>0 DEF StreamInv
  <2> QED BY <1>q, <1>n, <2>1 DEF StreamInv
<1>9. ContextInv' BY <1>q DEF ContextInv
<1>10. NumbersInv' BY <1>q, <1>n DEF NumbersInv
<1>11. doing' = q BY <1>q
<1> QED BY <1>1, <1>3, <1>4, <1>5, <1>6, <1>7, <1>8, <1>9, <1>10, <1>11, <1>n, HostMoves

\* What is on a short queue, and what one more makes of it.
LEMMA Ones ==
  ASSUME NEW a
  PROVE  /\ Head(<<a>>) = a /\ Tail(<<a>>) = <<>> /\ <<a>> # <<>> /\ Append(<<>>, a) = <<a>>
         /\ DOMAIN <<a>> = {1} /\ <<a>>[1] = a
<1>1. PICK S : a \in S OBVIOUS
<1>2. <<a>> \in Seq(S) /\ Len(<<a>>) = 1 BY <1>1
<1>3. Head(<<a>>) = a /\ <<a>> # <<>> /\ DOMAIN <<a>> = {1} /\ <<a>>[1] = a BY <1>1, <1>2
<1>4. Tail(<<a>>) = <<>> BY <1>2
<1>5. Append(<<>>, a) = <<a>> OBVIOUS
<1> QED BY <1>3, <1>4, <1>5

LEMMA Twos ==
  ASSUME NEW a, NEW b
  PROVE  /\ Head(<<a, b>>) = a /\ Tail(<<a, b>>) = <<b>> /\ <<a, b>> # <<>> /\ Append(<<a>>, b) = <<a, b>>
         /\ 2 \in DOMAIN <<a, b>> /\ <<a, b>>[2] = b
<1>1. PICK S : a \in S /\ b \in S
  <2>1. a \in {a, b} /\ b \in {a, b} OBVIOUS
  <2> QED BY <2>1
<1>2. <<a, b>> \in Seq(S) /\ Len(<<a, b>>) = 2 /\ <<b>> \in Seq(S) /\ <<a>> \in Seq(S) BY <1>1
<1>3. Head(<<a, b>>) = a /\ <<a, b>> # <<>> /\ 2 \in DOMAIN <<a, b>> /\ <<a, b>>[2] = b BY <1>1, <1>2
<1>4. Tail(<<a, b>>) = <<b>> BY <1>1, <1>2
<1>5. Append(<<a>>, b) = <<a, b>>
  <2>1. PICK t \in Seq(S) : t = <<a>> /\ Len(t) = 1 /\ t[1] = a BY <1>2, Singles
  <2>a. Append(t, b) \in Seq(S) BY <1>1, AppendSeq
  <2>2. PICK u \in Seq(S) : u = Append(t, b) BY <2>a
  <2>3. Len(u) = 2 /\ u[1] = a /\ u[2] = b BY <1>1, <2>1, <2>2
  <2>4. PICK v \in Seq(S) : v = <<a, b>> /\ Len(v) = 2 /\ v[1] = a /\ v[2] = b BY <1>1, <1>2
  <2>5. u = v BY <2>3, <2>4
  <2> QED BY <2>1, <2>2, <2>4, <2>5
<1> QED BY <1>3, <1>4, <1>5

LEMMA Threes ==
  ASSUME NEW a, NEW b, NEW c
  PROVE  /\ Head(<<a, b, c>>) = a /\ Tail(<<a, b, c>>) = <<b, c>> /\ Append(<<a, b>>, c) = <<a, b, c>>
         /\ 3 \in DOMAIN <<a, b, c>> /\ <<a, b, c>>[3] = c
<1>1. PICK S : a \in S /\ b \in S /\ c \in S
  <2>1. a \in {a, b, c} /\ b \in {a, b, c} /\ c \in {a, b, c} OBVIOUS
  <2> QED BY <2>1
<1>2. <<a, b, c>> \in Seq(S) /\ Len(<<a, b, c>>) = 3 /\ <<b, c>> \in Seq(S) /\ <<a, b>> \in Seq(S) BY <1>1
<1>3. Head(<<a, b, c>>) = a /\ 3 \in DOMAIN <<a, b, c>> /\ <<a, b, c>>[3] = c BY <1>1, <1>2
<1>4. Tail(<<a, b, c>>) = <<b, c>> BY <1>1, <1>2
<1>5. Append(<<a, b>>, c) = <<a, b, c>>
  <2>1. PICK t \in Seq(S) : t = <<a, b>> /\ Len(t) = 2 /\ t[1] = a /\ t[2] = b BY <1>2, Pairs
  <2>a. Append(t, c) \in Seq(S) BY <1>1, AppendSeq
  <2>2. PICK u \in Seq(S) : u = Append(t, c) BY <2>a
  <2>3. Len(u) = 3 /\ u[1] = a /\ u[2] = b /\ u[3] = c BY <1>1, <2>1, <2>2
  <2>4. PICK v \in Seq(S) : v = <<a, b, c>> /\ Len(v) = 3 /\ v[1] = a /\ v[2] = b /\ v[3] = c BY <1>1, <1>2
  <2>5. u = v BY <2>3, <2>4
  <2> QED BY <2>1, <2>2, <2>4, <2>5
<1> QED BY <1>3, <1>4, <1>5

\* The last of a sequence.
LEMMA LastOf ==
  ASSUME NEW s, IsSeq(s), NEW n \in Nat \ {0}, Len(s) = n
  PROVE  SubSeq(s, n, n) = <<s[n]>>
<1>1. PICK S : s \in Seq(S) BY DEF IsSeq
<1>2. SubSeq(s, n, n) \in Seq(S) /\ Len(SubSeq(s, n, n)) = 1 /\ SubSeq(s, n, n)[1] = s[n] BY <1>1
<1>3. s[n] \in S BY <1>1
<1>4. <<s[n]>> \in Seq(S) /\ Len(<<s[n]>>) = 1 /\ <<s[n]>>[1] = s[n] BY <1>3
<1>5. PICK u, v : u = SubSeq(s, n, n) /\ v = <<s[n]>> OBVIOUS
<1>6. u \in Seq(S) /\ v \in Seq(S) /\ Len(u) = 1 /\ Len(v) = 1 /\ u[1] = v[1] BY <1>2, <1>4, <1>5
<1>7. u = v BY <1>6
<1> QED BY <1>5, <1>7

LEMMA FirstAndRest ==
  ASSUME NEW s, IsSeq(s), s # <<>>
  PROVE  /\ Head(s) = s[1] /\ 1 \in DOMAIN s /\ Len(s) \in Nat \ {0}
         /\ IsSeq(Tail(s)) /\ Len(Tail(s)) = Len(s) - 1
         /\ \A j \in DOMAIN Tail(s) : Tail(s)[j] = s[j + 1]
<1>1. PICK S : s \in Seq(S) BY DEF IsSeq
<1>2. Tail(s) \in Seq(S) /\ Len(Tail(s)) = Len(s) - 1 /\ Len(s) \in Nat \ {0} /\ Head(s) = s[1] /\ 1 \in DOMAIN s
  BY <1>1
<1>3. \A j \in 1..Len(s) - 1 : Tail(s)[j] = s[j + 1] BY <1>1, <1>2
<1>4. DOMAIN Tail(s) = 1..Len(s) - 1 BY <1>1, <1>2
<1> QED BY <1>2, <1>3, <1>4, SeqIs

\* A grid of shipped blocks, no more of them than the cap, is below the index limit.
LEMMA BelowLimit ==
  ASSUME NEW blocks \in Nat, blocks <= MaxBlocks
  PROVE  blocks * Grid!BlockThreads(kCudaWaveSize) <= IndexLimit
<1>1. PICK t \in Nat : t = Grid!BlockThreads(kCudaWaveSize) BY GridConsts, MulComm DEF Grid!BlockThreads
<1>2. PICK m \in Nat : m = MaxBlocks BY GridConsts
<1>3. m * t <= IndexLimit /\ IndexLimit \in Nat BY <1>1, <1>2, GridConsts, GridAssumption DEF Grid!BlockThreads
<1>4. PICK d \in Nat : m = blocks + d
  <2>1. m - blocks \in Nat /\ m = blocks + (m - blocks) BY <1>2
  <2> QED BY <2>1
<1>5. t * m = t * blocks + t * d BY <1>1, <1>4, Distrib
<1>6. t * m = m * t /\ t * blocks = blocks * t /\ t * d \in Nat /\ t * blocks \in Nat /\ t * m \in Nat
  BY <1>1, <1>2, <1>4, MulComm
<1> QED BY <1>1, <1>3, <1>5, <1>6

\* The grid of the whole batch may be launched as it is.
LEMMA FullReady ==
  ASSUME batch \in Batches, batch.chunks # <<>>, job \in Asked
  PROVE  Ready(Bench!FullShape)
<1>1. PICK n \in Nat \ {0} : n = Bench!Pages BY PagesNat
<1>k. job.kernel \in Grid!Kernels BY AskedFacts
<1>2. PICK k \in Grid!Kernels : k = job.kernel BY <1>k
<1>3. PICK s : s = Grid!Shipped(k, kCudaWaveSize, n) OBVIOUS
<1>4. Bench!FullShape = s BY <1>1, <1>2, <1>3, BenchGrid DEF Bench!FullShape
<1>5. s \in Launchable BY <1>3, GridConsts, ShippedLaunchable
<1>6. ~Grid!Refuses(s) BY <1>3, GridConsts, ShippedAdmitted
<1>7. s.count = n /\ s.kernel = k BY <1>3 DEF Grid!Shipped
<1>8. NoWrap(s)
  <2>1. CASE k = "zstd" BY <1>7, <2>1 DEF NoWrap
  <2>2. CASE k # "zstd"
    <3>1. s.blocks = Grid!GridBlocks(n) /\ s.dim = Grid!BlockThreads(kCudaWaveSize)
      BY <1>3, <2>2 DEF Grid!Shipped
    <3>2. PICK b \in Nat : b = Grid!GridBlocks(n) /\ b <= MaxBlocks BY SomeBlocks
    <3>3. b * Grid!BlockThreads(kCudaWaveSize) <= IndexLimit BY <3>2, BelowLimit
    <3> QED BY <3>1, <3>2, <3>3 DEF NoWrap
  <2> QED BY <2>1, <2>2
<1> QED BY <1>1, <1>4, <1>5, <1>6, <1>7, <1>8 DEF Ready

\* The grid of a point, if it has a page and a block.
LEMMA PointReady ==
  ASSUME NEW p, Fits(p), PointSeries(p).shape.count # 0, PointSeries(p).shape.blocks # 0
  PROVE  Ready(PointSeries(p).shape)
<1>1. p \in Point /\ p.blocks * Grid!BlockThreads(kCudaWaveSize) <= IndexLimit BY DEF Fits
<1>2. p.pages \in Nat /\ p.blocks \in Nat BY <1>1 DEF Point
<1>3. PointSeries(p) \in Series BY <1>1, PointSeriesTyped
<1>4. PICK s \in Launchable : s = PointSeries(p).shape BY <1>3 DEF Series
<1>5. /\ s.kernel = "gdeflate" /\ s.width = kCudaWaveSize /\ s.count = p.pages
      /\ s.dim = Grid!BlockThreads(kCudaWaveSize)
      /\ s.blocks = IF p.blocks = 0 THEN Grid!GridBlocks(p.pages) ELSE p.blocks
  BY <1>4 DEF PointSeries
<1>6. s.blocks \in Nat \ {0} /\ s.count # 0 BY <1>4 DEF Launchable
<1>7. ~Grid!Refuses(s) BY <1>5, <1>6, GridConsts, WholeWaves
<1>8. s.blocks * s.dim <= IndexLimit
  <2>1. CASE p.blocks = 0
    <3>1. PICK b \in Nat : b = Grid!GridBlocks(p.pages) /\ b <= MaxBlocks
      BY <1>2, <1>5, <1>6, SomeBlocks
    <3>2. b * Grid!BlockThreads(kCudaWaveSize) <= IndexLimit BY <3>1, BelowLimit
    <3> QED BY <1>5, <2>1, <3>1, <3>2
  <2>2. CASE p.blocks # 0 BY <1>1, <1>5, <2>2
  <2> QED BY <2>1, <2>2
<1> QED BY <1>4, <1>6, <1>7, <1>8 DEF Ready, NoWrap

\* The series of a measurement: of a kernel, and of a grid that may be launched.
SeriesWorth(s) == s.row \in OfKernel /\ (s.shape.count # 0 /\ s.shape.blocks # 0 => Ready(s.shape))
LEMMA SeriesAre ==
  ASSUME batch \in Batches, batch.chunks # <<>>, job \in Asked, PointsInv
  PROVE  IsSeq(SeriesOf) /\ \A j \in DOMAIN SeriesOf : SeriesWorth(SeriesOf[j])
<1>1. CASE SweepJob
  <2>1. PICK points : points = walk.points /\ IsSeq(points) /\ \A i \in DOMAIN points : Fits(points[i])
    BY DEF PointsInv
  <2>2. PICK S : S = Bench!SweepSeries(points) OBVIOUS
  <2>3. /\ IsSeq(S) /\ Len(S) = Len(points) /\ \A i \in DOMAIN points : S[i] = PointSeries(points[i])
    BY <2>1, <2>2, SweepIs
  <2>4. DOMAIN S = DOMAIN points BY <2>1, <2>3, SeqFacts
  <2>5. ASSUME NEW j \in DOMAIN points PROVE SeriesWorth(S[j])
    <3>1. PICK p : p = points[j] /\ Fits(p) BY <2>1
    <3>2. PointSeries(p).row \in OfKernel BY DEF PointSeries, OfKernel
    <3>3. SeriesWorth(PointSeries(p)) BY <3>1, <3>2, PointReady DEF SeriesWorth
    <3> QED BY <2>3, <3>1, <3>3
  <2>6. SeriesOf = S BY <1>1, <2>1, <2>2 DEF SeriesOf
  <2> QED BY <2>3, <2>4, <2>5, <2>6
<1>2. CASE ~SweepJob
  <2>1. PICK S : S = Bench!BatchSeries OBVIOUS
  <2>2. SeriesOf = S BY <1>2, <2>1 DEF SeriesOf
  <2>3. PICK f : f = Bench!FullShape /\ Ready(f) BY FullReady
  <2>4. /\ IsSeq(S) /\ Len(S) = (IF job.kernel = "chunk" THEN 2 ELSE 1)
        /\ S[1] = [row |-> "full", shape |-> f]
        /\ job.kernel = "chunk" => S[2] = [row |-> "parse_only", shape |-> f]
    BY <2>1, <2>3, BatchIs
  <2>5. SeriesWorth([row |-> "full", shape |-> f]) /\ SeriesWorth([row |-> "parse_only", shape |-> f])
    BY <2>3 DEF SeriesWorth, OfKernel
  <2>6. DOMAIN S = 1..Len(S) BY <2>4, SeqFacts
  <2>7. CASE job.kernel = "chunk"
    <3>1. \A j \in DOMAIN S : j = 1 \/ j = 2 BY <2>4, <2>6, <2>7
    <3> QED BY <2>2, <2>4, <2>5, <2>7, <3>1
  <2>8. CASE job.kernel # "chunk"
    <3>1. \A j \in DOMAIN S : j = 1 BY <2>4, <2>6, <2>8
    <3> QED BY <2>2, <2>4, <2>5, <3>1
  <2> QED BY <2>7, <2>8
<1> QED BY <1>1, <1>2

\* What is known while a kernel is timed.
KernelKnown ==
  /\ job \in Asked /\ batch \in Batches /\ batch.chunks # <<>> /\ Remain(SeriesOf) /\ IsSeq(todo)
  /\ exit = -1
LEMMA KernelKnows == ASSUME ReportInv, doing \in KernelPlaces PROVE KernelKnown
<1>0. AskInv /\ PlaceInv /\ CorpusInv /\ NumbersInv BY DEF ReportInv
<1>1. doing \notin {"idle", "options", "build", "exited", "verify", "failed"}
  BY DEF KernelPlaces, TimingPlaces
<1>2. job \in Asked /\ ~FrameJob BY <1>0, <1>1, Where
<1>3. CorpusAt(doing) BY <1>0 DEF CorpusInv
<1>4. batch \in Batches /\ Gated(batch) BY <1>1, <1>2, <1>3 DEF CorpusAt
<1>5. Remain(SeriesOf) BY <1>0 DEF NumbersInv
<1>6. exit = -1 BY <1>0, <1>1, AskParts DEF Parted
<1> QED BY <1>2, <1>4, <1>5, <1>6 DEF KernelKnown, Gated, Remain

\* The series under way is one of them.
LEMMA SeriesNow ==
  ASSUME ReportInv, doing \in KernelPlaces, todo # <<>>
  PROVE  /\ Bench!Series = SeriesOf[Len(numbers) + 1] /\ SeriesWorth(Bench!Series)
         /\ Len(numbers) \in Nat /\ Len(numbers) + 1 \in DOMAIN SeriesOf
<1>1. KernelKnown BY KernelKnows
<1>2. PointsInv BY DEF ReportInv
<1>3. IsSeq(SeriesOf) /\ \A j \in DOMAIN SeriesOf : SeriesWorth(SeriesOf[j])
  BY <1>1, <1>2, SeriesAre DEF KernelKnown
<1>4. PICK S : S = SeriesOf OBVIOUS
<1>5. /\ IsSeq(numbers) /\ IsSeq(todo) /\ Len(numbers) + Len(todo) = Len(S)
      /\ \A j \in DOMAIN todo : todo[j] = S[Len(numbers) + j]
  BY <1>1, <1>4 DEF KernelKnown, Remain, Measured
<1>6. Head(todo) = todo[1] /\ 1 \in DOMAIN todo /\ Len(todo) \in Nat \ {0} BY <1>5, FirstAndRest
<1>7. Len(numbers) \in Nat BY <1>5, SeqFacts
<1>8. DOMAIN S = 1..Len(S) /\ Len(S) \in Nat BY <1>3, <1>4, SeqFacts
<1>9. Len(numbers) + 1 \in DOMAIN S BY <1>5, <1>6, <1>7, <1>8
<1> QED BY <1>3, <1>4, <1>5, <1>6, <1>7, <1>9 DEF Bench!Series

LEMMA NumbersKept ==
  ASSUME NumbersInv, doing \in KernelPlaces, doing' \in KernelPlaces,
         UNCHANGED <<job, batch, walk, numbers, todo>>
  PROVE  NumbersInv'
<1>1. Remain(SeriesOf) BY DEF NumbersInv
<1>2. PICK S : S = SeriesOf OBVIOUS
<1>3. SeriesOf' = S BY <1>2, SeriesStay
<1>4. Remain(S)' <=> Remain(S) BY SeriesStay
<1>5. doing' \notin ContextPlaces BY DEF KernelPlaces, TimingPlaces, ContextPlaces
<1>6. Remain(SeriesOf)' BY <1>1, <1>2, <1>3, <1>4 DEF Remain, Measured
<1> QED BY <1>5, <1>6 DEF NumbersInv

StreamKept == UNCHANGED <<queue, busy, sick, log, event>>
KernelOnly == Quietly /\ context' = context /\ shape' = shape
LEMMA KernelOnlyIs ==
  ASSUME Bench!KernelTiming PROVE KernelOnly
BY DEF Bench!KernelTiming, KernelOnly, Quietly, Bench!mainVars, Bench!gridVars

\* Between two series the stream does not matter.
LEMMA StreamFree ==
  ASSUME StreamInv, UNCHANGED <<log, event>>, doing' \notin TimingPlaces PROVE StreamInv'
BY DEF StreamInv, TimingPlaces

LEMMA UploadInv == ASSUME ReportInv, KernelOnly, Bench!Upload PROVE ReportInv'
<1>0. NumbersInv /\ SamplesInv /\ StreamInv BY DEF ReportInv
<1>1. /\ doing = "upload" /\ doing' = "first_launch" /\ UNCHANGED <<trip, todo, samples, numbers>>
      /\ StreamKept
  BY DEF Bench!Upload, Bench!Call, Bench!GoOn, Bench!streamVars, StreamKept
<1>2. doing \in KernelPlaces /\ doing' \in KernelPlaces /\ doing' \in Unverified /\ doing' \notin TimingPlaces
  BY <1>1 DEF KernelPlaces, TimingPlaces, Unverified
<1>3. NumbersInv' BY <1>0, <1>1, <1>2, NumbersKept DEF KernelOnly, Quietly
<1>4. SamplesInv' BY <1>0, <1>1 DEF SamplesInv, Between, TimedPlaces
<1>5. StreamInv' BY <1>0, <1>1, <1>2, StreamFree DEF StreamKept
<1> QED BY <1>2, <1>3, <1>4, <1>5, KernelMoves DEF KernelOnly

LEMMA FirstLaunchInv == ASSUME ReportInv, KernelOnly, Bench!FirstLaunch PROVE ReportInv'
<1>0. NumbersInv /\ SamplesInv /\ StreamInv BY DEF ReportInv
<1>1. /\ doing = "first_launch" /\ doing' = "first_result" /\ UNCHANGED <<trip, todo, samples, numbers>>
      /\ UNCHANGED <<log, event>>
  BY DEF Bench!FirstLaunch, Bench!Call, Bench!GoOn, Bench!Enqueue
<1>2. doing \in KernelPlaces /\ doing' \in KernelPlaces /\ doing' \in Unverified /\ doing' \notin TimingPlaces
  BY <1>1 DEF KernelPlaces, TimingPlaces, Unverified
<1>3. NumbersInv' BY <1>0, <1>1, <1>2, NumbersKept DEF KernelOnly, Quietly
<1>4. SamplesInv' BY <1>0, <1>1 DEF SamplesInv, Between, TimedPlaces
<1>5. StreamInv' BY <1>0, <1>1, <1>2, StreamFree
<1> QED BY <1>2, <1>3, <1>4, <1>5, KernelMoves DEF KernelOnly

LEMMA FirstResultInv == ASSUME ReportInv, KernelOnly, Bench!FirstResult PROVE ReportInv'
<1>0. NumbersInv /\ SamplesInv /\ StreamInv /\ ContextInv BY DEF ReportInv
<1>1. /\ doing = "first_result" /\ trip' = 0 /\ UNCHANGED <<todo, samples, numbers>> /\ StreamKept
      /\ doing' = IF Bench!IsVerified THEN "series" ELSE "failed"
  BY DEF Bench!FirstResult, Bench!Call, Bench!GoOn, Bench!streamVars, StreamKept
<1>2. doing \in KernelPlaces BY <1>1 DEF KernelPlaces
<1>s. samples = <<>> /\ IsSeq(samples) BY <1>0, <1>1 DEF SamplesInv, Between
<1>3. CASE Bench!IsVerified
  <2>1. doing' = "series" BY <1>1, <1>3
  <2>2. doing' \in KernelPlaces /\ doing' \notin TimingPlaces BY <2>1 DEF KernelPlaces, TimingPlaces
  <2>3. NumbersInv' BY <1>0, <1>1, <1>2, <2>2, NumbersKept DEF KernelOnly, Quietly
  <2>4. SamplesInv'
    <3>1. samples' = <<>> /\ trip' = 0 BY <1>1, <1>s
    <3> QED BY <2>1, <3>1, EmptyIs DEF SamplesInv, TimedPlaces
  <2>5. StreamInv' BY <1>0, <1>1, <2>2, StreamFree DEF StreamKept
  <2> QED BY <1>2, <1>3, <2>2, <2>3, <2>4, <2>5, KernelMoves DEF KernelOnly
<1>4. CASE ~Bench!IsVerified
  <2>1. doing' = "failed" BY <1>1, <1>4
  <2>2. doing \in Breaking BY <1>2 DEF Breaking
  <2>3. context' = "none" BY <1>0, <1>1 DEF KernelOnly, ContextInv
  <2> QED BY <1>1, <1>s, <2>1, <2>2, <2>3, Breaks DEF KernelOnly, StreamKept
<1> QED BY <1>3, <1>4

\* The last series is done: there is a number for each.
LEMMA LastSeries ==
  ASSUME ReportInv, doing = "series", todo = <<>>, doing' = "measured", Quietly, context' = context,
         trip' = 0, samples' = <<>>, UNCHANGED <<numbers, log, event>>
  PROVE  ReportInv'
<1>0. AskInv /\ PlaceInv /\ CorpusInv /\ ContextInv /\ ProgressInv /\ DriftInv /\ StreamInv
  BY DEF ReportInv
<1>k. doing \in KernelPlaces BY DEF KernelPlaces
<1>1. KernelKnown BY <1>k, KernelKnows
<1>2. ~FrameJob /\ (job.gpu \/ SweepJob) /\ job.bench # "zstd" /\ ~(job.bench = "gdeflate" /\ job.mode = "blockmix")
  BY <1>0, <1>k, Where
<1>m. job.bench # "gdeflate" => job.mode = "" BY <1>0, AskParts DEF Parted, AskedNow
<1>n. Measured(SeriesOf) /\ Len(numbers) = Len(SeriesOf)
  <2>1. PICK S : S = SeriesOf OBVIOUS
  <2>2. Remain(S) BY <1>1, <2>1 DEF KernelKnown
  <2>3. Measured(S) /\ Len(numbers) + Len(todo) = Len(S) BY <2>2 DEF Remain
  <2>4. Len(numbers) \in Nat /\ Len(todo) = 0 BY <2>3, EmptyIs, SeqFacts DEF Measured
  <2> QED BY <2>1, <2>3, <2>4
<1>q. PICK q : q = "measured" OBVIOUS
<1>3. q \in PlacesOf
  <2>1. job \in Asked BY <1>1 DEF KernelKnown
  <2>2. CASE SweepJob BY <1>q, <2>1, <2>2, PlacesAre
  <2>3. CASE ~SweepJob
    <3>1. job.mode # "blockmix" BY <1>2, <1>m
    <3> QED BY <1>q, <1>2, <2>1, <2>3, <3>1, PlacesAre
  <2> QED BY <2>2, <2>3
<1>4. CorpusAt(q)
  <2>1. CorpusAt("series") BY <1>0 DEF CorpusInv
  <2>2. batch \in Batches /\ Shaped(batch) /\ Gated(batch) BY <2>1, <1>2 DEF CorpusAt
  <2>3. SweepJob /\ job.selfcheck => batch.pinned BY <2>1, <1>k DEF CorpusAt
  <2>4. Bench!IsVerified BY <2>1, <1>k DEF CorpusAt, Unverified
  <2> QED BY <1>q, <1>2, <2>2, <2>3, <2>4 DEF CorpusAt, FramePlaces
<1>5. ProgressAt(q)
  <2>1. ProgressAt("series") BY <1>0 DEF ProgressInv
  <2>2. CASE Plain
    <3>1. PlainProgress("series") BY <2>1, <2>2 DEF ProgressAt
    <3>2. At(GpuAt) BY <3>1, <1>k DEF PlainProgress
    <3>3. job.gpu BY <1>2, <2>2 DEF Plain
    <3>4. PlainProgress("measured")
      BY <3>2, <3>3, <1>n DEF PlainProgress, KernelPlaces, TimingPlaces, ContextPlaces
    <3> QED BY <1>q, <3>4, <2>2 DEF ProgressAt, Plain
  <2>3. CASE SweepJob
    <3>1. SweepProgress("series") BY <2>1, <2>3 DEF ProgressAt
    <3>2. rows = <<>> BY <3>1, <1>k DEF SweepProgress
    <3>3. SweepProgress("measured") BY <3>2, <1>n DEF SweepProgress
    <3> QED BY <1>q, <3>3, <2>3, <1>2 DEF ProgressAt, Plain
  <2> QED BY <1>2, <2>2, <2>3 DEF Plain
<1>6. DriftAt(q)
  <2>1. DriftAt("series") BY <1>0 DEF DriftInv
  <2> QED BY <1>q, <1>k, <2>1 DEF DriftAt, Printed
<1>7. ContextInv' BY <1>0 DEF ContextInv
<1>8. SamplesInv' BY EmptyIs DEF SamplesInv, TimedPlaces
<1>9. StreamInv' BY <1>0, StreamFree DEF TimingPlaces
<1>10. NumbersInv' BY DEF NumbersInv, KernelPlaces, TimingPlaces, ContextPlaces
<1>11. Interior(doing) /\ Interior(q) /\ doing' = q BY <1>q DEF Interior
<1>12. numbers' = numbers OBVIOUS
<1> QED BY <1>k, <1>3, <1>4, <1>5, <1>6, <1>7, <1>8, <1>9, <1>10, <1>11, <1>12, HostMoves

LEMMA NextSeriesInv == ASSUME ReportInv, KernelOnly, Bench!NextSeries PROVE ReportInv'
<1>0. NumbersInv /\ SamplesInv /\ StreamInv /\ ContextInv BY DEF ReportInv
<1>1. doing = "series" /\ trip' = 0 /\ samples' = <<>> /\ UNCHANGED <<todo, numbers>> /\ StreamKept
  BY DEF Bench!NextSeries, Bench!streamVars, StreamKept
<1>2. doing \in KernelPlaces BY <1>1 DEF KernelPlaces
<1>3. CASE todo = <<>>
  <2>1. doing' = "measured" BY <1>3 DEF Bench!NextSeries, Bench!GoOn
  <2> QED BY <1>1, <1>3, <2>1, LastSeries DEF KernelOnly, StreamKept
<1>4. CASE todo # <<>> /\ (~(Bench!Series.shape.count \in 1..Bench!Pages) \/ Bench!Series.shape.blocks = 0)
  <2>1. doing' = "failed" BY <1>4 DEF Bench!NextSeries, Bench!GoOn
  <2>2. doing \in Breaking BY <1>2 DEF Breaking
  <2>3. context' = "none" BY <1>0, <1>1 DEF KernelOnly, ContextInv
  <2>4. IsSeq(samples') BY <1>1, EmptyIs
  <2> QED BY <1>1, <2>1, <2>2, <2>3, <2>4, Breaks DEF KernelOnly, StreamKept
<1>5. CASE todo # <<>> /\ Bench!Series.shape.count \in 1..Bench!Pages /\ Bench!Series.shape.blocks # 0
  <2>1. doing' = "warmup" BY <1>5 DEF Bench!NextSeries, Bench!GoOn
  <2>2. doing' \in KernelPlaces BY <2>1 DEF KernelPlaces, TimingPlaces
  <2>3. NumbersInv' BY <1>0, <1>1, <1>2, <2>2, NumbersKept DEF KernelOnly, Quietly
  <2>4. SamplesInv' BY <1>1, <2>1, EmptyIs DEF SamplesInv, Between, TimedPlaces
  <2>5. Ready(Bench!Series.shape)
    <3>1. SeriesWorth(Bench!Series) BY <1>2, <1>5, SeriesNow
    <3>2. Bench!Series.shape.count # 0 BY <1>5
    <3> QED BY <1>5, <3>1, <3>2 DEF SeriesWorth
  <2>6. StreamInv'
    <3>1. Ready(Bench!Series.shape)' BY <1>1, <2>5 DEF Ready, Bench!Series, Grid!Refuses, Grid!TotalWaves, Grid!BlockThreads, NoWrap, Launchable, Grid!Kernels
    <3> QED BY <1>0, <1>1, <2>1, <3>1 DEF StreamInv, StreamKept
  <2>7. doing \notin Unverified BY <1>1 DEF Unverified
  <2> QED BY <1>2, <2>2, <2>3, <2>4, <2>6, <2>7, KernelMoves DEF KernelOnly
<1> QED BY <1>3, <1>4, <1>5

LEMMA ReadyKept ==
  ASSUME todo' = todo, Ready(Bench!Series.shape) PROVE Ready(Bench!Series.shape)'
BY DEF Ready, Bench!Series, Grid!Refuses, Grid!TotalWaves, Grid!BlockThreads, NoWrap, Launchable, Grid!Kernels

\* What the places of the timing have of the series, and the four of a sample.
LEMMA TimingFacts ==
  ASSUME ReportInv, BenchTyped, doing \in TimingPlaces
  PROVE  /\ doing \in KernelPlaces /\ todo # <<>> /\ Bench!Series.row \in OfKernel
         /\ Ready(Bench!Series.shape) /\ job.runs \in Nat \ {0} /\ trip \in Nat /\ IsSeq(samples)
         /\ IsSeq(log) /\ event \in [{"start", "stop"} -> Nat \cup {-1}]
         /\ NumbersInv /\ doing \notin Unverified
<1>1. StreamInv /\ SamplesInv /\ NumbersInv BY DEF ReportInv
<1>2. doing \in KernelPlaces /\ doing \notin Unverified BY DEF KernelPlaces, TimingPlaces, Unverified
<1>3. todo # <<>> BY DEF BenchTyped
<1>4. SeriesWorth(Bench!Series) BY <1>2, <1>3, SeriesNow
<1>5. KernelKnown BY <1>2, KernelKnows
<1>6. job \in Asked BY <1>5 DEF KernelKnown
<1>7. job.runs \in Nat \ {0} BY <1>6, AskedFacts
<1> QED BY <1>1, <1>2, <1>3, <1>4, <1>7 DEF SeriesWorth, StreamInv, SamplesInv

LEMMA WarmUpInv == ASSUME ReportInv, BenchTyped, KernelOnly, Bench!WarmUp PROVE ReportInv'
<1>0. SamplesInv /\ StreamInv BY DEF ReportInv
<1>1. /\ doing = "warmup" /\ doing' = doing /\ trip' = trip + 1 /\ UNCHANGED <<todo, samples, numbers>>
      /\ UNCHANGED <<log, event>>
  BY DEF Bench!WarmUp, Bench!Call, Bench!Enqueue
<1>2. doing \in TimingPlaces BY <1>1 DEF TimingPlaces
<1>3. /\ doing \in KernelPlaces /\ Ready(Bench!Series.shape) /\ trip \in Nat /\ NumbersInv
      /\ IsSeq(log) /\ event \in [{"start", "stop"} -> Nat \cup {-1}] /\ doing \notin Unverified
  BY <1>2, TimingFacts
<1>4. NumbersInv' BY <1>1, <1>3, NumbersKept DEF KernelOnly, Quietly
<1>5. SamplesInv'
  <2>1. samples' = <<>> /\ trip' \in Nat BY <1>0, <1>1, <1>3 DEF SamplesInv
  <2> QED BY <1>1, <2>1, EmptyIs DEF SamplesInv, Between, TimedPlaces
<1>6. StreamInv'
  <2>1. Ready(Bench!Series.shape)' BY <1>1, <1>3, ReadyKept
  <2> QED BY <1>1, <1>3, <2>1 DEF StreamInv
<1> QED BY <1>1, <1>3, <1>4, <1>5, <1>6, KernelMoves DEF KernelOnly

LEMMA SettleInv == ASSUME ReportInv, BenchTyped, KernelOnly, Bench!Settle PROVE ReportInv'
<1>0. SamplesInv /\ StreamInv BY DEF ReportInv
<1>1. /\ doing = "warmup" /\ doing' = "start" /\ trip' = 0 /\ UNCHANGED <<todo, samples, numbers>>
      /\ StreamKept /\ queue = <<>> /\ busy = <<>>
  BY DEF Bench!Settle, Bench!Call, Bench!GoOn, Bench!Drained, Bench!streamVars, StreamKept
<1>2. doing \in TimingPlaces /\ doing' \in KernelPlaces BY <1>1 DEF TimingPlaces, KernelPlaces
<1>3. /\ doing \in KernelPlaces /\ Ready(Bench!Series.shape) /\ NumbersInv /\ job.runs \in Nat \ {0}
      /\ IsSeq(log) /\ event \in [{"start", "stop"} -> Nat \cup {-1}] /\ doing \notin Unverified
  BY <1>2, TimingFacts
<1>4. NumbersInv' BY <1>1, <1>2, <1>3, NumbersKept DEF KernelOnly, Quietly
<1>5. SamplesInv'
  <2>1. samples' = <<>> BY <1>0, <1>1 DEF SamplesInv
  <2>2. AllWorth' BY <2>1, EmptyIs DEF AllWorth
  <2>3. trip' = Len(samples') /\ trip' < job'.runs /\ trip' \in Nat /\ IsSeq(samples')
    BY <1>1, <1>3, <2>1, EmptyIs DEF KernelOnly, Quietly
  <2> QED BY <1>1, <2>2, <2>3 DEF SamplesInv, Between, TimedPlaces
<1>6. StreamInv'
  <2>1. Ready(Bench!Series.shape)' BY <1>1, <1>3, ReadyKept
  <2>2. AtStart' BY <1>1 DEF AtStart, StreamKept
  <2> QED BY <1>1, <1>3, <2>1, <2>2 DEF StreamInv, StreamKept
<1> QED BY <1>2, <1>3, <1>4, <1>5, <1>6, KernelMoves DEF KernelOnly

\* The three calls of a sample are put on the stream one after the other.
LEMMA TimedCallInv == ASSUME ReportInv, BenchTyped, KernelOnly, Bench!TimedCall PROVE ReportInv'
<1>0. SamplesInv /\ StreamInv BY DEF ReportInv
<1>1. PICK now \in {"start", "launch", "stop"} :
        /\ doing = now /\ ~sick /\ doing' = Bench!After(now)
        /\ queue' = Append(queue, IF now = "launch" THEN LaunchNow ELSE Bench!Record(now))
        /\ UNCHANGED <<busy, sick, log, event>> /\ UNCHANGED <<trip, todo, samples, numbers>>
  BY DEF Bench!TimedCall, Bench!Call, Bench!GoOn, Bench!Enqueue, LaunchNow
<1>a. doing' \in {"launch", "stop", "await"}
      /\ (now = "start" => doing' = "launch") /\ (now = "launch" => doing' = "stop") /\ (now = "stop" => doing' = "await")
  BY <1>1 DEF Bench!After
<1>2. doing \in TimingPlaces /\ doing' \in KernelPlaces /\ doing' \in TimingPlaces /\ doing \in TimedPlaces /\ doing' \in TimedPlaces
  BY <1>1, <1>a DEF TimingPlaces, KernelPlaces, TimedPlaces
<1>3. /\ doing \in KernelPlaces /\ Ready(Bench!Series.shape) /\ NumbersInv
      /\ IsSeq(log) /\ event \in [{"start", "stop"} -> Nat \cup {-1}] /\ doing \notin Unverified
  BY <1>2, TimingFacts
<1>4. NumbersInv' BY <1>1, <1>2, <1>3, NumbersKept DEF KernelOnly, Quietly
<1>5. SamplesInv'
  <2>1. trip = Len(samples) /\ trip < job.runs /\ AllWorth /\ IsSeq(samples) /\ trip \in Nat
    BY <1>0, <1>2 DEF SamplesInv
  <2>2. AllWorth' BY <1>1, <2>1 DEF AllWorth, Worth, Bench!Series, Alone, Bench!OneRun
  <2>3. trip' = Len(samples') /\ trip' < job'.runs /\ IsSeq(samples') /\ trip' \in Nat
    BY <1>1, <2>1 DEF KernelOnly, Quietly
  <2> QED BY <1>a, <2>2, <2>3 DEF SamplesInv, Between, TimedPlaces
<1>6. StreamInv'
  <2>r. Ready(Bench!Series.shape)' BY <1>1, <1>3, ReadyKept
  <2>s. shape' = shape /\ Bench!Series' = Bench!Series /\ LaunchNow' = LaunchNow
    BY <1>1 DEF KernelOnly, Bench!Series, LaunchNow, Bench!LaunchOf
  <2>o. (Opened => Opened') /\ (Underway => Underway') /\ (Ran => Ran')
    BY <1>1, <2>s DEF Opened, Underway, Ran, Alone
  <2>1. CASE now = "start"
    <3>1. busy = <<>> /\ queue = <<>> BY <1>0, <1>1, <2>1 DEF StreamInv, AtStart
    <3>2. queue' = <<Bench!Record("start")>> BY <1>1, <2>1, <3>1, Ones
    <3>3. AtLaunch' BY <1>1, <3>1, <3>2 DEF AtLaunch, Bench!Record
    <3>4. doing' = "launch" BY <1>a, <2>1
    <3> QED BY <1>1, <1>3, <2>r, <3>3, <3>4 DEF StreamInv
  <2>2. CASE now = "launch"
    <3>1. AtLaunch BY <1>0, <1>1, <2>2 DEF StreamInv
    <3>2. queue' = Append(queue, LaunchNow) BY <1>1, <2>2
    <3>3. ASSUME busy = <<>> /\ queue = <<Bench!Record("start")>> PROVE AtStop'
      <4>1. queue' = <<Bench!Record("start"), LaunchNow>> BY <3>2, <3>3, Twos
      <4> QED BY <1>1, <2>s, <3>3, <4>1 DEF AtStop, Bench!Record
    <3>4. ASSUME Opened /\ queue = <<>> PROVE AtStop'
      <4>1. queue' = <<LaunchNow>> BY <3>2, <3>4, Ones
      <4> QED BY <2>s, <2>o, <3>4, <4>1 DEF AtStop
    <3>5. AtStop' BY <3>1, <3>3, <3>4, Zenon DEF AtLaunch
    <3>6. doing' = "stop" BY <1>a, <2>2
    <3> QED BY <1>1, <1>3, <2>r, <3>5, <3>6 DEF StreamInv
  <2>3. CASE now = "stop"
    <3>1. AtStop BY <1>0, <1>1, <2>3 DEF StreamInv
    <3>2. queue' = Append(queue, Bench!Record("stop")) BY <1>1, <2>3
    <3>3. ASSUME busy = <<>> /\ queue = <<Bench!Record("start"), LaunchNow>> PROVE AtAwait'
      <4>1. queue' = <<Bench!Record("start"), LaunchNow, Bench!Record("stop")>> BY <3>2, <3>3, Threes
      <4> QED BY <1>1, <2>s, <3>3, <4>1 DEF AtAwait, Bench!Record
    <3>4. ASSUME Opened /\ queue = <<LaunchNow>> PROVE AtAwait'
      <4>1. queue' = <<LaunchNow, Bench!Record("stop")>> BY <3>2, <3>4, Twos
      <4> QED BY <2>s, <2>o, <3>4, <4>1 DEF AtAwait, Bench!Record
    <3>5. ASSUME (Underway \/ Ran) /\ queue = <<>> PROVE AtAwait'
      <4>1. queue' = <<Bench!Record("stop")>> BY <3>2, <3>5, Ones
      <4> QED BY <2>o, <3>5, <4>1 DEF AtAwait, Bench!Record
    <3>6. AtAwait' BY <3>1, <3>3, <3>4, <3>5, Zenon DEF AtStop
    <3>7. doing' = "await" BY <1>a, <2>3
    <3> QED BY <1>1, <1>3, <2>r, <3>6, <3>7 DEF StreamInv
  <2> QED BY <2>1, <2>2, <2>3
<1> QED BY <1>2, <1>3, <1>4, <1>5, <1>6, KernelMoves DEF KernelOnly

\* One more of the same worth.
LEMMA WorthGrows ==
  ASSUME IsSeq(samples), AllWorth, NEW e, samples' = Append(samples, e), Worth(Bench!Series, e), todo' = todo
  PROVE  AllWorth' /\ IsSeq(samples') /\ Len(samples') = Len(samples) + 1
<1>1. Longer(samples, e, samples') BY AppendFacts
<1>2. DOMAIN samples = 1..Len(samples) /\ Len(samples) \in Nat BY SeqFacts
<1>3. \A k \in DOMAIN samples' : Worth(Bench!Series, samples'[k])
  <2> SUFFICES ASSUME NEW k \in DOMAIN samples' PROVE Worth(Bench!Series, samples'[k]) OBVIOUS
  <2>1. k \in 1..Len(samples) + 1 BY <1>1 DEF Longer
  <2>2. CASE k \in DOMAIN samples
    <3>1. samples'[k] = samples[k] BY <1>1, <2>2 DEF Longer
    <3>2. Worth(Bench!Series, samples[k]) BY <2>2 DEF AllWorth
    <3> QED BY <3>1, <3>2
  <2>3. CASE k \notin DOMAIN samples
    <3>1. k = Len(samples) + 1 BY <1>2, <2>1, <2>3
    <3> QED BY <1>1, <3>1 DEF Longer
  <2> QED BY <2>2, <2>3
<1>4. Bench!Series' = Bench!Series BY DEF Bench!Series
<1>5. AllWorth' BY <1>3, <1>4 DEF AllWorth, Worth, Alone, Bench!OneRun
<1> QED BY <1>1, <1>5 DEF Longer

\* The time between the two events of a sample is that of one launch.
LEMMA AwaitInv == ASSUME ReportInv, BenchTyped, KernelOnly, Bench!Await PROVE ReportInv'
<1>0. SamplesInv /\ StreamInv BY DEF ReportInv
<1>1. /\ doing = "await" /\ ~sick /\ \A i \in DOMAIN queue : queue[i] # Bench!Record("stop")
      /\ samples' = Append(samples, SubSeq(log, event.start + 1, event.stop)) /\ trip' = trip + 1
      /\ doing' = IF trip + 1 < job.runs THEN "start" ELSE "median"
      /\ UNCHANGED <<todo, numbers>> /\ StreamKept
  BY DEF Bench!Await, Bench!Call, Bench!GoOn, Bench!streamVars, StreamKept
<1>2. doing \in TimingPlaces /\ doing' \in KernelPlaces /\ doing' \in TimingPlaces /\ doing \in TimedPlaces
  BY <1>1 DEF TimingPlaces, KernelPlaces, TimedPlaces
<1>3. /\ doing \in KernelPlaces /\ Ready(Bench!Series.shape) /\ NumbersInv /\ Bench!Series.row \in OfKernel
      /\ IsSeq(log) /\ event \in [{"start", "stop"} -> Nat \cup {-1}] /\ doing \notin Unverified
      /\ job.runs \in Nat \ {0}
  BY <1>2, TimingFacts
<1>4. NumbersInv' BY <1>1, <1>2, <1>3, NumbersKept DEF KernelOnly, Quietly
<1>5. Ran /\ queue = <<>> /\ event.stop = Len(log)
  <2>1. AtAwait BY <1>0, <1>1 DEF StreamInv
  <2>2. ~(queue = <<Bench!Record("start"), LaunchNow, Bench!Record("stop")>>)
    <3>1. PICK a, b, c : a = Bench!Record("start") /\ b = LaunchNow /\ c = Bench!Record("stop") OBVIOUS
    <3>2. 3 \in DOMAIN <<a, b, c>> /\ <<a, b, c>>[3] = c BY Threes
    <3> QED BY <1>1, <3>1, <3>2
  <2>3. ~(queue = <<LaunchNow, Bench!Record("stop")>>)
    <3>1. PICK b, c : b = LaunchNow /\ c = Bench!Record("stop") OBVIOUS
    <3>2. 2 \in DOMAIN <<b, c>> /\ <<b, c>>[2] = c BY Twos
    <3> QED BY <1>1, <3>1, <3>2
  <2>4. ~(queue = <<Bench!Record("stop")>>)
    <3>1. PICK c : c = Bench!Record("stop") OBVIOUS
    <3>2. 1 \in DOMAIN <<c>> /\ <<c>>[1] = c BY Ones
    <3> QED BY <1>1, <3>1, <3>2
  <2> QED BY <2>1, <2>2, <2>3, <2>4, Zenon DEF AtAwait
<1>6. PICK n \in Nat \ {0} : n = Len(log) /\ event.start + 1 = n /\ event.stop = n
  <2>1. Len(log) \in Nat BY <1>3, SeqFacts
  <2>2. event.start \in Nat \cup {-1} BY <1>3
  <2> QED BY <1>5, <2>1, <2>2 DEF Ran
<1>7. SubSeq(log, event.start + 1, event.stop) = <<log[n]>> BY <1>3, <1>6, LastOf
<1>8. Worth(Bench!Series, <<log[n]>>) BY <1>3, <1>5, <1>6 DEF Ran, Worth
<1>9. AllWorth /\ IsSeq(samples) /\ trip = Len(samples) /\ trip < job.runs /\ trip \in Nat
  BY <1>0, <1>2 DEF SamplesInv
<1>10. AllWorth' /\ IsSeq(samples') /\ Len(samples') = Len(samples) + 1
  <2>1. samples' = Append(samples, <<log[n]>>) BY <1>1, <1>7
  <2> QED BY <1>1, <1>8, <1>9, <2>1, WorthGrows
<1>11. SamplesInv'
  <2>1. trip' = Len(samples') /\ trip' \in Nat /\ job' = job BY <1>1, <1>9, <1>10 DEF KernelOnly, Quietly
  <2>2. CASE trip + 1 < job.runs
    <3>1. doing' = "start" /\ trip' < job'.runs BY <1>1, <2>1, <2>2
    <3> QED BY <1>10, <2>1, <3>1 DEF SamplesInv, Between, TimedPlaces
  <2>3. CASE ~(trip + 1 < job.runs)
    <3>1. doing' = "median" BY <1>1, <2>3
    <3>2. Len(samples') = job'.runs BY <1>1, <1>3, <1>9, <2>1, <2>3
    <3> QED BY <1>10, <2>1, <3>1, <3>2 DEF SamplesInv, Between, TimedPlaces
  <2> QED BY <2>2, <2>3
<1>12. StreamInv'
  <2>r. Ready(Bench!Series.shape)' BY <1>1, <1>3, ReadyKept
  <2>1. AtStart' BY <1>1, <1>5 DEF AtStart, Ran, StreamKept
  <2>2. doing' \in {"start", "median"} BY <1>1
  <2>3. IsSeq(log') /\ event' \in [{"start", "stop"} -> Nat \cup {-1}] BY <1>1, <1>3 DEF StreamKept
  <2> QED BY <2>r, <2>1, <2>2, <2>3 DEF StreamInv
<1> QED BY <1>2, <1>3, <1>4, <1>11, <1>12, KernelMoves DEF KernelOnly

\* A number more, of the first of the series that were left.
LEMMA RemainNext ==
  ASSUME NEW S, IsSeq(S), Remain(S), todo # <<>>, IsSeq(numbers), NEW n, Number(S[Len(numbers) + 1], n),
         numbers' = Append(numbers, n), todo' = Tail(todo), UNCHANGED <<job, batch, walk>>
  PROVE  Remain(S)'
<1>1. /\ IsSeq(todo) /\ Len(numbers) + Len(todo) = Len(S)
      /\ \A j \in DOMAIN todo : todo[j] = S[Len(numbers) + j]
      /\ \A j \in DOMAIN numbers : Number(S[j], numbers[j])
  BY DEF Remain, Measured
<1>2. /\ Len(todo) \in Nat \ {0} /\ IsSeq(todo') /\ Len(todo') = Len(todo) - 1
      /\ \A j \in DOMAIN todo' : todo'[j] = todo[j + 1]
  BY <1>1, FirstAndRest
<1>3. Longer(numbers, n, numbers') BY AppendFacts
<1>4. Len(numbers) \in Nat /\ DOMAIN numbers = 1..Len(numbers) BY SeqFacts
<1>5. Len(S) \in Nat BY SeqFacts
<1>6. IsSeq(numbers') /\ Len(numbers') = Len(numbers) + 1 /\ DOMAIN numbers' = 1..Len(numbers) + 1
  BY <1>3 DEF Longer
<1>7. ASSUME NEW j \in DOMAIN numbers' PROVE Number(S[j], numbers'[j])
  <2>1. CASE j \in DOMAIN numbers
    <3>1. numbers'[j] = numbers[j] BY <1>3, <2>1 DEF Longer
    <3> QED BY <1>1, <2>1, <3>1
  <2>2. CASE j \notin DOMAIN numbers
    <3>1. j = Len(numbers) + 1 BY <1>4, <1>6, <2>2
    <3>2. numbers'[j] = n BY <1>3, <3>1 DEF Longer
    <3> QED BY <3>1, <3>2
  <2> QED BY <2>1, <2>2
<1>8. Measured(S)'
  <2>1. \A s, m : Number(s, m)' <=> Number(s, m) BY SeriesStay
  <2>3. Len(numbers') <= Len(S) BY <1>1, <1>2, <1>4, <1>5, <1>6
  <2> QED BY <1>6, <1>7, <2>1, <2>3 DEF Measured, Number, Worth, Alone, Bench!OneRun
<1>9. \A j \in DOMAIN todo' : todo'[j] = S[Len(numbers') + j]
  <2> SUFFICES ASSUME NEW j \in DOMAIN todo' PROVE todo'[j] = S[Len(numbers') + j] OBVIOUS
  <2>1. DOMAIN todo' = 1..Len(todo') /\ DOMAIN todo = 1..Len(todo) BY <1>1, <1>2, SeqFacts
  <2>2. j \in Nat /\ j + 1 \in DOMAIN todo BY <1>2, <2>1
  <2>3. todo'[j] = S[Len(numbers) + (j + 1)] BY <1>1, <1>2, <2>2
  <2>4. Len(numbers) + (j + 1) = Len(numbers') + j BY <1>4, <1>6, <2>2
  <2> QED BY <2>3, <2>4
<1>10. Len(numbers') + Len(todo') = Len(S) BY <1>1, <1>2, <1>4, <1>6
<1> QED BY <1>2, <1>8, <1>9, <1>10 DEF Remain

LEMMA KernelMedianInv == ASSUME ReportInv, BenchTyped, KernelOnly, Bench!KernelMedian PROVE ReportInv'
<1>0. SamplesInv /\ StreamInv BY DEF ReportInv
<1>1. PICK n : /\ n = [row |-> Bench!Series.row, samples |-> samples, corpus |-> batch]
               /\ numbers' = Append(numbers, n)
               /\ doing = "median" /\ doing' = "series" /\ todo' = Tail(todo) /\ samples' = <<>> /\ trip' = 0
               /\ StreamKept
  BY DEF Bench!KernelMedian, Bench!Median, Bench!GoOn, Bench!streamVars, StreamKept
<1>2. doing \in TimingPlaces /\ doing' \in KernelPlaces /\ doing' \notin TimingPlaces
  BY <1>1 DEF TimingPlaces, KernelPlaces
<1>3. doing \in KernelPlaces /\ todo # <<>> /\ doing \notin Unverified BY <1>2, TimingFacts
<1>4. KernelKnown BY <1>3, KernelKnows
<1>5. PICK S : S = SeriesOf OBVIOUS
<1>6. Remain(S) /\ IsSeq(S)
  <2>1. PointsInv BY DEF ReportInv
  <2> QED BY <1>4, <1>5, <2>1, SeriesAre DEF KernelKnown
<1>7. Bench!Series = S[Len(numbers) + 1] BY <1>3, <1>5, SeriesNow
<1>8. Number(S[Len(numbers) + 1], n)
  <2>1. Len(samples) = job.runs /\ AllWorth BY <1>0, <1>1 DEF SamplesInv
  <2>2. n.row = Bench!Series.row /\ n.samples = samples /\ n.corpus = batch BY <1>1
  <2> QED BY <1>7, <2>1, <2>2 DEF Number, AllWorth
<1>9. Remain(S)'
  <2>1. IsSeq(numbers) BY <1>6 DEF Remain, Measured
  <2> QED BY <1>1, <1>3, <1>6, <1>8, <2>1, RemainNext DEF KernelOnly, Quietly
<1>10. SeriesOf' = S BY <1>5, SameSeries DEF KernelOnly, Quietly
<1>11. NumbersInv'
  <2>1. doing' \notin ContextPlaces BY <1>1 DEF ContextPlaces
  <2>2. Remain(SeriesOf)' BY <1>9, <1>10 DEF Remain, Measured
  <2> QED BY <2>1, <2>2 DEF NumbersInv
<1>12. SamplesInv' BY <1>1, EmptyIs DEF SamplesInv, Between, TimedPlaces
<1>13. StreamInv' BY <1>0, <1>1, <1>2, StreamFree DEF StreamKept
<1> QED BY <1>2, <1>3, <1>11, <1>12, <1>13, KernelMoves DEF KernelOnly

LEMMA KernelTimingInv == ASSUME ReportInv, BenchTyped, Bench!KernelTiming PROVE ReportInv'
<1>1. KernelOnly BY KernelOnlyIs
<1> QED
  BY <1>1, UploadInv, FirstLaunchInv, FirstResultInv, NextSeriesInv, WarmUpInv, SettleInv, TimedCallInv,
     AwaitInv, KernelMedianInv DEF Bench!KernelTiming

-----------------------------------------------------------------------------
(* The timing of a streaming context.                                      *)

\* What is known while one is timed.
ContextKnown ==
  /\ job \in Asked /\ job.bench = "lz4" /\ ~job.frame /\ job.context /\ Plain /\ ~SweepJob /\ ~FrameJob
  /\ batch \in Batches /\ Shaped(batch) /\ Gated(batch) /\ (doing # "context_verify" => Bench!IsVerified)
  /\ At(CtxAt) /\ exit = -1 /\ todo # <<>> /\ Remain(Bench!ContextSeries)
LEMMA ContextKnows == ASSUME ReportInv, doing \in ContextPlaces PROVE ContextKnown
<1>0. AskInv /\ PlaceInv /\ CorpusInv /\ NumbersInv /\ ProgressInv BY DEF ReportInv
<1>1. doing \notin {"idle", "options", "build", "exited", "verify", "failed"}
  BY DEF ContextPlaces
<1>2. job \in Asked /\ job.bench = "lz4" /\ ~job.frame /\ job.context BY <1>0, <1>1, Where
<1>3. Plain /\ ~SweepJob /\ ~FrameJob BY <1>2 DEF Plain, FrameJob, SweepJob
<1>4. CorpusAt(doing) BY <1>0 DEF CorpusInv
<1>5. batch \in Batches /\ Shaped(batch) /\ Gated(batch) BY <1>1, <1>3, <1>4 DEF CorpusAt
<1>6. doing # "context_verify" => Bench!IsVerified
  <2>1. doing # "context_verify" => doing \notin Unverified BY DEF ContextPlaces, Unverified
  <2> QED BY <1>4, <2>1 DEF CorpusAt
<1>7. At(CtxAt)
  <2>1. PlainProgress(doing) BY <1>0, <1>3 DEF ProgressInv, ProgressAt
  <2> QED BY <2>1 DEF PlainProgress
<1>8. todo # <<>> /\ Remain(Bench!ContextSeries) BY <1>0 DEF NumbersInv
<1>9. exit = -1 BY <1>0, <1>1, AskParts DEF Parted
<1> QED BY <1>2, <1>3, <1>5, <1>6, <1>7, <1>8, <1>9 DEF ContextKnown

ContextOnly == Quietly /\ UNCHANGED <<log, event>>

\* From one place of it to another nothing is printed.
LEMMA ContextMoves ==
  ASSUME ReportInv, doing \in ContextPlaces, NEW q \in ContextPlaces, doing' = q, ContextOnly,
         q # "context_verify" => Bench!IsVerified,
         ContextInv', SamplesInv', NumbersInv'
  PROVE  ReportInv'
<1>0. DriftInv /\ StreamInv BY DEF ReportInv
<1>1. ContextKnown BY ContextKnows
<1>n. /\ Interior(doing) /\ Interior(q)
      /\ q \notin {"verify", "failed", "exited", "measured", "build", "finish", "options", "idle"}
      /\ doing \notin {"verify", "failed", "exited", "measured", "build", "finish", "options", "idle"}
      /\ q \notin FramePlaces \cup {"count", "census", "residency", "rung"}
      /\ q \notin KernelPlaces /\ q \notin TimingPlaces
      /\ q \notin {"literals", "gpu", "context", "judge", "digest", "cell", "cpu_warmup", "cpu_run", "report"}
  BY DEF Interior, KernelPlaces, TimingPlaces, FramePlaces, ContextPlaces
<1>2. q \in PlacesOf BY <1>1, PlacesAre DEF ContextKnown
<1>3. CorpusAt(q)
  <2>1. q \notin Unverified => Bench!IsVerified BY DEF Unverified
  <2> QED BY <1>1, <1>n, <2>1 DEF CorpusAt, ContextKnown
<1>4. ProgressAt(q)
  <2>1. PlainProgress(q) BY <1>1, <1>n DEF PlainProgress, ContextKnown
  <2> QED BY <1>1, <2>1 DEF ProgressAt, ContextKnown
<1>5. DriftAt(q) BY <1>0, <1>n DEF DriftInv, DriftAt, Printed
<1>6. StreamInv' BY <1>0, <1>n, StreamFree DEF ContextOnly
<1> QED BY <1>1, <1>2, <1>3, <1>4, <1>5, <1>6, <1>n, HostMoves DEF ContextOnly, ContextKnown

LEMMA ContextKept ==
  ASSUME NumbersInv, doing \in ContextPlaces, doing' \in ContextPlaces,
         UNCHANGED <<job, batch, walk, numbers, todo>>
  PROVE  NumbersInv'
<1>1. todo # <<>> /\ Remain(Bench!ContextSeries) BY DEF NumbersInv
<1>2. PICK S : S = Bench!ContextSeries OBVIOUS
<1>3. Bench!ContextSeries' = S BY <1>2, SeriesStay
<1>4. Remain(S)' <=> Remain(S) BY SeriesStay
<1>5. doing' \notin KernelPlaces BY DEF KernelPlaces, TimingPlaces, ContextPlaces
<1>6. Remain(Bench!ContextSeries)' BY <1>1, <1>2, <1>3, <1>4 DEF Remain, Measured
<1> QED BY <1>1, <1>5, <1>6 DEF NumbersInv

\* The series under way is one of the four, and none of a kernel.
LEMMA ContextNow ==
  ASSUME ContextKnown
  PROVE  /\ Bench!Series = Bench!ContextSeries[Len(numbers) + 1] /\ Bench!Series.row \notin OfKernel
         /\ Bench!Series.row \in {"device_steady", "host_steady", "device_cold", "host_cold"}
         /\ Len(numbers) \in Nat /\ IsSeq(numbers) /\ IsSeq(todo) /\ Len(numbers) + Len(todo) = 4
<1>1. PICK S : S = Bench!ContextSeries OBVIOUS
<1>2. /\ IsSeq(S) /\ Len(S) = 4 /\ \A j \in 1..4 : S[j].row = ContextRows[j]
      /\ \A j \in 1..4 : S[j].row \notin OfKernel
      /\ \A j \in 1..4 : ContextRows[j] \in {"device_steady", "host_steady", "device_cold", "host_cold"}
  BY <1>1, ContextIs
<1>3. /\ IsSeq(numbers) /\ IsSeq(todo) /\ Len(numbers) + Len(todo) = Len(S)
      /\ \A j \in DOMAIN todo : todo[j] = S[Len(numbers) + j]
  BY <1>1 DEF ContextKnown, Remain, Measured
<1>4. Head(todo) = todo[1] /\ 1 \in DOMAIN todo /\ Len(todo) \in Nat \ {0}
  BY <1>3, FirstAndRest DEF ContextKnown
<1>5. Len(numbers) \in Nat BY <1>3, SeqFacts
<1>6. PICK j \in 1..4 : j = Len(numbers) + 1 BY <1>2, <1>3, <1>4, <1>5
<1>7. Bench!Series = S[j] BY <1>3, <1>4, <1>6 DEF Bench!Series
<1> QED BY <1>1, <1>2, <1>3, <1>5, <1>6, <1>7

LEMMA ContextOnlyIs == ASSUME Bench!ContextTiming PROVE ContextOnly
BY DEF Bench!ContextTiming, ContextOnly, Quietly, Bench!mainVars, Bench!streamVars

LEMMA ContextVerifyInv == ASSUME ReportInv, ContextOnly, Bench!ContextVerify PROVE ReportInv'
<1>0. NumbersInv /\ SamplesInv /\ ContextInv BY DEF ReportInv
<1>1. /\ doing = "context_verify" /\ UNCHANGED <<trip, todo, samples, numbers, context>>
      /\ doing' = IF Bench!IsVerified THEN "create" ELSE "failed"
  BY DEF Bench!ContextVerify, Bench!GoOn
<1>2. doing \in ContextPlaces BY <1>1 DEF ContextPlaces
<1>3. samples = <<>> /\ trip = 0 /\ context = "none" BY <1>0, <1>1 DEF SamplesInv, Between, ContextInv
<1>4. CASE Bench!IsVerified
  <2>1. doing' = "create" /\ doing' \in ContextPlaces BY <1>1, <1>4 DEF ContextPlaces
  <2>2. NumbersInv' BY <1>0, <1>1, <1>2, <2>1, ContextKept DEF ContextOnly, Quietly
  <2>3. ContextInv' BY <1>1, <1>3, <2>1 DEF ContextInv
  <2>4. SamplesInv'
    <3>1. job \in Asked BY <1>2, ContextKnows DEF ContextKnown
    <3>2. job.runs \in Nat \ {0} BY <3>1, AskedFacts
    <3>3. samples' = <<>> /\ trip' = 0 /\ job' = job BY <1>1, <1>3 DEF ContextOnly, Quietly
    <3>4. AllWorth' BY <3>3, EmptyIs DEF AllWorth
    <3>5. trip' = Len(samples') /\ trip' < job'.runs /\ trip' \in Nat /\ IsSeq(samples')
      BY <3>2, <3>3, EmptyIs
    <3> QED BY <2>1, <3>3, <3>4, <3>5 DEF SamplesInv, Between, TimedPlaces
  <2> QED BY <1>2, <1>4, <2>1, <2>2, <2>3, <2>4, ContextMoves
<1>5. CASE ~Bench!IsVerified
  <2>1. doing' = "failed" BY <1>1, <1>5
  <2>2. doing \in Breaking BY <1>2 DEF Breaking
  <2>3. IsSeq(samples') /\ trip' \in Nat /\ context' = "none" BY <1>1, <1>3, EmptyIs
  <2> QED BY <1>1, <2>1, <2>2, <2>3, Breaks DEF ContextOnly
<1> QED BY <1>4, <1>5

LEMMA CreateInv == ASSUME ReportInv, ContextOnly, Bench!Create PROVE ReportInv'
<1>0. NumbersInv /\ SamplesInv /\ ContextInv BY DEF ReportInv
<1>1. /\ doing = "create" /\ UNCHANGED <<trip, todo, samples, numbers>> /\ context' = "fresh"
      /\ doing' = IF Bench!Cold THEN "timed" ELSE "untimed"
  BY DEF Bench!Create, Bench!GoOn
<1>2. doing \in ContextPlaces /\ doing' \in ContextPlaces BY <1>1 DEF ContextPlaces
<1>3. Bench!IsVerified BY <1>1, <1>2, ContextKnows DEF ContextKnown
<1>4. NumbersInv' BY <1>0, <1>1, <1>2, ContextKept DEF ContextOnly, Quietly
<1>5. Bench!Cold' = Bench!Cold BY <1>1 DEF Bench!Cold, Bench!Series
<1>6. /\ trip \in Nat /\ trip = Len(samples) /\ trip < job.runs /\ AllWorth /\ IsSeq(samples)
      /\ (~Bench!Cold => trip = 0)
  BY <1>0, <1>1 DEF SamplesInv, ContextInv
<1>7. CASE Bench!Cold
  <2>1. doing' = "timed" BY <1>1, <1>7
  <2>2. ContextInv' BY <1>1, <1>5, <1>7, <2>1 DEF ContextInv
  <2>3. SamplesInv'
    <3>1. AllWorth' BY <1>1, <1>6 DEF AllWorth, Worth, Alone, Bench!OneRun, Bench!Series
    <3> QED BY <1>1, <1>6, <2>1, <3>1 DEF SamplesInv, Between, TimedPlaces, ContextOnly, Quietly
  <2> QED BY <1>2, <1>3, <1>4, <2>2, <2>3, ContextMoves
<1>8. CASE ~Bench!Cold
  <2>1. doing' = "untimed" BY <1>1, <1>8
  <2>2. trip' = 0 BY <1>1, <1>6, <1>8
  <2>3. ContextInv' BY <1>5, <1>8, <2>1, <2>2 DEF ContextInv
  <2>4. SamplesInv'
    <3>1. samples' = <<>> BY <1>1, <1>6, <1>8, SeqFacts
    <3> QED BY <2>1, <2>2, <3>1, EmptyIs DEF SamplesInv, Between, TimedPlaces
  <2> QED BY <1>2, <1>3, <1>4, <2>3, <2>4, ContextMoves
<1> QED BY <1>7, <1>8

LEMMA UntimedDecodeInv == ASSUME ReportInv, ContextOnly, Bench!UntimedDecode PROVE ReportInv'
<1>0. NumbersInv /\ SamplesInv /\ ContextInv BY DEF ReportInv
<1>1. /\ doing = "untimed" /\ UNCHANGED <<todo, samples, numbers>>
      /\ \/ trip' = trip + 1 /\ context' = "grown" /\ doing' = "untimed"
         \/ ~(trip < Bench!Untimed) /\ trip' = 0 /\ doing' = "timed" /\ context' = context
  BY DEF Bench!UntimedDecode, Bench!GoOn
<1>2. doing \in ContextPlaces /\ doing' \in ContextPlaces BY <1>1 DEF ContextPlaces
<1>3. Bench!IsVerified /\ job \in Asked BY <1>1, <1>2, ContextKnows DEF ContextKnown
<1>4. NumbersInv' BY <1>0, <1>1, <1>2, ContextKept DEF ContextOnly, Quietly
<1>5. Bench!Cold' = Bench!Cold BY <1>1 DEF Bench!Cold, Bench!Series
<1>6. trip \in Nat /\ samples = <<>> /\ ~Bench!Cold /\ (trip # 0 => context = "grown")
  BY <1>0, <1>1 DEF SamplesInv, ContextInv
<1>7. CASE trip' = trip + 1 /\ context' = "grown" /\ doing' = "untimed"
  <2>1. ContextInv' BY <1>5, <1>6, <1>7 DEF ContextInv
  <2>2. samples' = <<>> /\ trip' \in Nat BY <1>1, <1>6, <1>7
  <2>3. SamplesInv' BY <1>7, <2>2, EmptyIs DEF SamplesInv, Between, TimedPlaces
  <2> QED BY <1>2, <1>3, <1>4, <2>1, <2>3, ContextMoves
<1>8. CASE ~(trip < Bench!Untimed) /\ trip' = 0 /\ doing' = "timed" /\ context' = context
  <2>1. job.warmup \in Nat /\ job.runs \in Nat \ {0} BY <1>3, AskedFacts
  <2>2. trip # 0 BY <1>6, <1>8, <2>1 DEF Bench!Untimed
  <2>3. ContextInv' BY <1>5, <1>6, <1>8, <2>2 DEF ContextInv
  <2>4. samples' = <<>> /\ trip' = 0 /\ job' = job BY <1>1, <1>6, <1>8 DEF ContextOnly, Quietly
  <2>5. AllWorth' BY <2>4, EmptyIs DEF AllWorth
  <2>6. SamplesInv' BY <1>8, <2>1, <2>4, <2>5, EmptyIs DEF SamplesInv, Between, TimedPlaces
  <2> QED BY <1>2, <1>3, <1>4, <2>3, <2>6, ContextMoves
<1> QED BY <1>1, <1>7, <1>8

LEMMA TimedDecodeInv == ASSUME ReportInv, ContextOnly, Bench!TimedDecode PROVE ReportInv'
<1>0. NumbersInv /\ SamplesInv /\ ContextInv BY DEF ReportInv
<1>1. /\ doing = "timed" /\ UNCHANGED <<todo, numbers>>
      /\ samples' = Append(samples, Bench!During) /\ trip' = trip + 1
      /\ context' = (IF trip + 1 = job.runs \/ Bench!Cold THEN "none" ELSE "grown")
      /\ doing' = (IF trip + 1 = job.runs THEN "context_median" ELSE IF Bench!Cold THEN "create" ELSE "timed")
  BY DEF Bench!TimedDecode, Bench!GoOn
<1>2. doing \in ContextPlaces /\ doing' \in ContextPlaces BY <1>1 DEF ContextPlaces
<1>3. ContextKnown BY <1>2, ContextKnows
<1>4. Bench!IsVerified /\ job \in Asked BY <1>1, <1>3 DEF ContextKnown
<1>5. NumbersInv' BY <1>0, <1>1, <1>2, ContextKept DEF ContextOnly, Quietly
<1>6. Bench!Cold' = Bench!Cold BY <1>1 DEF Bench!Cold, Bench!Series
<1>7. /\ trip \in Nat /\ trip = Len(samples) /\ trip < job.runs /\ AllWorth /\ IsSeq(samples)
      /\ context = IF Bench!Cold THEN "fresh" ELSE "grown"
  BY <1>0, <1>1 DEF SamplesInv, ContextInv, TimedPlaces
<1>8. Worth(Bench!Series, Bench!During)
  <2>1. /\ Bench!Series.row \notin OfKernel
        /\ Bench!Series.row \in {"device_steady", "host_steady", "device_cold", "host_cold"}
    BY <1>3, ContextNow
  <2>2. Bench!OneRun(Bench!Series.row, Bench!During)
    <3>1. CASE Bench!Cold
      <4>1. Bench!During = <<"grow", "decode">> BY <1>7, <3>1 DEF Bench!During
      <4>2. Bench!Series.row \in {"device_cold", "host_cold"} BY <3>1 DEF Bench!Cold
      <4> QED BY <4>1, <4>2, Zenon DEF Bench!OneRun
    <3>2. CASE ~Bench!Cold
      <4>1. Bench!During = <<"decode">> BY <1>7, <3>2 DEF Bench!During
      <4>2. Bench!Series.row \in {"device_steady", "host_steady"} BY <2>1, <3>2 DEF Bench!Cold
      <4> QED BY <4>1, <4>2, Zenon DEF Bench!OneRun
    <3> QED BY <3>1, <3>2
  <2> QED BY <2>1, <2>2 DEF Worth
<1>9. PICK e : e = Bench!During OBVIOUS
<1>10. AllWorth' /\ IsSeq(samples') /\ Len(samples') = Len(samples) + 1
  BY <1>1, <1>7, <1>8, <1>9, WorthGrows
<1>11. trip' = Len(samples') /\ trip' \in Nat /\ job' = job /\ job.runs \in Nat
  BY <1>1, <1>4, <1>7, <1>10, AskedFacts DEF ContextOnly, Quietly
<1>12. CASE trip + 1 = job.runs
  <2>1. doing' = "context_median" /\ context' = "none" BY <1>1, <1>12
  <2>2. ContextInv' BY <2>1 DEF ContextInv
  <2>3. Len(samples') = job'.runs BY <1>1, <1>11, <1>12
  <2>4. SamplesInv' BY <1>10, <1>11, <2>1, <2>3 DEF SamplesInv, Between, TimedPlaces
  <2> QED BY <1>2, <1>4, <1>5, <2>2, <2>4, ContextMoves
<1>13. CASE trip + 1 # job.runs
  <2>1. trip' < job'.runs BY <1>1, <1>7, <1>11, <1>13
  <2>2. doing' \in {"create", "timed"} BY <1>1, <1>13
  <2>3. SamplesInv' BY <1>10, <1>11, <2>1, <2>2 DEF SamplesInv, Between, TimedPlaces
  <2>4. ContextInv' BY <1>1, <1>6, <1>13 DEF ContextInv
  <2> QED BY <1>2, <1>4, <1>5, <2>3, <2>4, ContextMoves
<1> QED BY <1>12, <1>13

LEMMA ContextMedianInv == ASSUME ReportInv, ContextOnly, Bench!ContextMedian PROVE ReportInv'
<1>0. SamplesInv /\ ContextInv /\ StreamInv /\ DriftInv BY DEF ReportInv
<1>1. PICK n : /\ n = [row |-> Bench!Series.row, samples |-> samples, corpus |-> batch]
               /\ numbers' = Append(numbers, n)
               /\ doing = "context_median" /\ todo' = Tail(todo) /\ samples' = <<>> /\ trip' = 0
               /\ context' = context /\ doing' = IF Len(todo) = 1 THEN "measured" ELSE "create"
  BY DEF Bench!ContextMedian, Bench!Median, Bench!GoOn
<1>2. doing \in ContextPlaces BY <1>1 DEF ContextPlaces
<1>3. ContextKnown BY <1>2, ContextKnows
<1>4. Bench!IsVerified /\ job \in Asked /\ todo # <<>> /\ job.runs \in Nat \ {0}
  BY <1>1, <1>3, AskedFacts DEF ContextKnown
<1>5. PICK S : S = Bench!ContextSeries OBVIOUS
<1>6. Remain(S) /\ IsSeq(S) /\ Len(S) = 4 BY <1>3, <1>5, ContextIs DEF ContextKnown
<1>7. /\ Bench!Series = S[Len(numbers) + 1] /\ Len(numbers) \in Nat /\ IsSeq(numbers) /\ IsSeq(todo)
      /\ Len(numbers) + Len(todo) = 4
  BY <1>3, <1>5, ContextNow
<1>8. Number(S[Len(numbers) + 1], n)
  <2>1. Len(samples) = job.runs /\ AllWorth BY <1>0, <1>1 DEF SamplesInv
  <2>2. n.row = Bench!Series.row /\ n.samples = samples /\ n.corpus = batch BY <1>1
  <2> QED BY <1>7, <2>1, <2>2 DEF Number, AllWorth
<1>9. Remain(S)' BY <1>1, <1>4, <1>6, <1>7, <1>8, RemainNext DEF ContextOnly, Quietly
<1>10. Bench!ContextSeries' = S BY <1>5, SameSeries DEF ContextOnly, Quietly
<1>11. /\ IsSeq(todo') /\ Len(todo') = Len(todo) - 1 /\ Len(todo) \in Nat \ {0}
       /\ Len(numbers') = Len(numbers) + 1
  <2>1. Longer(numbers, n, numbers') BY <1>1, <1>7, AppendFacts
  <2> QED BY <1>1, <1>4, <1>7, <2>1, FirstAndRest DEF Longer
<1>12. context' = "none" BY <1>0, <1>1 DEF ContextInv
<1>13. CASE Len(todo) # 1
  <2>1. doing' = "create" /\ doing' \in ContextPlaces BY <1>1, <1>13 DEF ContextPlaces
  <2>2. NumbersInv'
    <3>1. todo' # <<>> BY <1>11, <1>13, EmptyIs
    <3>2. Remain(Bench!ContextSeries)' BY <1>9, <1>10 DEF Remain, Measured
    <3>3. doing' \notin KernelPlaces BY <2>1 DEF KernelPlaces, TimingPlaces
    <3> QED BY <3>1, <3>2, <3>3 DEF NumbersInv
  <2>3. ContextInv' BY <1>1, <1>12, <2>1 DEF ContextInv
  <2>4. SamplesInv'
    <3>1. AllWorth' BY <1>1, EmptyIs DEF AllWorth
    <3>2. trip' = Len(samples') /\ trip' < job'.runs /\ trip' \in Nat /\ IsSeq(samples')
      BY <1>1, <1>4, EmptyIs DEF ContextOnly, Quietly
    <3> QED BY <2>1, <3>1, <3>2 DEF SamplesInv, Between, TimedPlaces
  <2> QED BY <1>2, <1>4, <2>1, <2>2, <2>3, <2>4, ContextMoves
<1>14. CASE Len(todo) = 1
  <2>q. PICK q : q = "measured" OBVIOUS
  <2>1. doing' = q BY <1>1, <1>14, <2>q
  <2>2. Interior(doing) /\ Interior(q) BY <1>1, <2>q DEF Interior
  <2>3. q \in PlacesOf BY <1>3, <2>q, PlacesAre DEF ContextKnown
  <2>4. CorpusAt(q) BY <1>3, <1>4, <2>q DEF CorpusAt, ContextKnown, FramePlaces, Unverified
  <2>5. DriftAt(q)
    <3>1. DriftAt("context_median") BY <1>0, <1>1 DEF DriftInv
    <3> QED BY <1>2, <1>1, <2>q, <3>1 DEF DriftAt, Printed
  <2>6. ProgressAt(q)'
    <3>1. /\ job' = job /\ walk' = walk /\ rows' = rows BY DEF ContextOnly, Quietly
    <3>2. At(CtxAt)'
      <4>1. At(CtxAt) BY <1>3 DEF ContextKnown
      <4>2. Unit' = Unit /\ Units' = Units /\ CtxAt' = CtxAt BY <3>1, JobFixes
      <4> QED BY <3>1, <4>1, <4>2 DEF At
    <3>3. Measured(Bench!ContextSeries)' /\ Len(numbers') = 4
      <4>1. Measured(Bench!ContextSeries)' BY <1>9, <1>10 DEF Remain, Measured
      <4> QED BY <1>7, <1>11, <1>14, <4>1
    <3>4. job'.bench = "lz4" /\ job'.context /\ ~SweepJob' /\ ~FrameJob'
      BY <1>3, <3>1 DEF ContextKnown, SweepJob, FrameJob
    <3>5. PlainProgress(q)'
      BY <2>q, <3>2, <3>3, <3>4 DEF PlainProgress, KernelPlaces, TimingPlaces, ContextPlaces
    <3> QED BY <3>4, <3>5 DEF ProgressAt
  <2>7. SamplesInv' BY <1>1, <2>1, <2>q, EmptyIs DEF SamplesInv, Between, TimedPlaces
  <2>8. StreamInv' BY <1>0, <2>1, <2>q, StreamFree DEF ContextOnly, TimingPlaces
  <2>9. ContextInv' BY <1>12, <2>1, <2>q DEF ContextInv
  <2>10. NumbersInv' BY <2>1, <2>q DEF NumbersInv, KernelPlaces, TimingPlaces, ContextPlaces
  <2>11. ~SweepJob BY <1>3 DEF ContextKnown
  <2> QED BY <2>1, <2>2, <2>3, <2>4, <2>5, <2>6, <2>7, <2>8, <2>9, <2>10, <2>11, HostMovesTo DEF ContextOnly
<1> QED BY <1>13, <1>14

LEMMA ContextTimingInv == ASSUME ReportInv, Bench!ContextTiming PROVE ReportInv'
<1>1. ContextOnly BY ContextOnlyIs
<1> QED
  BY <1>1, ContextVerifyInv, CreateInv, UntimedDecodeInv, TimedDecodeInv, ContextMedianInv
     DEF Bench!ContextTiming

LEMMA CallFailsInv == ASSUME ReportInv, Bench!CallFails PROVE ReportInv'
<1>1. /\ doing \in Bench!RuntimePlaces /\ doing' = "failed" /\ context' = "none"
      /\ UNCHANGED <<trip, samples, log, event, numbers>> /\ Quietly
  BY DEF Bench!CallFails, Bench!GoOn, Bench!streamVars, Bench!mainVars, Quietly
<1>2. doing \in Breaking
  BY <1>1 DEF Bench!RuntimePlaces, Breaking, KernelPlaces, TimingPlaces, ContextPlaces
<1>3. IsSeq(samples) /\ trip \in Nat BY DEF ReportInv, SamplesInv
<1> QED BY <1>1, <1>2, <1>3, Breaks

-----------------------------------------------------------------------------
(* The device, and whatever else leaves the host where it is.              *)

HostKept ==
  UNCHANGED <<job, batch, walk, rows, exit, doing, trip, todo, samples, numbers, context>>
LEMMA ReportKept ==
  ASSUME ReportInv, HostKept, StreamInv' PROVE ReportInv'
<1>0. /\ AskInv /\ PlaceInv /\ CorpusInv /\ PointsInv /\ SamplesInv /\ ContextInv
      /\ NumbersInv /\ RowsInv /\ ProgressInv /\ DriftInv /\ ExitInv
  BY DEF ReportInv
<1>1. /\ job' = job /\ batch' = batch /\ walk' = walk /\ rows' = rows /\ exit' = exit /\ doing' = doing
      /\ trip' = trip /\ todo' = todo /\ samples' = samples /\ numbers' = numbers /\ context' = context
  BY DEF HostKept
<1>f. /\ Unit' = Unit /\ Units' = Units /\ (FrameJob' <=> FrameJob) /\ (SweepJob' <=> SweepJob)
      /\ (Judged' <=> Judged) /\ (\A i : RowName(i)' = RowName(i)) /\ (\A b : Shaped(b)' <=> Shaped(b))
  BY <1>1, JobFixes
<1>2. AskInv' BY <1>0, <1>1 DEF AskInv
<1>3. PlaceInv' BY <1>0, <1>1, SamePlaces DEF PlaceInv
<1>4. CorpusInv' BY <1>0, <1>1, SameCorpus DEF CorpusInv, CorpusAt
<1>5. PointsInv' BY <1>0, <1>1, PointsStay
<1>6. SamplesInv'
  <2>1. Bench!Series' = Bench!Series BY <1>1 DEF Bench!Series
  <2>2. AllWorth => AllWorth' BY <1>1, <2>1 DEF AllWorth, Worth, Alone, Bench!OneRun
  <2>3. Decodes => Decodes' BY <1>1 DEF Decodes
  <2> QED BY <1>0, <1>1, <2>2, <2>3 DEF SamplesInv
<1>7. ContextInv' BY <1>0, <1>1 DEF ContextInv, Bench!Cold, Bench!Series
<1>8. NumbersInv'
  <2>1. PICK S, T : S = SeriesOf /\ T = Bench!ContextSeries OBVIOUS
  <2>2. SeriesOf' = S /\ Bench!ContextSeries' = T BY <1>1, <2>1, SeriesStay
  <2>3. (Remain(S)' <=> Remain(S)) /\ (Remain(T)' <=> Remain(T)) BY <1>1, SeriesStay
  <2>4. doing' \in KernelPlaces => Remain(SeriesOf)'
    BY <1>0, <1>1, <2>1, <2>2, <2>3 DEF NumbersInv, Remain, Measured
  <2>5. doing' \in ContextPlaces => todo' # <<>> /\ Remain(Bench!ContextSeries)'
    BY <1>0, <1>1, <2>1, <2>2, <2>3 DEF NumbersInv, Remain, Measured
  <2> QED BY <2>4, <2>5 DEF NumbersInv
<1>9. RowsInv'
  <2>1. \A i \in DOMAIN rows : RowWorth(i, rows[i]) /\ (exit # 2 => rows[i].row = RowName(i))
    BY <1>0 DEF RowsInv
  <2>2. ASSUME NEW i \in DOMAIN rows PROVE RowWorth(i, rows[i])' /\ (exit # 2 => rows[i].row = RowName(i)')
    BY <1>1, <1>f, <2>1 DEF RowWorth, Gated
  <2> QED BY <1>0, <1>1, <2>2 DEF RowsInv
<1>10. ProgressInv' BY <1>0, <1>1, SameProgress DEF ProgressInv
<1>11. DriftInv' BY <1>0, <1>1, SameDrift DEF DriftInv, DriftAt
<1>12. ExitInv'
  <2>1. WantedLen' = WantedLen BY <1>1, WantedStays
  <2>2. (Pinned' <=> Pinned) /\ (Alive' <=> Alive) BY <1>1, <1>f DEF Pinned, Alive, Bench!Guards
  <2> QED BY <1>0, <1>1, <2>1, <2>2 DEF ExitInv
<1> QED BY <1>2, <1>3, <1>4, <1>5, <1>6, <1>7, <1>8, <1>9, <1>10, <1>11, <1>12 DEF ReportInv

LEMMA DeviceKeeps == ASSUME Bench!Device PROVE HostKept
BY DEF Bench!Device, HostKept, Bench!hostVars, Bench!mainVars

LEMMA SameLaunch ==
  ASSUME HostKept, StreamInv
  PROVE  /\ Bench!Series' = Bench!Series /\ LaunchNow' = LaunchNow
         /\ doing' \in TimingPlaces => Ready(Bench!Series.shape)'
<1>1. todo' = todo /\ doing' = doing BY DEF HostKept
<1>2. doing \in TimingPlaces => Ready(Bench!Series.shape) BY DEF StreamInv
<1>3. Bench!Series' = Bench!Series BY <1>1 DEF Bench!Series
<1>4. LaunchNow' = LaunchNow BY <1>3 DEF LaunchNow, Bench!LaunchOf
<1> QED BY <1>1, <1>2, <1>3, <1>4, ReadyKept

\* The kinds of what is on the stream.
LEMMA KindsAre ==
  /\ LaunchNow.kind = "launch" /\ LaunchNow.row = Bench!Series.row /\ LaunchNow.shape = Bench!Series.shape
  /\ \A e : Bench!Record(e).kind = "record" /\ Bench!Record(e).event = e
BY DEF LaunchNow, Bench!LaunchOf, Bench!Record

LEMMA DeviceLaunchInv ==
  ASSUME ReportInv, HostKept, Bench!DeviceLaunch PROVE ReportInv'
<1>0. StreamInv BY DEF ReportInv
<1>1. /\ ~sick /\ busy = <<>> /\ queue # <<>> /\ Head(queue).kind = "launch"
      /\ busy' = <<Head(queue).row>> /\ queue' = Tail(queue) /\ UNCHANGED <<sick, log, event>>
      /\ shape' = Head(queue).shape
  BY BenchGrid DEF Bench!DeviceLaunch, Grid!Launch
<1>2. doing' = doing BY DEF HostKept
<1>3. /\ Bench!Series' = Bench!Series /\ LaunchNow' = LaunchNow
      /\ (doing' \in TimingPlaces => Ready(Bench!Series.shape)')
  BY <1>0, SameLaunch
<1>4. PICK l, s, e : l = LaunchNow /\ s = Bench!Record("start") /\ e = Bench!Record("stop") OBVIOUS
<1>5. /\ l.kind = "launch" /\ l.row = Bench!Series.row /\ l.shape = Bench!Series.shape
      /\ s.kind = "record" /\ e.kind = "record"
  BY <1>4, KindsAre
<1>u. ASSUME Opened, Head(queue) = l PROVE Underway'
  BY <1>1, <1>3, <1>5, <1>u DEF Opened, Underway
<1>s. doing # "start" BY <1>0, <1>1 DEF StreamInv, AtStart
<1>l. doing # "launch"
  <2>1. queue # <<s>> BY <1>1, <1>5, Ones
  <2> QED BY <1>0, <1>1, <1>4, <2>1 DEF StreamInv, AtLaunch
<1>t. doing = "stop" => AtStop'
  <2> SUFFICES ASSUME doing = "stop" PROVE AtStop' OBVIOUS
  <2>1. AtStop BY <1>0, <1>1 DEF StreamInv
  <2>2. queue # <<s, l>> BY <1>1, <1>5, Twos
  <2>3. ~Underway BY <1>1, Ones DEF Underway
  <2>4. Opened /\ queue = <<l>> BY <1>1, <1>4, <2>1, <2>2, <2>3 DEF AtStop
  <2>5. Head(queue) = l /\ queue' = <<>> BY <1>1, <2>4, Ones
  <2> QED BY <1>u, <2>4, <2>5 DEF AtStop
<1>w. doing = "await" => AtAwait'
  <2> SUFFICES ASSUME doing = "await" PROVE AtAwait' OBVIOUS
  <2>1. AtAwait BY <1>0, <1>1 DEF StreamInv
  <2>2. queue # <<s, l, e>> BY <1>1, <1>5, Threes
  <2>3. ~Underway BY <1>1, Ones DEF Underway
  <2>a. queue # <<e>> BY <1>1, <1>5, Ones
  <2>4. Opened /\ queue = <<l, e>> BY <1>1, <1>4, <2>1, <2>2, <2>3, <2>a DEF AtAwait
  <2>5. Head(queue) = l /\ queue' = <<e>> BY <1>1, <2>4, Twos
  <2>6. queue' = <<Bench!Record("stop")>> BY <1>4, <2>5
  <2> QED BY <1>u, <2>4, <2>5, <2>6 DEF AtAwait, Bench!Record
<1>6. StreamInv' BY <1>0, <1>1, <1>2, <1>3, <1>s, <1>l, <1>t, <1>w DEF StreamInv
<1> QED BY <1>6, ReportKept

LEMMA DeviceRecordInv ==
  ASSUME ReportInv, HostKept, Bench!DeviceRecord PROVE ReportInv'
<1>0. StreamInv BY DEF ReportInv
<1>1. /\ ~sick /\ busy = <<>> /\ queue # <<>> /\ Head(queue).kind = "record"
      /\ event' = [event EXCEPT ![Head(queue).event] = Len(log)]
      /\ queue' = Tail(queue) /\ UNCHANGED <<busy, sick, log>>
  BY DEF Bench!DeviceRecord
<1>2. doing' = doing BY DEF HostKept
<1>3. /\ Bench!Series' = Bench!Series /\ LaunchNow' = LaunchNow
      /\ (doing' \in TimingPlaces => Ready(Bench!Series.shape)')
  BY <1>0, SameLaunch
<1>4. PICK l, s, e : l = LaunchNow /\ s = Bench!Record("start") /\ e = Bench!Record("stop") OBVIOUS
<1>5. /\ l.kind = "launch" /\ l.row = Bench!Series.row /\ l.shape = Bench!Series.shape
      /\ s.kind = "record" /\ e.kind = "record" /\ s.event = "start" /\ e.event = "stop"
  BY <1>4, KindsAre
<1>p. l = LaunchNow' /\ s = Bench!Record("start")' /\ e = Bench!Record("stop")'
  BY <1>3, <1>4 DEF Bench!Record
<1>6. Len(log) \in Nat /\ event \in [{"start", "stop"} -> Nat \cup {-1}]
  BY <1>0, SeqFacts DEF StreamInv
<1>7. event' \in [{"start", "stop"} -> Nat \cup {-1}] BY <1>1, <1>6
<1>o. ASSUME Head(queue) = s PROVE Opened'
  <2>1. event'.start = Len(log) BY <1>1, <1>5, <1>6, <1>o
  <2> QED BY <1>1, <2>1 DEF Opened
<1>r. ASSUME Ran, Head(queue) = e PROVE Ran' /\ event'.stop = Len(log')
  <2>1. event'.start = event.start /\ event'.stop = Len(log) BY <1>1, <1>5, <1>6, <1>r
  <2> QED BY <1>1, <1>3, <1>r, <2>1 DEF Ran, Alone
<1>s. doing # "start" BY <1>0, <1>1 DEF StreamInv, AtStart
<1>l. doing = "launch" => AtLaunch'
  <2> SUFFICES ASSUME doing = "launch" PROVE AtLaunch' OBVIOUS
  <2>1. queue = <<s>> BY <1>0, <1>1, <1>4 DEF StreamInv, AtLaunch
  <2>2. Head(queue) = s /\ queue' = <<>> BY <1>1, <2>1, Ones
  <2> QED BY <1>o, <2>2 DEF AtLaunch
<1>t. doing = "stop" => AtStop'
  <2> SUFFICES ASSUME doing = "stop" PROVE AtStop' OBVIOUS
  <2>1. AtStop BY <1>0, <1>1 DEF StreamInv
  <2>2. queue # <<l>> BY <1>1, <1>5, Ones
  <2>4. queue = <<s, l>> BY <1>1, <1>4, <2>1, <2>2 DEF AtStop
  <2>5. Head(queue) = s /\ queue' = <<l>> BY <1>1, <2>4, Twos
  <2>6. queue' = <<LaunchNow'>> BY <1>p, <2>5
  <2> QED BY <1>o, <2>5, <2>6 DEF AtStop
<1>w. doing = "await" => AtAwait'
  <2> SUFFICES ASSUME doing = "await" PROVE AtAwait' OBVIOUS
  <2>1. AtAwait BY <1>0, <1>1 DEF StreamInv
  <2>2. queue # <<l, e>> BY <1>1, <1>5, Twos
  <2>3. ~Underway BY <1>1, Ones DEF Underway
  <2>4. queue = <<s, l, e>> \/ (Ran /\ queue = <<e>>) BY <1>1, <1>4, <2>1, <2>2, <2>3 DEF AtAwait
  <2>5. CASE queue = <<s, l, e>>
    <3>1. Head(queue) = s /\ queue' = <<l, e>> BY <1>1, <2>5, Threes
    <3>2. queue' = <<LaunchNow', Bench!Record("stop")'>> BY <1>p, <3>1
    <3> QED BY <1>o, <3>1, <3>2 DEF AtAwait
  <2>6. CASE Ran /\ queue = <<e>>
    <3>1. Head(queue) = e /\ queue' = <<>> BY <1>1, <2>6, Ones
    <3> QED BY <1>r, <2>6, <3>1 DEF AtAwait
  <2> QED BY <2>4, <2>5, <2>6
<1>8. StreamInv' BY <1>0, <1>1, <1>2, <1>3, <1>7, <1>s, <1>l, <1>t, <1>w DEF StreamInv
<1> QED BY <1>8, ReportKept

\* A grid that has ended has taken every page of the series once.
LEMMA DeviceFinishInv ==
  ASSUME ReportInv, GridInv, HostKept, Bench!DeviceFinish PROVE ReportInv'
<1>0. StreamInv BY DEF ReportInv
<1>1. PICK r : /\ r = [row |-> Head(busy), pages |-> shape.count, blocks |-> shape.blocks,
                       once |-> \A v \in DOMAIN visits : visits[v] = 1]
               /\ busy # <<>> /\ Grid!Ended /\ log' = Append(log, r)
               /\ busy' = <<>> /\ UNCHANGED <<queue, sick, event>>
  BY DEF Bench!DeviceFinish, Bench!Grid!Ended, Grid!Ended, Bench!Grid!Running, Grid!Running,
         Bench!Grid!Threads, Grid!Threads
<1>2. doing' = doing BY DEF HostKept
<1>3. /\ Bench!Series' = Bench!Series /\ LaunchNow' = LaunchNow
      /\ (doing' \in TimingPlaces => Ready(Bench!Series.shape)')
  BY <1>0, SameLaunch
<1>4. IsSeq(log) /\ Len(log) \in Nat BY <1>0, SeqFacts DEF StreamInv
<1>5. Longer(log, r, log') BY <1>1, <1>4, AppendFacts
<1>6. IsSeq(log') /\ Len(log') = Len(log) + 1 /\ log'[Len(log')] = r BY <1>5 DEF Longer
<1>7. ASSUME doing \in TimingPlaces, Underway PROVE Ran'
  <2>1. busy = <<Bench!Series.row>> /\ shape = Bench!Series.shape /\ event.start = Len(log)
    BY <1>7 DEF Underway
  <2>2. Ready(shape) BY <1>0, <1>7, <2>1 DEF StreamInv
  <2>3. \A v \in DOMAIN visits : visits[v] = 1
    <3>1. ~Grid!Refuses(shape) /\ (shape.kernel = "zstd" \/ shape.blocks * shape.dim <= IndexLimit)
      BY <2>2 DEF Ready, NoWrap
    <3> QED BY <1>1, <3>1, OnceInv DEF Grid!EachChunkOnce
  <2>4. r.row = Bench!Series.row /\ r.pages = Bench!Series.shape.count /\ r.once
    BY <1>1, <2>1, <2>3, Ones
  <2>5. Alone(Bench!Series.row, Bench!Series.shape.count, <<r>>)
    BY <2>4, Ones, Singles DEF Alone
  <2>6. event'.start # -1 /\ Len(log') = event'.start + 1 BY <1>1, <1>4, <1>6, <2>1
  <2> QED BY <1>1, <1>3, <1>6, <2>5, <2>6 DEF Ran, Alone
<1>8. ~sick' => /\ doing' \notin {"start", "launch"}
                /\ doing' = "stop" => AtStop'
                /\ doing' = "await" => AtAwait'
  <2> SUFFICES ASSUME ~sick PROVE /\ doing' \notin {"start", "launch"}
                                  /\ doing' = "stop" => AtStop'
                                  /\ doing' = "await" => AtAwait'
    BY <1>1
  <2>1. doing' \notin {"start", "launch"} BY <1>0, <1>1, <1>2 DEF StreamInv, AtStart, AtLaunch, Opened
  <2>2. ASSUME doing' = "stop" PROVE AtStop'
    <3>1. AtStop /\ doing \in TimingPlaces BY <1>0, <1>2, <2>2 DEF StreamInv, TimingPlaces
    <3>2. Underway /\ queue = <<>> BY <1>1, <3>1 DEF AtStop, Opened, Ran
    <3> QED BY <1>1, <1>7, <3>1, <3>2 DEF AtStop
  <2>3. ASSUME doing' = "await" PROVE AtAwait'
    <3>1. AtAwait /\ doing \in TimingPlaces BY <1>0, <1>2, <2>3 DEF StreamInv, TimingPlaces
    <3>2. Underway /\ queue = <<Bench!Record("stop")>> BY <1>1, <3>1 DEF AtAwait, Opened, Ran
    <3>3. queue' = <<Bench!Record("stop")'>> BY <1>1, <3>2 DEF Bench!Record
    <3> QED BY <1>7, <3>1, <3>2, <3>3 DEF AtAwait
  <2> QED BY <2>1, <2>2, <2>3
<1>9. StreamInv' BY <1>0, <1>1, <1>2, <1>3, <1>6, <1>8 DEF StreamInv
<1> QED BY <1>9, ReportKept

LEMMA DeviceInv == ASSUME ReportInv, GridInv, Bench!Device PROVE ReportInv'
<1>1. HostKept BY DeviceKeeps
<1>2. CASE Bench!DeviceFault
  <2>1. StreamInv /\ sick' /\ UNCHANGED <<log, event>> BY <1>2 DEF ReportInv, Bench!DeviceFault
  <2>2. StreamInv' BY <1>1, <2>1, SameLaunch DEF StreamInv
  <2> QED BY <1>1, <2>2, ReportKept
<1> QED BY <1>1, <1>2, DeviceLaunchInv, DeviceRecordInv, DeviceFinishInv DEF Bench!Device

-----------------------------------------------------------------------------
(* Every step of a run.                                                    *)

LEMMA Lz4MainInv == ASSUME ReportInv, Bench!Lz4Main PROVE ReportInv'
<1>1. CASE Bench!Options BY <1>1, StreamOptionsInv
<1>2. CASE Bench!Build BY <1>2, Lz4BuildInv
<1>3. CASE Bench!Verify BY <1>3, VerifyInv
<1>4. CASE Bench!CpuWarmUp BY <1>4, WarmUpLoopInv DEF Bench!CpuWarmUp, HostLoop
<1>5. CASE Bench!CpuRun BY <1>5, TimedLoopInv DEF Bench!CpuRun, HostLoop
<1>6. CASE Bench!Report BY <1>6, CpuRowInv DEF Bench!Report
<1>7. CASE Bench!Literals BY <1>7, LiteralRowInv DEF Bench!Literals
<1>8. CASE Bench!Gpu BY <1>8, GpuInv DEF Bench!Gpu
<1>9. CASE Bench!Context BY <1>9, ContextAskedInv
<1>10. CASE Bench!PrintRows BY <1>10, PrintRowsInv
<1>11. CASE Bench!Finish BY <1>11, FinishesInv
<1>12. CASE Bench!NextRung BY <1>12, NextRungInv
<1>13. CASE Bench!FrameVerify BY <1>13, FrameVerifyInv
<1>14. CASE Bench!FrameWarmUp BY <1>14, WarmUpLoopInv DEF Bench!FrameWarmUp, HostLoop
<1>15. CASE Bench!FrameRun BY <1>15, TimedLoopInv DEF Bench!FrameRun, HostLoop
<1>16. CASE Bench!FrameReport BY <1>16, FrameRowInv DEF Bench!FrameReport
<1> QED
  BY <1>1, <1>2, <1>3, <1>4, <1>5, <1>6, <1>7, <1>8, <1>9, <1>10, <1>11, <1>12, <1>13, <1>14, <1>15, <1>16
     DEF Bench!Lz4Main

LEMMA SnappyMainInv == ASSUME ReportInv, Bench!SnappyMain PROVE ReportInv'
<1>1. CASE Bench!SnappyOptions BY <1>1, StreamOptionsInv
<1>2. CASE Bench!SnappyBuild BY <1>2, SnappyBuildInv
<1>3. CASE Bench!StreamWarmUp BY <1>3, WarmUpLoopInv DEF Bench!StreamWarmUp, HostLoop
<1>4. CASE Bench!StreamRun BY <1>4, TimedLoopInv DEF Bench!StreamRun, HostLoop
<1>5. CASE Bench!StreamReport BY <1>5, CpuRowInv DEF Bench!StreamReport
<1>6. CASE Bench!StreamLiterals BY <1>6, LiteralRowInv DEF Bench!StreamLiterals
<1>7. CASE Bench!StreamGpu BY <1>7, GpuInv DEF Bench!StreamGpu
<1>8. CASE Bench!StreamPrint BY <1>8, PrintRowsInv
<1>9. CASE Bench!CheckDigest BY <1>9, CheckDigestInv
<1>10. CASE Bench!SnappyFinish BY <1>10, FinishesInv
<1> QED
  BY <1>1, <1>2, <1>3, <1>4, <1>5, <1>6, <1>7, <1>8, <1>9, <1>10 DEF Bench!SnappyMain

LEMMA ZstdMainInv == ASSUME ReportInv, Bench!ZstdMain PROVE ReportInv'
<1>1. CASE Bench!ZstdOptions BY <1>1, ZstdOptionsInv
<1>2. CASE Bench!ZstdBuild BY <1>2, ZstdBuildInv
<1>3. CASE Bench!FramesWarmUp BY <1>3, WarmUpLoopInv DEF Bench!FramesWarmUp, HostLoop
<1>4. CASE Bench!FramesRun BY <1>4, TimedLoopInv DEF Bench!FramesRun, HostLoop
<1>5. CASE Bench!FramesReport BY <1>5, CpuRowInv DEF Bench!FramesReport
<1>6. CASE Bench!CountReport BY <1>6, CountReportInv
<1>7. CASE Bench!NextCell BY <1>7, NextCellInv
<1>8. CASE Bench!ZstdFinish BY <1>8, FinishesInv
<1> QED BY <1>1, <1>2, <1>3, <1>4, <1>5, <1>6, <1>7, <1>8 DEF Bench!ZstdMain

LEMMA GDeflateMainInv == ASSUME ReportInv, Bench!GDeflateMain PROVE ReportInv'
<1>1. CASE Bench!GDeflateOptions BY <1>1, GDeflateOptionsInv
<1>2. CASE Bench!GDeflateBuild BY <1>2, GDeflateBuildInv
<1>3. CASE Bench!PageWarmUp BY <1>3, WarmUpLoopInv DEF Bench!PageWarmUp, HostLoop
<1>4. CASE Bench!PageRun BY <1>4, TimedLoopInv DEF Bench!PageRun, HostLoop
<1>5. CASE Bench!PageReport BY <1>5, CpuRowInv DEF Bench!PageReport
<1>6. CASE Bench!PageGpu BY <1>6, GpuInv DEF Bench!PageGpu
<1>7. CASE Bench!PagePrint BY <1>7, PrintRowsInv
<1>8. CASE Bench!Judge BY <1>8, JudgeInv
<1>9. CASE Bench!Census BY <1>9, CensusInv
<1>10. CASE Bench!Residency BY <1>10, ResidencyInv
<1>11. CASE Bench!GDeflateFinish BY <1>11, FinishesInv
<1> QED
  BY <1>1, <1>2, <1>3, <1>4, <1>5, <1>6, <1>7, <1>8, <1>9, <1>10, <1>11 DEF Bench!GDeflateMain

LEMMA ReportNext == ASSUME ReportInv, GridInv, BenchTyped, Bench!Next PROVE ReportInv'
BY Lz4MainInv, SnappyMainInv, ZstdMainInv, GDeflateMainInv, FailedInv, KernelTimingInv, ContextTimingInv,
   CallFailsInv, DeviceInv DEF Bench!Next

LEMMA ReportInit == LaunchesInit => ReportInv
<1> SUFFICES ASSUME LaunchesInit PROVE ReportInv OBVIOUS
<1>1. /\ doing = "idle" /\ trip = 0 /\ samples = <<>> /\ rows = <<>> /\ exit = -1 /\ context = "none"
      /\ walk = [at |-> 0, drifted |-> FALSE, points |-> <<>>] /\ log = <<>>
      /\ event = [start |-> -1, stop |-> -1]
  BY DEF LaunchesInit, Bench!Init, Bench!None
<1>2. AskInv BY <1>1 DEF AskInv
<1>3. PlaceInv BY <1>1 DEF PlaceInv
<1>4. CorpusInv BY <1>1 DEF CorpusInv, CorpusAt, FramePlaces, KernelPlaces, TimingPlaces, ContextPlaces
<1>5. PointsInv
  <2>1. walk.points = <<>> BY <1>1
  <2> QED BY <1>1, <2>1, EmptyIs DEF PointsInv, KernelPlaces, TimingPlaces
<1>6. SamplesInv BY <1>1, EmptyIs DEF SamplesInv, TimedPlaces
<1>7. ContextInv BY <1>1 DEF ContextInv
<1>8. StreamInv
  <2>1. event \in [{"start", "stop"} -> Nat \cup {-1}] BY <1>1
  <2> QED BY <1>1, <2>1, EmptyIs DEF StreamInv, TimingPlaces
<1>9. NumbersInv BY <1>1 DEF NumbersInv, KernelPlaces, TimingPlaces, ContextPlaces
<1>10. RowsInv BY <1>1, EmptyIs DEF RowsInv
<1>11. ProgressInv
  BY <1>1 DEF ProgressInv, ProgressAt, PlainProgress, SweepProgress, FrameProgress, FramePlaces,
              KernelPlaces, TimingPlaces, ContextPlaces
<1>12. DriftInv BY <1>1 DEF DriftInv, DriftAt
<1>13. ExitInv BY <1>1 DEF ExitInv
<1> QED BY <1>2, <1>3, <1>4, <1>5, <1>6, <1>7, <1>8, <1>9, <1>10, <1>11, <1>12, <1>13 DEF ReportInv

LEMMA ReportStep ==
  ASSUME GeometryInv, ReportInv, [LaunchesNext]_LaunchesVars PROVE ReportInv'
<1>0. GridInv /\ BenchTyped BY DEF GeometryInv
<1>1. ASSUME UNCHANGED benchVars, shape' = shape \/ doing = "idle" PROVE ReportInv'
  <2>1. HostKept /\ UNCHANGED <<queue, busy, sick, log, event>> BY <1>1 DEF benchVars, HostKept
  <2>2. StreamInv BY DEF ReportInv
  <2>3. doing' = doing BY <2>1 DEF HostKept
  <2>4. CASE doing = "idle"
    <3>1. StreamInv' BY <2>1, <2>2, <2>3, <2>4 DEF StreamInv, TimingPlaces
    <3> QED BY <2>1, <3>1, ReportKept
  <2>5. CASE shape' = shape
    <3>1. /\ Bench!Series' = Bench!Series /\ LaunchNow' = LaunchNow
          /\ (doing' \in TimingPlaces => Ready(Bench!Series.shape)')
      BY <2>1, <2>2, SameLaunch
    <3>2. (Opened' <=> Opened) /\ (Underway' <=> Underway) /\ (Ran' <=> Ran)
      BY <2>1, <2>5, <3>1 DEF Opened, Underway, Ran, Alone
    <3>3. (AtStart' <=> AtStart) /\ (AtLaunch' <=> AtLaunch) /\ (AtStop' <=> AtStop) /\ (AtAwait' <=> AtAwait)
      BY <2>1, <3>1, <3>2 DEF AtStart, AtLaunch, AtStop, AtAwait, Bench!Record
    <3>4. StreamInv' BY <2>1, <2>2, <2>3, <3>1, <3>3 DEF StreamInv
    <3> QED BY <2>1, <3>4, ReportKept
  <2> QED BY <1>1, <2>4, <2>5
<1>2. CASE (DirectLaunch \/ Submission) /\ UNCHANGED benchVars
  <2>1. pc # "bench"
    BY <1>2 DEF DirectLaunch, Submission, Submit!Next, Submit!Enter, Submit!Validate, Submit!Drain,
                Submit!QueryWidth, Submit!Launch, Submit!Check, Submit!Answer
  <2>2. doing = "idle" BY <1>0, <2>1 DEF BenchTyped
  <2> QED BY <1>1, <1>2, <2>2
<1>3. CASE NextChunk /\ UNCHANGED benchVars
  <2>1. shape' = shape BY <1>3 DEF NextChunk, Grid!Pass
  <2> QED BY <1>1, <1>3, <2>1
<1>4. CASE UNCHANGED gridVars /\ UNCHANGED benchVars
  <2>1. shape' = shape BY <1>4 DEF gridVars
  <2> QED BY <1>1, <1>4, <2>1
<1>5. CASE BenchBegin BY <1>5, BeginInv DEF BenchBegin
<1>6. CASE BenchStep BY <1>0, <1>6, ReportNext DEF BenchStep
<1> QED
  BY <1>2, <1>3, <1>4, <1>5, <1>6
  DEF LaunchesNext, LaunchNext, WaveBody, BlockBody, ThreadBody, Returned, BenchOver, launchVars,
      LaunchesVars

LEMMA ReportInvariance == LaunchesSpec => []ReportInv
<1>1. GeometryInv /\ ReportInv /\ [LaunchesNext]_LaunchesVars => ReportInv' BY ReportStep
<1> QED BY <1>1, ReportInit, GeometryInvariance, PTL DEF LaunchesSpec

\* A report of a benchmark is worth what it says: every sample behind a row of it is one
\* decode of the corpus the row names, alone on the device and of every page once, taken
\* where the row says; and the exit code tells whether every row is there and nothing has
\* drifted (bench_lz4.cpp, bench_snappy.cpp, bench_gdeflate.cpp, bench_zstd.cpp and
\* gpu_bench.cu), for every job, corpus, grid, pace of the device and failing call.
THEOREM ReportIsHonestHolds == LaunchesSpec => []ReportIsHonest
<1>1. ReportInv => ReportIsHonest BY ReportTells DEF ReportIsHonest
<1> QED BY <1>1, ReportInvariance, PTL
=============================================================================
