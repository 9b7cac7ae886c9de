------------------------------ MODULE WavePlan ------------------------------
(***************************************************************************)
(* How one streaming call is cut into waves (src/stream.cpp).              *)
(*                                                                         *)
(* A batch is what the caller passes: chunk_count chunks, the compressed   *)
(* size and the destination capacity of each, and whether the output goes  *)
(* to host memory.  Chunks are numbered from 0, as in the code, and wave w *)
(* holds the chunks Begin(b, w) .. End(b, w) - 1.                          *)
(*                                                                         *)
(* This module is the closed form: what the sizing loops compute, written  *)
(* with sums and maxima.  WaveSizing is the loops themselves, with their   *)
(* size_t arithmetic, and is checked against this one.                     *)
(***************************************************************************)
EXTENDS Integers, FiniteSets, FiniteSetsExt, Functions

CONSTANTS
  SIZE_MAX,             \* the largest size_t
  kWaveStagingBudget,   \* bytes of staging one wave may charge
  kWaveChunksMax        \* chunks one wave may hold

ASSUME WavePlanAssumption ==
  /\ SIZE_MAX \in Nat \ {0}
  /\ kWaveStagingBudget \in 1 .. SIZE_MAX
  /\ kWaveChunksMax \in Nat \ {0}

(* A batch the argument checks let through. *)
IsBatch(b) ==
  /\ b.n \in Nat \ {0}
  /\ b.src \in [0 .. b.n - 1 -> 0 .. SIZE_MAX]
  /\ b.cap \in [0 .. b.n - 1 -> 0 .. SIZE_MAX]
  /\ b.hostOut \in BOOLEAN

(* Bug the runs must catch: the destination slot forgotten. *)
ChargeSourceOnly(b, i) == b.src[i]

(* What one chunk is charged: its source and, for host output, its slot in *)
(* the device destination arena; the addition saturates.                   *)
Charge(b, i) ==
  IF ~b.hostOut THEN b.src[i]
  ELSE IF SIZE_MAX - b.src[i] < b.cap[i] THEN SIZE_MAX ELSE b.src[i] + b.cap[i]

(* The chunks per wave, from the largest charge of the call. *)
WaveFor(n, perChunkMax) ==
  LET wave == kWaveStagingBudget \div perChunkMax
  IN  Min({Max({wave, 1}), kWaveChunksMax, n})

ChooseWaveChunks(b) ==
  WaveFor(b.n, Max({1} \cup {Charge(b, i) : i \in 0 .. b.n - 1}))

WaveCount(b) == (b.n + ChooseWaveChunks(b) - 1) \div ChooseWaveChunks(b)

Begin(b, w) == (w - 1) * ChooseWaveChunks(b)
End(b, w)   == Min({w * ChooseWaveChunks(b), b.n})

WaveBytes(b, size, w) == SumFunctionOnSet(size, Begin(b, w) .. End(b, w) - 1)

(* The staging the largest wave needs; never an empty allocation. *)
MaxWaveBytes(b, size) ==
  Max({1} \cup {WaveBytes(b, size, w) : w \in 1 .. WaveCount(b)})

(* The call as the wave loop sees it: where each wave begins, what it       *)
(* stages, and what a correct decode says of each chunk.                    *)
PlanOf(b, verdict) ==
  LET waves == WaveCount(b)
  IN  [n |-> b.n, hostOut |-> b.hostOut, cap |-> b.cap, verdict |-> verdict,
       waves |-> waves, waveChunks |-> ChooseWaveChunks(b),
       begin |-> [w \in 1 .. waves + 1 |->
                    IF w <= waves THEN Begin(b, w) ELSE b.n],
       srcBytes |-> [w \in 1 .. waves |-> WaveBytes(b, b.src, w)],
       dstBytes |-> [w \in 1 .. waves |-> WaveBytes(b, b.cap, w)],
       maxSrc |-> MaxWaveBytes(b, b.src),
       maxDst |-> MaxWaveBytes(b, b.cap)]
=============================================================================
