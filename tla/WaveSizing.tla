----------------------------- MODULE WaveSizing -----------------------------
(***************************************************************************)
(* The two sizing loops of a streaming call, step by step.                 *)
(*                                                                         *)
(* ChooseWaveChunks charges every chunk and divides the budget by the      *)
(* largest charge; DecodeStreamCtx then sums, wave by wave, the bytes each *)
(* wave stages, refusing a sum that does not fit a size_t, and keeps the   *)
(* largest: the sizes the staging buffers are grown to.                    *)
(***************************************************************************)
EXTENDS WavePlan

CONSTANT Batches        \* the batches a call may be given

ASSUME BatchesAssumption == \A b \in Batches : IsBatch(b)

VARIABLES
  batch,                \* the call's arguments
  loop,                 \* "charge", "sum", "done"
  chunk,                \* the loop's chunk
  perChunkMax,          \* largest charge so far
  waveChunks,           \* chunks per wave, 0 until chosen
  begin,                \* first chunk of the wave being summed
  wsrc, wdst,           \* bytes of the wave being summed
  maxSrc, maxDst,       \* max_wave_src, max_wave_dst
  status                \* "ok" or "corrupt" (CUDEC_ERR_CORRUPT_INPUT)

sizingVars == <<batch, loop, chunk, perChunkMax, waveChunks, begin, wsrc, wdst,
                maxSrc, maxDst, status>>

SizingInit ==
  /\ batch \in Batches
  /\ loop = "charge"
  /\ chunk = 0
  /\ perChunkMax = 1
  /\ waveChunks = 0
  /\ begin = 0
  /\ wsrc = 0 /\ wdst = 0
  /\ maxSrc = 0 /\ maxDst = 0
  /\ status = "ok"

WaveEnd == IF begin + waveChunks < batch.n THEN begin + waveChunks ELSE batch.n

ChargeChunk ==
  /\ loop = "charge"
  /\ chunk < batch.n
  /\ perChunkMax' = IF Charge(batch, chunk) > perChunkMax
                    THEN Charge(batch, chunk) ELSE perChunkMax
  /\ chunk' = chunk + 1
  /\ UNCHANGED <<batch, loop, waveChunks, begin, wsrc, wdst, maxSrc, maxDst, status>>

PickWave ==
  /\ loop = "charge"
  /\ chunk = batch.n
  /\ waveChunks' = WaveFor(batch.n, perChunkMax)
  /\ loop' = "sum"
  /\ chunk' = 0
  /\ UNCHANGED <<batch, perChunkMax, begin, wsrc, wdst, maxSrc, maxDst, status>>

(* The refusals of an over-long sum: the source first, then the output. *)
SumOverflows ==
  \/ SIZE_MAX - wsrc < batch.src[chunk]
  \/ batch.hostOut /\ SIZE_MAX - wdst < batch.cap[chunk]

(* One iteration of the inner loop.  The refusal is a branch rather than an *)
(* action of its own: NoOverflowReject says it is never taken.              *)
SumChunk ==
  /\ loop = "sum"
  /\ chunk < WaveEnd
  /\ IF SumOverflows
     THEN /\ status' = "corrupt"
          /\ loop' = "done"
          /\ UNCHANGED <<chunk, wsrc, wdst>>
     ELSE /\ wsrc' = wsrc + batch.src[chunk]
          /\ wdst' = IF batch.hostOut THEN wdst + batch.cap[chunk] ELSE wdst
          /\ chunk' = chunk + 1
          /\ UNCHANGED <<loop, status>>
  /\ UNCHANGED <<batch, perChunkMax, waveChunks, begin, maxSrc, maxDst>>

(* Bugs the runs must catch: sums carried into the next wave; the last wave *)
(* kept in place of the largest.                                            *)
CloseWaveWithoutReset ==
  /\ loop = "sum"
  /\ chunk = WaveEnd
  /\ begin < batch.n
  /\ maxSrc' = IF wsrc > maxSrc THEN wsrc ELSE maxSrc
  /\ maxDst' = IF wdst > maxDst THEN wdst ELSE maxDst
  /\ begin' = begin + waveChunks
  /\ UNCHANGED <<batch, loop, chunk, perChunkMax, waveChunks, wsrc, wdst, status>>

CloseWave ==
  /\ loop = "sum"
  /\ chunk = WaveEnd
  /\ begin < batch.n
  /\ maxSrc' = IF wsrc > maxSrc THEN wsrc ELSE maxSrc
  /\ maxDst' = IF wdst > maxDst THEN wdst ELSE maxDst
  /\ begin' = begin + waveChunks
  /\ wsrc' = 0
  /\ wdst' = 0
  /\ UNCHANGED <<batch, loop, chunk, perChunkMax, waveChunks, status>>

(* After the last wave; a zero size becomes one byte. *)
FinishSizing ==
  /\ loop = "sum"
  /\ begin >= batch.n
  /\ maxSrc' = IF maxSrc = 0 THEN 1 ELSE maxSrc
  /\ maxDst' = IF batch.hostOut /\ maxDst = 0 THEN 1 ELSE maxDst
  /\ loop' = "done"
  /\ UNCHANGED <<batch, chunk, perChunkMax, waveChunks, begin, wsrc, wdst, status>>

(* The sizes are handed to the rest of the call. *)
Sized == loop = "done" /\ UNCHANGED sizingVars

SizingNext == ChargeChunk \/ PickWave \/ SumChunk \/ CloseWave \/ FinishSizing \/ Sized

SizingSpec == SizingInit /\ [][SizingNext]_sizingVars /\ WF_sizingVars(SizingNext)
-----------------------------------------------------------------------------
SizingTypeOK ==
  /\ batch \in Batches
  /\ loop \in {"charge", "sum", "done"}
  /\ chunk \in 0 .. batch.n
  /\ perChunkMax \in 1 .. SIZE_MAX
  /\ waveChunks \in 0 .. batch.n
  /\ begin \in Nat
  /\ wsrc \in 0 .. SIZE_MAX /\ wdst \in 0 .. SIZE_MAX
  /\ maxSrc \in 0 .. SIZE_MAX /\ maxDst \in 0 .. SIZE_MAX
  /\ status \in {"ok", "corrupt"}

(* The overflow refusals are unreachable: whatever sizes the caller names,  *)
(* a wave of more than one chunk charges at most the budget, and a wave of  *)
(* one chunk starts from zero, so no sum leaves size_t and no call answers  *)
(* CUDEC_ERR_CORRUPT_INPUT for its sizes (stream.cpp:271-292).              *)
NoOverflowReject == status = "ok"

(* A wave that holds several chunks never stages more than the budget,     *)
(* source and destination arena together, for any mix of sizes             *)
(* (stream.cpp:48-52).                                                      *)
WaveWithinBudget ==
  loop = "sum" => waveChunks = 1 \/ wsrc + wdst <= kWaveStagingBudget

=============================================================================
