------------------------------ MODULE StreamCtx ------------------------------
(***************************************************************************)
(* The reusable streaming-decode context (src/stream.cpp).                 *)
(*                                                                         *)
(* Two sides race.  The host thread runs DecodeStreamCtx: it grows the     *)
(* staging, then for every wave overwrites the ONE pinned staging area and *)
(* submits copies, an event, a kernel and a readback to the context's      *)
(* stream.  The device runs what was submitted, in order, whenever it      *)
(* likes, and may fault.  The context outlives the call; a fault poisons   *)
(* it.                                                                     *)
(*                                                                         *)
(* Contents of a buffer are modelled by a tag: the wave of the current     *)
(* call whose bytes it holds, or 0.  A result record is one of Results.    *)
(* External, modelled from how src/ uses it: the runtime behind vendor_rt.h*)
(* (stream order, sticky device faults, the per-thread pending error) and  *)
(* the decode kernel, which answers each chunk with its verdict.           *)
(***************************************************************************)
EXTENDS Integers, Sequences, FiniteSets

CONSTANTS
  Plans,           \* the accepted argument lists, cut into waves (WavePlan)
  MaxChunkCount,   \* bound: chunks in one call
  MaxCalls         \* bound: decode calls in a behaviour

Verdicts == {"ok", "corrupt", "wild"}

(* A call's arguments: wave w holds chunks begin[w] .. begin[w + 1] - 1 and *)
(* stages srcBytes[w]; cap is each chunk's capacity; verdict is what a      *)
(* correct decode says of it: "ok", a reject, or a record that claims more  *)
(* bytes than the capacity (only the host-output path reads that length, so *)
(* only there).                                                             *)
IsPlan(p) ==
  /\ p.n \in 1 .. MaxChunkCount
  /\ p.hostOut \in BOOLEAN
  /\ p.waves \in Nat \ {0}
  /\ p.waveChunks \in Nat \ {0}
  /\ p.begin \in [1 .. p.waves + 1 -> 0 .. p.n]
  /\ p.begin[1] = 0 /\ p.begin[p.waves + 1] = p.n
  /\ \A v, w \in 1 .. p.waves + 1 : v < w => p.begin[v] < p.begin[w]
  /\ \A w \in 1 .. p.waves : p.begin[w + 1] - p.begin[w] <= p.waveChunks
  /\ p.srcBytes \in [1 .. p.waves -> Nat]
  /\ p.dstBytes \in [1 .. p.waves -> Nat]
  /\ p.maxSrc \in Nat /\ \A w \in 1 .. p.waves : p.srcBytes[w] <= p.maxSrc
  /\ p.maxDst \in Nat /\ \A w \in 1 .. p.waves : p.dstBytes[w] <= p.maxDst
  /\ p.cap \in [0 .. p.n - 1 -> Nat]
  /\ p.verdict \in [0 .. p.n - 1 -> Verdicts]
  /\ ~p.hostOut => \A i \in 0 .. p.n - 1 : p.verdict[i] # "wild"

ASSUME StreamAssumption ==
  /\ MaxChunkCount \in Nat \ {0}
  /\ MaxCalls \in Nat
  /\ Plans # {}
  /\ \A p \in Plans : IsPlan(p)

Chunks == 0 .. MaxChunkCount - 1

(* A result record: what the kernel reported, CUDEC_ERR_CUDA, bytes left    *)
(* over from an earlier call or never written, or the caller's own memory.  *)
Results == Verdicts \cup {"cuda", "stale", "unset"}

(* The status field of a record; a wild record claims success. *)
StatusOf(r) == IF r = "wild" THEN "ok" ELSE r

BufferOrder ==
  <<"p_src", "d_src", "p_meta", "d_meta", "d_dst", "d_results", "p_results">>
Buffers == {BufferOrder[k] : k \in 1 .. 7}

Ops == {"h2d_src", "h2d_meta", "record", "kernel", "d2h_results"}

VARIABLES
  live, poisoned,      \* the context exists; its fault latch
  cap,                 \* capacity of each staging buffer, 0 when not allocated
  pc,                  \* where the host thread is
  plan, wave,          \* the call in progress and its current wave
  waveStatus,          \* wave_status
  entryRefused,        \* entry_refused
  oneShot,             \* the call came through the one-shot entry
  calls,               \* decode calls made so far
  ret,                 \* the last return: status, and whether arguments passed
  hResults,            \* the caller's h_results
  pSrc, pMeta,         \* pinned staging
  pResults,            \* pinned result mirror
  dst,                 \* the caller's destinations: "old", "out" or "junk"
  queue,               \* submitted and not yet run, oldest first
  dSrc, dMeta, dDst,   \* device staging
  dResults,            \* device result buffer
  dead,                \* a sticky device fault happened
  lastErr              \* the thread's pending runtime error

hostVars  == <<pc, plan, wave, waveStatus, entryRefused, oneShot, calls>>
ctxVars   == <<live, poisoned, cap>>
outVars   == <<ret, hResults>>
pinVars   == <<pSrc, pMeta, pResults>>
devVars   == <<dSrc, dMeta, dDst, dResults>>
vars == <<hostVars, ctxVars, outVars, pinVars, devVars, dst, queue, dead, lastErr>>

Steps == {"idle", "grow", "stage", "h2d_src", "h2d_meta", "record", "launch",
          "readback", "sync_wave", "copy_out", "drain", "destroy"}

Statuses == {"ok", "invalid", "unsupported", "cuda", "corrupt", "none"}

Init ==
  /\ live = FALSE /\ poisoned = FALSE
  /\ cap = [b \in Buffers |-> 0]
  /\ pc = "idle"
  /\ plan \in Plans            \* not read before a call sets it
  /\ wave = 0
  /\ waveStatus = "ok" /\ entryRefused = FALSE /\ oneShot = FALSE
  /\ calls = 0
  /\ ret = [status |-> "none", accepted |-> FALSE]
  /\ hResults = [i \in Chunks |-> "unset"]
  /\ pSrc = 0 /\ pMeta = 0
  /\ pResults = [i \in Chunks |-> "stale"]
  /\ dst = [i \in Chunks |-> "old"]
  /\ queue = <<>>
  /\ dSrc = 0 /\ dMeta = 0 /\ dDst = 0
  /\ dResults = [i \in Chunks |-> "stale"]
  /\ dead = FALSE /\ lastErr = FALSE

-----------------------------------------------------------------------------
(* Helpers *)

ChunksOfWave(w) == plan.begin[w] .. plan.begin[w + 1] - 1
CallChunks(p)   == 0 .. p.n - 1

Returned == IF oneShot THEN "destroy" ELSE "idle"

(* Submitting to the stream: a dead device accepts and runs nothing. *)
Enqueue(op) ==
  queue' = IF dead THEN queue ELSE Append(queue, [op |-> op, wave |-> wave])

(* WAVE_FAIL: record the fault, leave the loop for the drain. *)
FailWave(st) == waveStatus' = st /\ pc' = "drain"

(* Bug the runs must catch: the wave number runs past the last wave. *)
NextWaveUnbounded == wave' = wave + 1 /\ pc' = "stage"

(* After the last step of a wave. *)
NextWave ==
  IF wave < plan.waves THEN wave' = wave + 1 /\ pc' = "stage"
                       ELSE wave' = wave /\ pc' = "drain"

(* Bytes (metadata: 8-byte words) each buffer must hold for call p. *)
Need(p, b) ==
  CASE b \in {"p_src", "d_src"}         -> p.maxSrc
    [] b \in {"p_meta", "d_meta"}       -> 4 * p.waveChunks
    [] b = "d_dst"                      -> IF p.hostOut THEN p.maxDst ELSE 0
    [] b \in {"d_results", "p_results"} -> p.n

(* Bug the runs must catch: a buffer is allocated once and never grown. *)
GrownOnce(p, b) == IF cap[b] # 0 THEN cap[b] ELSE Need(p, b)

Grown(p, b) == IF Need(p, b) <= cap[b] THEN cap[b] ELSE Need(p, b)

-----------------------------------------------------------------------------
(* Calls of the ABI *)

(* cudec_stream_ctx_create. *)
CreateOk ==
  /\ pc = "idle" /\ ~live /\ ~dead
  /\ live' = TRUE /\ poisoned' = FALSE /\ cap' = [b \in Buffers |-> 0]
  /\ ret' = [status |-> "ok", accepted |-> FALSE]
  /\ UNCHANGED <<hostVars, hResults, pinVars, devVars, dst, queue, dead, lastErr>>

(* Out of host memory, or the stream or the event could not be created. *)
CreateFails ==
  /\ pc = "idle" /\ ~live
  /\ lastErr' \in {lastErr, TRUE}
  /\ ret' = [status |-> "cuda", accepted |-> FALSE]
  /\ UNCHANGED <<hostVars, ctxVars, hResults, pinVars, devVars, dst, queue, dead>>

(* A NULL context or malformed arguments: refused before any runtime call. *)
RefuseArguments ==
  /\ pc = "idle"
  /\ ret' = [status |-> "invalid", accepted |-> FALSE]
  /\ UNCHANGED <<hostVars, ctxVars, hResults, pinVars, devVars, dst, queue, dead,
                 lastErr>>

(* Entering DecodeStreamCtx: every h_results record is stamped before       *)
(* anything can fail.  What earlier calls left in the result buffers is     *)
(* from here on stale, and no staging holds a wave of this call.            *)
BeginDecode(p) ==
  /\ plan' = p
  /\ calls' = calls + 1
  /\ wave' = 1
  /\ waveStatus' = "ok" /\ entryRefused' = FALSE
  /\ hResults' = [i \in Chunks |-> IF i < p.n THEN "cuda" ELSE "unset"]
  /\ pSrc' = 0 /\ pMeta' = 0
  /\ dSrc' = 0 /\ dMeta' = 0 /\ dDst' = 0
  /\ pResults' = [i \in Chunks |-> "stale"]
  /\ dResults' = [i \in Chunks |-> "stale"]
  /\ dst' = [i \in Chunks |-> "old"]
  /\ pc' = "grow"

(* Bug the runs must catch: the latch is not read. *)
DecodeIgnoringPoison(p) ==
  /\ pc = "idle" /\ live /\ calls < MaxCalls
  /\ BeginDecode(p)
  /\ oneShot' = FALSE
  /\ UNCHANGED <<ctxVars, ret, queue, dead, lastErr>>

(* DecodeOnStreamCtx on a healthy context. *)
Decode(p) ==
  /\ pc = "idle" /\ live /\ ~poisoned /\ calls < MaxCalls
  /\ BeginDecode(p)
  /\ oneShot' = FALSE
  /\ UNCHANGED <<ctxVars, ret, queue, dead, lastErr>>

(* DecodeOnStreamCtx on a poisoned context: stamp and refuse. *)
DecodePoisoned(p) ==
  /\ pc = "idle" /\ live /\ poisoned /\ calls < MaxCalls
  /\ plan' = p
  /\ calls' = calls + 1
  /\ hResults' = [i \in Chunks |-> IF i < p.n THEN "cuda" ELSE "unset"]
  /\ ret' = [status |-> "cuda", accepted |-> TRUE]
  /\ UNCHANGED <<pc, wave, waveStatus, entryRefused, oneShot, ctxVars, pinVars,
                 devVars, dst, queue, dead, lastErr>>

(* cudec_lz4_decompress_stream: a context of its own for one decode. *)
OneShotOk(p) ==
  /\ pc = "idle" /\ ~live /\ ~dead /\ calls < MaxCalls
  /\ live' = TRUE /\ poisoned' = FALSE /\ cap' = [b \in Buffers |-> 0]
  /\ BeginDecode(p)
  /\ oneShot' = TRUE
  /\ UNCHANGED <<ret, queue, dead, lastErr>>

(* The create inside the one-shot entry failed: its status is returned and  *)
(* the caller's results are not written.                                    *)
OneShotCreateFails(p) ==
  /\ pc = "idle" /\ ~live /\ calls < MaxCalls
  /\ plan' = p
  /\ calls' = calls + 1
  /\ oneShot' = TRUE
  /\ lastErr' \in {lastErr, TRUE}
  /\ hResults' = [i \in Chunks |-> "unset"]
  /\ ret' = [status |-> "cuda", accepted |-> TRUE]
  /\ UNCHANGED <<pc, wave, waveStatus, entryRefused, ctxVars, pinVars, devVars,
                 dst, queue, dead>>

(* cudec_stream_ctx_destroy: synchronise, then free everything. *)
Destroy ==
  /\ pc \in {"idle", "destroy"} /\ live
  /\ queue = <<>>
  /\ live' = FALSE /\ poisoned' = FALSE /\ cap' = [b \in Buffers |-> 0]
  /\ pc' = "idle"
  /\ UNCHANGED <<plan, wave, waveStatus, entryRefused, oneShot, calls, outVars,
                 pinVars, devVars, dst, queue, dead, lastErr>>

-----------------------------------------------------------------------------
(* DecodeStreamCtx *)

(* Bug the runs must catch: no seed. *)
NoSeed(p) == UNCHANGED pResults

(* The pinned mirror is seeded before the first wave. *)
SeedMirror(p) ==
  pResults' = [i \in Chunks |-> IF i < p.n THEN "cuda" ELSE pResults[i]]

GrowOk ==
  /\ pc = "grow"
  /\ cap' = [b \in Buffers |-> Grown(plan, b)]
  /\ SeedMirror(plan)
  /\ pc' = "stage"
  /\ UNCHANGED <<plan, wave, waveStatus, entryRefused, oneShot, calls, live,
                 poisoned, outVars, pSrc, pMeta, devVars, dst, queue, dead, lastErr>>

(* The k-th buffer had to grow and could not: the old allocation is already *)
(* freed, the buffers after it are as they were.                            *)
GrowFails(k) ==
  /\ pc = "grow"
  /\ Need(plan, BufferOrder[k]) > cap[BufferOrder[k]]
  /\ cap' = [b \in Buffers |->
               IF b = BufferOrder[k] THEN 0
               ELSE IF \E j \in 1 .. k - 1 : b = BufferOrder[j]
                    THEN Grown(plan, b) ELSE cap[b]]
  /\ poisoned' = TRUE
  /\ lastErr' = TRUE
  /\ ret' = [status |-> "cuda", accepted |-> TRUE]
  /\ pc' = Returned
  /\ UNCHANGED <<plan, wave, waveStatus, entryRefused, oneShot, calls, live,
                 hResults, pinVars, devVars, dst, queue, dead>>

(* Bug the runs must catch: no gate. *)
NoGate == TRUE

(* The reuse gate: the event recorded after the previous wave's copies out  *)
(* of the pinned staging has completed.  The first wave has none.           *)
GateOpen == wave = 1 \/ \A k \in 1 .. Len(queue) : queue[k].op # "record"

Stage ==
  /\ pc = "stage"
  /\ GateOpen
  /\ wave > 1 => ~dead
  /\ pSrc' = IF plan.srcBytes[wave] # 0 THEN wave ELSE pSrc
  /\ pMeta' = wave
  /\ pc' = IF plan.srcBytes[wave] # 0 THEN "h2d_src" ELSE "h2d_meta"
  /\ UNCHANGED <<plan, wave, waveStatus, entryRefused, oneShot, calls, ctxVars,
                 outVars, pResults, devVars, dst, queue, dead, lastErr>>

(* event_synchronize reports the fault. *)
GateFaults ==
  /\ pc = "stage" /\ wave > 1 /\ dead
  /\ FailWave("cuda")
  /\ lastErr' = TRUE
  /\ UNCHANGED <<plan, wave, entryRefused, oneShot, calls, ctxVars, outVars,
                 pinVars, devVars, dst, queue, dead>>

(* One asynchronous runtime call of the loop: accepted, or refused. *)
Submit(at, op, next) ==
  /\ pc = at
  /\ \/ Enqueue(op) /\ pc' = next /\ UNCHANGED <<waveStatus, lastErr>>
     \/ FailWave("cuda") /\ lastErr' = TRUE /\ UNCHANGED queue
  /\ UNCHANGED <<plan, wave, entryRefused, oneShot, calls, ctxVars, outVars,
                 pinVars, devVars, dst, dead>>

SubmitSrc  == Submit("h2d_src", "h2d_src", "h2d_meta")
SubmitMeta == Submit("h2d_meta", "h2d_meta", "record")
RecordReuse == Submit("record", "record", "launch")

(* The batch entry (submit_batch): clears the pending error, asks the wave  *)
(* width, launches, and reads the launch's own error.                       *)
LaunchOk ==
  /\ pc = "launch"
  /\ Enqueue("kernel")
  /\ lastErr' = FALSE
  /\ pc' = "readback"
  /\ UNCHANGED <<plan, wave, waveStatus, entryRefused, oneShot, calls, ctxVars,
                 outVars, pinVars, devVars, dst, dead>>

(* Bug the runs must catch: the pending error is not cleared first. *)
LaunchRefusedKeepingError ==
  /\ pc = "launch"
  /\ \/ FailWave("unsupported") /\ lastErr' = lastErr
     \/ FailWave("cuda") /\ lastErr' = TRUE
     \/ FailWave("cuda") /\ lastErr' = FALSE
  /\ entryRefused' = TRUE
  /\ UNCHANGED <<plan, wave, oneShot, calls, ctxVars, outVars, pinVars, devVars,
                 dst, queue, dead>>

(* Its refusals: a width without a kernel, a width query that failed (its   *)
(* error stays pending), a launch that failed (its error was consumed).     *)
LaunchRefused ==
  /\ pc = "launch"
  /\ \/ FailWave("unsupported") /\ lastErr' = FALSE
     \/ FailWave("cuda") /\ lastErr' = TRUE
     \/ FailWave("cuda") /\ lastErr' = FALSE
  /\ entryRefused' = TRUE
  /\ UNCHANGED <<plan, wave, oneShot, calls, ctxVars, outVars, pinVars, devVars,
                 dst, queue, dead>>

Readback ==
  /\ pc = "readback"
  /\ \/ /\ Enqueue("d2h_results")
        /\ IF plan.hostOut THEN pc' = "sync_wave" /\ wave' = wave ELSE NextWave
        /\ UNCHANGED <<waveStatus, lastErr>>
     \/ FailWave("cuda") /\ lastErr' = TRUE /\ UNCHANGED <<wave, queue>>
  /\ UNCHANGED <<plan, entryRefused, oneShot, calls, ctxVars, outVars, pinVars,
                 devVars, dst, dead>>

(* Host output: the wave is drained before its bytes are read. *)
SyncWave ==
  /\ pc = "sync_wave"
  /\ queue = <<>>
  /\ IF dead THEN FailWave("cuda") /\ lastErr' = TRUE
             ELSE pc' = "copy_out" /\ UNCHANGED <<waveStatus, lastErr>>
  /\ UNCHANGED <<plan, wave, entryRefused, oneShot, calls, ctxVars, outVars,
                 pinVars, devVars, dst, queue, dead>>

(* CopyWaveToHost delivers the chunks of the wave before `stop`. *)
Delivered(stop) ==
  [i \in Chunks |->
     IF i \in ChunksOfWave(wave) /\ i < stop /\ pResults[i] = "ok"
     THEN IF dDst = wave THEN "out" ELSE "junk"
     ELSE dst[i]]

CopyOut ==
  /\ pc = "copy_out"
  /\ \A i \in ChunksOfWave(wave) : pResults[i] # "wild"
  /\ dst' = Delivered(plan.begin[wave + 1])
  /\ NextWave
  /\ UNCHANGED <<plan, waveStatus, entryRefused, oneShot, calls, ctxVars, outVars,
                 pinVars, devVars, queue, dead, lastErr>>

(* A record that claims more than the capacity is a device fault. *)
CopyOutWild(stop) ==
  /\ pc = "copy_out"
  /\ stop \in ChunksOfWave(wave)
  /\ pResults[stop] = "wild"
  /\ \A i \in ChunksOfWave(wave) : i < stop => pResults[i] # "wild"
  /\ dst' = Delivered(stop)
  /\ pResults' = [pResults EXCEPT ![stop] = "cuda"]
  /\ FailWave("cuda")
  /\ UNCHANGED <<plan, wave, entryRefused, oneShot, calls, ctxVars, outVars, pSrc,
                 pMeta, devVars, queue, dead, lastErr>>

(* The copy of one chunk failed; a chunk of no bytes is not copied. *)
CopyOutFails(stop) ==
  /\ pc = "copy_out"
  /\ stop \in ChunksOfWave(wave)
  /\ pResults[stop] = "ok" /\ plan.cap[stop] > 0
  /\ \A i \in ChunksOfWave(wave) : i < stop => pResults[i] # "wild"
  /\ dst' = Delivered(stop)
  /\ FailWave("cuda")
  /\ lastErr' = TRUE
  /\ UNCHANGED <<plan, wave, entryRefused, oneShot, calls, ctxVars, outVars,
                 pinVars, devVars, queue, dead>>

(* The first non-OK record in index order decides the return. *)
Aggregate(results, st) ==
  LET Ok(i) == StatusOf(results[i]) = "ok"
  IN  \/ st = "ok" /\ \A i \in CallChunks(plan) : Ok(i)
      \/ \E i \in CallChunks(plan) :
            /\ ~Ok(i) /\ \A j \in 0 .. i - 1 : Ok(j)
            /\ st = StatusOf(results[i])

(* Bug the runs must catch: no refused entry poisons, faulted or not. *)
PoisonUnlessRefused(syncFaulted, asyncFaulted) == ~entryRefused

(* Whether a failed call leaves the context dead: an entry that refused     *)
(* without a fault does not.                                                *)
Poisons(syncFaulted, asyncFaulted) ==
  ~entryRefused \/ syncFaulted \/ asyncFaulted

(* Bug the runs must catch: a failed call returns with its work in flight. *)
ReturnWithoutDrain ==
  /\ pc = "drain"
  /\ waveStatus # "ok" \/ queue = <<>>
  /\ hResults' = [i \in Chunks |-> IF i < plan.n THEN pResults[i] ELSE hResults[i]]
  /\ \E st \in Statuses \cup Results :
       /\ IF waveStatus # "ok" THEN st = waveStatus
          ELSE IF dead \/ lastErr THEN st = "cuda" ELSE Aggregate(pResults, st)
       /\ ret' = [status |-> st, accepted |-> TRUE]
  /\ poisoned' = (poisoned \/ (ret'.status = "cuda" /\ ~entryRefused))
  /\ lastErr' = FALSE
  /\ pc' = Returned
  /\ UNCHANGED <<plan, wave, waveStatus, entryRefused, oneShot, calls, live, cap,
                 pinVars, devVars, dst, queue, dead>>

(* stream_synchronize, get_last_error, publish the mirror, decide. *)
Drain ==
  /\ pc = "drain"
  /\ queue = <<>>
  /\ LET syncFaulted  == dead
         asyncFaulted == lastErr \/ dead
         drain == IF waveStatus = "ok" /\ (syncFaulted \/ asyncFaulted)
                  THEN "cuda" ELSE waveStatus
     IN  /\ hResults' = [i \in Chunks |-> IF i < plan.n THEN pResults[i] ELSE hResults[i]]
         /\ IF drain # "ok"
            THEN /\ poisoned' = (poisoned \/ Poisons(syncFaulted, asyncFaulted))
                 /\ ret' = [status |-> drain, accepted |-> TRUE]
            ELSE /\ \E st \in Statuses \cup Results :
                      /\ Aggregate(pResults, st)
                      /\ ret' = [status |-> st, accepted |-> TRUE]
                 /\ UNCHANGED poisoned
  /\ lastErr' = FALSE
  /\ pc' = Returned
  /\ UNCHANGED <<plan, wave, waveStatus, entryRefused, oneShot, calls, live, cap,
                 pinVars, devVars, dst, queue, dead>>

-----------------------------------------------------------------------------
(* The device (external) *)

(* The kernel of wave w sees its own wave's bytes and pointers. *)
Fed(w) == dMeta = w /\ (plan.srcBytes[w] # 0 => dSrc = w)

Runs(o) ==
  CASE o.op = "h2d_src"  -> dSrc' = pSrc /\ UNCHANGED <<dMeta, dDst, dResults, pResults, dst>>
    [] o.op = "h2d_meta" -> dMeta' = pMeta /\ UNCHANGED <<dSrc, dDst, dResults, pResults, dst>>
    [] o.op = "record"   -> UNCHANGED <<devVars, pResults, dst>>
    [] o.op = "kernel"   ->
         /\ dResults' = [i \in Chunks |->
              IF i \in ChunksOfWave(o.wave)
              THEN IF Fed(o.wave) THEN plan.verdict[i] ELSE "stale"
              ELSE dResults[i]]
         /\ dDst' = IF plan.hostOut THEN IF Fed(o.wave) THEN o.wave ELSE 0 ELSE dDst
         /\ dst' = [i \in Chunks |->
              IF ~plan.hostOut /\ i \in ChunksOfWave(o.wave)
              THEN IF Fed(o.wave) /\ plan.verdict[i] = "ok" THEN "out" ELSE "junk"
              ELSE dst[i]]
         /\ UNCHANGED <<dSrc, dMeta, pResults>>
    [] o.op = "d2h_results" ->
         /\ pResults' = [i \in Chunks |->
              IF i \in ChunksOfWave(o.wave) THEN dResults[i] ELSE pResults[i]]
         /\ UNCHANGED <<devVars, dst>>

DeviceRun ==
  /\ queue # <<>>
  /\ Runs(Head(queue))
  /\ queue' = Tail(queue)
  /\ UNCHANGED <<hostVars, ctxVars, outVars, pSrc, pMeta, dead, lastErr>>

(* The oldest operation faults; nothing behind it runs.  A faulting kernel  *)
(* may have written part of its output.                                     *)
DeviceFault ==
  /\ queue # <<>>
  /\ dead' = TRUE
  /\ queue' = <<>>
  /\ dst' = [i \in Chunks |->
       IF Head(queue).op = "kernel" /\ ~plan.hostOut /\ i \in ChunksOfWave(Head(queue).wave)
       THEN "junk" ELSE dst[i]]
  /\ UNCHANGED <<hostVars, ctxVars, outVars, pinVars, devVars, lastErr>>

(* Some other runtime call of the caller's thread failed. *)
CallerError ==
  /\ pc = "idle" /\ ~lastErr
  /\ lastErr' = TRUE
  /\ UNCHANGED <<hostVars, ctxVars, outVars, pinVars, devVars, dst, queue, dead>>

-----------------------------------------------------------------------------
Caller ==
  \/ CreateOk \/ CreateFails \/ RefuseArguments \/ CallerError
  \/ \E p \in Plans : \/ Decode(p) \/ DecodePoisoned(p)
                      \/ OneShotOk(p) \/ OneShotCreateFails(p)
  \/ pc = "idle" /\ Destroy

Host ==
  \/ GrowOk \/ (\E k \in 1 .. 7 : GrowFails(k))
  \/ Stage \/ GateFaults
  \/ SubmitSrc \/ SubmitMeta \/ RecordReuse
  \/ LaunchOk \/ LaunchRefused
  \/ Readback \/ SyncWave
  \/ CopyOut
  \/ \E stop \in Chunks : CopyOutWild(stop) \/ CopyOutFails(stop)
  \/ Drain
  \/ pc = "destroy" /\ Destroy

Device == DeviceRun \/ DeviceFault

Next == Caller \/ Host \/ Device

(* The host thread runs while a call is open and the stream makes progress; *)
(* nobody has to call.                                                      *)
Fairness == WF_vars(Host) /\ WF_vars(Device)

Spec == Init /\ [][Next]_vars /\ Fairness
-----------------------------------------------------------------------------
HostTyped ==
  /\ pc \in Steps
  /\ plan \in Plans
  /\ wave \in Nat
  /\ pc \notin {"idle", "destroy"} => wave \in 1 .. plan.waves
  /\ waveStatus \in Statuses
  /\ entryRefused \in BOOLEAN /\ oneShot \in BOOLEAN
  /\ calls \in 0 .. MaxCalls

CtxTyped ==
  /\ live \in BOOLEAN /\ poisoned \in BOOLEAN
  /\ dead \in BOOLEAN /\ lastErr \in BOOLEAN
  /\ cap \in [Buffers -> Nat]

CallerTyped ==
  /\ ret \in [status : Statuses \cup Results, accepted : BOOLEAN]
  /\ hResults \in [Chunks -> Results]
  /\ dst \in [Chunks -> {"old", "out", "junk"}]

StagingTyped ==
  /\ pSrc \in Nat /\ pMeta \in Nat
  /\ dSrc \in Nat /\ dMeta \in Nat /\ dDst \in Nat
  /\ pResults \in [Chunks -> Results]
  /\ dResults \in [Chunks -> Results]

QueueTyped ==
  /\ queue \in Seq([op : Ops, wave : Nat])
  /\ \A k \in 1 .. Len(queue) : queue[k].wave \in 1 .. plan.waves

TypeOK == HostTyped /\ CtxTyped /\ CallerTyped /\ StagingTyped /\ QueueTyped

(* The reuse gate does its job: a copy out of the pinned staging that is    *)
(* still in flight finds there the wave it was submitted for, never the     *)
(* bytes or the pointers of a later wave (stream.cpp:363-372).              *)
StagingNotOverwritten ==
  \A k \in 1 .. Len(queue) :
    /\ queue[k].op = "h2d_src"  => pSrc = queue[k].wave
    /\ queue[k].op = "h2d_meta" => pMeta = queue[k].wave

(* The entry is synchronous on every path, the failing ones included: no    *)
(* work of a call is in flight once it returned, nor while buffers are      *)
(* grown, nor when the destructor frees them (stream.cpp:477-483, 592-604). *)
NothingOutlivesCall == pc \in {"idle", "grow", "destroy"} => queue = <<>>

(* The bytes an operation touches, per buffer. *)
Touches(o) ==
  CASE o.op = "h2d_src"  -> {<<"p_src", plan.srcBytes[o.wave]>>,
                             <<"d_src", plan.srcBytes[o.wave]>>}
    [] o.op = "h2d_meta" -> {<<"p_meta", 4 * plan.waveChunks>>,
                             <<"d_meta", 4 * plan.waveChunks>>}
    [] o.op = "record"   -> {}
    [] o.op = "kernel"   -> {<<"d_src", plan.srcBytes[o.wave]>>,
                             <<"d_meta", 4 * plan.waveChunks>>,
                             <<"d_dst", IF plan.hostOut THEN plan.dstBytes[o.wave] ELSE 0>>,
                             <<"d_results", plan.begin[o.wave + 1]>>}
    [] o.op = "d2h_results" -> {<<"d_results", plan.begin[o.wave + 1]>>,
                                <<"p_results", plan.begin[o.wave + 1]>>}

(* Everything in flight stays inside allocations that are alive: buffers    *)
(* grow before the first wave, to the largest wave of the call, and results *)
(* to the whole call (stream.cpp:264-320, vendor_raii.h:44-66).             *)
InFlightInBounds ==
  \A k \in 1 .. Len(queue) : \A t \in Touches(queue[k]) : t[2] <= cap[t[1]]

AtRest == pc \in {"idle", "destroy"}

(* What a call reports is what it did, whatever an earlier call on the same *)
(* context or another wave left in the staging (cudec.h:312-336).  Success  *)
(* means every chunk decoded and its own bytes reached its own destination; *)
(* a chunk reported OK was produced by this call, also when another chunk   *)
(* or wave failed (host output of a call that ended in a runtime failure is *)
(* excepted: its copies may be missing); and no record is one left from an  *)
(* earlier call or never written, unless the one-shot entry could not       *)
(* create its context.                                                      *)
OkChunkProduced ==
  AtRest /\ ret.accepted =>
    \A i \in CallChunks(plan) :
      /\ ret.status = "ok" => hResults[i] = "ok" /\ dst[i] = "out"
      /\ StatusOf(hResults[i]) = "ok" =>
           dst[i] = "out" \/ (plan.hostOut /\ ret.status = "cuda")
      /\ hResults[i] \in {"stale", "unset"} => oneShot /\ ret.status = "cuda"

(* A device fault never leaves a context that would decode again, also when *)
(* the call was already failing for another reason (stream.cpp:498-505).    *)
DeviceFaultPoisons == AtRest /\ live /\ dead => poisoned

(* A width this build has no kernel for costs the call and not the context, *)
(* whatever error the thread had pending before it (stream.cpp:337-349).    *)
RefusalSparesContext ==
  AtRest /\ ret.status = "unsupported" /\ poisoned => dead

(* A poisoned context submits nothing, grows nothing, writes no output and  *)
(* stays poisoned until it is destroyed (cudec.h:346-349).                  *)
PoisonedIsInert ==
  [][AtRest /\ live /\ poisoned =>
       /\ UNCHANGED <<queue, dst, pSrc, pMeta>>
       /\ live' => poisoned' /\ cap' = cap]_vars

-----------------------------------------------------------------------------
(* The streaming context implements its contract.  A request is open while *)
(* the host is inside DecodeStreamCtx; its answer becomes visible in the   *)
(* step that returns, which is also the step that poisons.                 *)

Decoded == AtRest /\ ret.accepted

Contract == INSTANCE StreamContract WITH
  Chunks    <- Chunks,
  life      <- IF ~live THEN "none" ELSE IF poisoned THEN "dead" ELSE "live",
  phase     <- IF pc = "idle" THEN "idle"
               ELSE IF pc = "destroy" THEN "closing" ELSE "busy",
  outcome   <- IF Decoded THEN ret.status ELSE "none",
  asked     <- IF Decoded THEN CallChunks(plan) ELSE {},
  delivered <- IF Decoded /\ ret.status # "cuda"
               THEN {i \in CallChunks(plan) : hResults[i] = "ok" /\ dst[i] = "out"}
               ELSE {}

(* Every behaviour of the code is one the contract allows: one answer per   *)
(* request, success means delivery, a verdict never kills the context, and  *)
(* a dead context only refuses until it is destroyed.                       *)
ImplementsContract == Contract!Spec
=============================================================================
