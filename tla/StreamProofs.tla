---------------------------- MODULE StreamProofs ----------------------------
(***************************************************************************)
(* What the streaming context guarantees for every set of plans: any       *)
(* number of chunks, waves and calls, any sizes; and that its sizing loops *)
(* never refuse a batch, and never overfill a wave.                        *)
(***************************************************************************)
EXTENDS StreamCtx, WaveSizing, TLAPS

(* Every plan is one WavePlan could have cut. *)
LEMMA PlanIsPlan == ASSUME NEW p \in Plans PROVE IsPlan(p)
  BY StreamAssumption

(* The names a buffer may have. *)
LEMMA BufferNames ==
  Buffers = {"p_src", "d_src", "p_meta", "d_meta", "d_dst", "d_results", "p_results"}
  BY DEF Buffers, BufferOrder

(* The states the program can be in, with nothing in flight at rest. *)
Typed == TypeOK /\ NothingOutlivesCall

(* A buffer's new size is a size. *)
LEMMA GrownTyped ==
  ASSUME TypeOK, NEW p \in Plans, NEW b \in Buffers
  PROVE  Need(p, b) \in Nat /\ Grown(p, b) \in Nat /\ Need(p, b) <= Grown(p, b)
  <1>1. /\ p.maxSrc \in Nat /\ p.maxDst \in Nat /\ p.n \in Nat
        /\ p.waveChunks \in Nat
    BY PlanIsPlan, StreamAssumption DEF IsPlan
  <1>2. Need(p, b) \in Nat
    BY <1>1, BufferNames DEF Need
  <1> QED BY <1>2 DEF TypeOK, CtxTyped, Grown

(* Submitting keeps the stream a sequence of this call's operations. *)
LEMMA EnqueueTyped ==
  ASSUME TypeOK, NEW op \in Ops, Enqueue(op), wave \in 1 .. plan.waves
  PROVE  /\ queue' \in Seq([op : Ops, wave : Nat])
         /\ \A k \in 1 .. Len(queue') : queue'[k].wave \in 1 .. plan.waves
  <1> DEFINE o == [op |-> op, wave |-> wave]
  <1>1. o \in [op : Ops, wave : Nat] /\ o.wave = wave
    BY DEF TypeOK, HostTyped
  <1>2. CASE dead
    BY <1>2 DEF TypeOK, QueueTyped, HostTyped, Enqueue
  <1>3. CASE ~dead
    <2>1. queue' = Append(queue, o)
      BY <1>3 DEF Enqueue
    <2> HIDE DEF o
    <2>2. queue \in Seq([op : Ops, wave : Nat])
          /\ \A k \in 1 .. Len(queue) : queue[k].wave \in 1 .. plan.waves
      BY DEF TypeOK, QueueTyped
    <2> QED BY <1>1, <2>1, <2>2
  <1> QED BY <1>2, <1>3

(* The oldest submitted operation is an operation of this call. *)
LEMMA HeadTyped ==
  ASSUME QueueTyped, queue # <<>>
  PROVE  /\ Head(queue).op \in Ops /\ Head(queue).wave \in Nat
         /\ Head(queue).wave \in 1 .. plan.waves
  <1>1. Len(queue) >= 1 /\ Head(queue) = queue[1]
    BY DEF QueueTyped
  <1>2. queue[1] \in [op : Ops, wave : Nat] /\ 1 \in 1 .. Len(queue)
    <2> DEFINE Op == [op : Ops, wave : Nat]
    <2>1. queue \in Seq(Op)
      BY DEF QueueTyped
    <2> HIDE DEF Op
    <2>2. queue[1] \in Op /\ 1 \in 1 .. Len(queue)
      BY <1>1, <2>1
    <2> QED BY <2>2 DEF Op
  <1>3. queue[1].wave \in 1 .. plan.waves
    BY <1>2 DEF QueueTyped
  <1> QED BY <1>1, <1>2, <1>3

(* A wave's chunks are chunks of the call. *)
LEMMA WaveInCall ==
  ASSUME IsPlan(plan), NEW w \in 1 .. plan.waves
  PROVE  ChunksOfWave(w) \subseteq CallChunks(plan)
  <1>1. plan.waves \in Nat /\ plan.n \in Nat
    BY StreamAssumption DEF IsPlan
  <1>2. plan.begin[w] \in 0 .. plan.n /\ plan.begin[w + 1] \in 0 .. plan.n
    <2>1. w \in 1 .. plan.waves + 1 /\ w + 1 \in 1 .. plan.waves + 1
      BY <1>1
    <2> QED BY <2>1 DEF IsPlan
  <1> QED BY <1>1, <1>2 DEF ChunksOfWave, CallChunks

(* A fresh process is in the invariant. *)
LEMMA TypedInit == Init => Typed
  <1> SUFFICES ASSUME Init PROVE Typed OBVIOUS
  <1>2. HostTyped
    <2>1. calls \in 0 .. MaxCalls
      BY StreamAssumption DEF Init
    <2>2. pc \in Steps /\ waveStatus \in Statuses
      BY DEF Init, Steps, Statuses
    <2>3. wave \in Nat /\ plan \in Plans /\ entryRefused \in BOOLEAN /\ oneShot \in BOOLEAN
      BY DEF Init
    <2>4. pc = "idle"
      BY DEF Init
    <2> QED BY <2>1, <2>2, <2>3, <2>4 DEF HostTyped
  <1>3. CtxTyped
    BY DEF Init, CtxTyped
  <1>4. CallerTyped
    BY DEF Init, CallerTyped, Statuses, Results
  <1>5. StagingTyped
    BY DEF Init, StagingTyped, Results
  <1>6. QueueTyped
    BY DEF Init, QueueTyped
  <1> QED BY <1>2, <1>3, <1>4, <1>5, <1>6 DEF Init, Typed, TypeOK, NothingOutlivesCall

(* Every step of the caller, the host or the device keeps it. *)
LEMMA TypedStep == Typed /\ [Next]_vars => Typed'
  <1> SUFFICES ASSUME Typed, [Next]_vars PROVE Typed'
    OBVIOUS
  <1> USE DEF Typed, TypeOK
  <1>1. CASE CreateOk
    <2>1. HostTyped'
      BY <1>1 DEF CreateOk, HostTyped, Steps, Statuses, hostVars, ctxVars, outVars, pinVars, devVars
    <2>2. CtxTyped'
      BY <1>1 DEF CreateOk, CtxTyped, hostVars, ctxVars, outVars, pinVars, devVars
    <2>3. CallerTyped'
      BY <1>1 DEF CreateOk, CallerTyped, Statuses, Results, hostVars, ctxVars, outVars, pinVars, devVars
    <2>4. StagingTyped'
      BY <1>1 DEF CreateOk, StagingTyped, Results, hostVars, ctxVars, outVars, pinVars, devVars
    <2>5. QueueTyped'
      BY <1>1 DEF CreateOk, QueueTyped, NothingOutlivesCall, hostVars, ctxVars, outVars, pinVars, devVars
    <2>6. NothingOutlivesCall'
      BY <1>1 DEF CreateOk, NothingOutlivesCall, hostVars, ctxVars, outVars, pinVars, devVars
    <2> QED BY <2>1, <2>2, <2>3, <2>4, <2>5, <2>6
  <1>2. CASE CreateFails
    <2>1. HostTyped'
      BY <1>2 DEF CreateFails, HostTyped, Steps, Statuses, hostVars, ctxVars, outVars, pinVars, devVars
    <2>2. CtxTyped'
      BY <1>2 DEF CreateFails, CtxTyped, hostVars, ctxVars, outVars, pinVars, devVars
    <2>3. CallerTyped'
      BY <1>2 DEF CreateFails, CallerTyped, Statuses, Results, hostVars, ctxVars, outVars, pinVars, devVars
    <2>4. StagingTyped'
      BY <1>2 DEF CreateFails, StagingTyped, Results, hostVars, ctxVars, outVars, pinVars, devVars
    <2>5. QueueTyped'
      BY <1>2 DEF CreateFails, QueueTyped, NothingOutlivesCall, hostVars, ctxVars, outVars, pinVars, devVars
    <2>6. NothingOutlivesCall'
      BY <1>2 DEF CreateFails, NothingOutlivesCall, hostVars, ctxVars, outVars, pinVars, devVars
    <2> QED BY <2>1, <2>2, <2>3, <2>4, <2>5, <2>6
  <1>3. CASE RefuseArguments
    <2>1. HostTyped'
      BY <1>3 DEF RefuseArguments, HostTyped, Steps, Statuses, hostVars, ctxVars, outVars, pinVars, devVars
    <2>2. CtxTyped'
      BY <1>3 DEF RefuseArguments, CtxTyped, hostVars, ctxVars, outVars, pinVars, devVars
    <2>3. CallerTyped'
      BY <1>3 DEF RefuseArguments, CallerTyped, Statuses, Results, hostVars, ctxVars, outVars, pinVars, devVars
    <2>4. StagingTyped'
      BY <1>3 DEF RefuseArguments, StagingTyped, Results, hostVars, ctxVars, outVars, pinVars, devVars
    <2>5. QueueTyped'
      BY <1>3 DEF RefuseArguments, QueueTyped, NothingOutlivesCall, hostVars, ctxVars, outVars, pinVars, devVars
    <2>6. NothingOutlivesCall'
      BY <1>3 DEF RefuseArguments, NothingOutlivesCall, hostVars, ctxVars, outVars, pinVars, devVars
    <2> QED BY <2>1, <2>2, <2>3, <2>4, <2>5, <2>6
  <1>4. CASE CallerError
    <2>1. HostTyped'
      BY <1>4 DEF CallerError, HostTyped, Steps, Statuses, hostVars, ctxVars, outVars, pinVars, devVars
    <2>2. CtxTyped'
      BY <1>4 DEF CallerError, CtxTyped, hostVars, ctxVars, outVars, pinVars, devVars
    <2>3. CallerTyped'
      BY <1>4 DEF CallerError, CallerTyped, Statuses, Results, hostVars, ctxVars, outVars, pinVars, devVars
    <2>4. StagingTyped'
      BY <1>4 DEF CallerError, StagingTyped, Results, hostVars, ctxVars, outVars, pinVars, devVars
    <2>5. QueueTyped'
      BY <1>4 DEF CallerError, QueueTyped, NothingOutlivesCall, hostVars, ctxVars, outVars, pinVars, devVars
    <2>6. NothingOutlivesCall'
      BY <1>4 DEF CallerError, NothingOutlivesCall, hostVars, ctxVars, outVars, pinVars, devVars
    <2> QED BY <2>1, <2>2, <2>3, <2>4, <2>5, <2>6
  <1>5. ASSUME NEW p \in Plans, Decode(p) PROVE Typed'
    <2>1. HostTyped'
      <3>1. p.waves \in Nat \ {0} /\ calls + 1 \in 0 .. MaxCalls
        BY <1>5, PlanIsPlan, StreamAssumption DEF Decode, IsPlan, HostTyped
      <3>2. /\ plan' = p /\ wave' = 1 /\ pc' = "grow" /\ calls' = calls + 1
            /\ waveStatus' = "ok" /\ entryRefused' \in BOOLEAN /\ oneShot' \in BOOLEAN
        BY <1>5 DEF Decode, BeginDecode
      <3> QED BY <3>1, <3>2 DEF HostTyped, Steps, Statuses
    <2>2. CtxTyped'
      BY <1>5 DEF Decode, BeginDecode, CtxTyped, hostVars, ctxVars, outVars, pinVars, devVars
    <2>3. CallerTyped'
      BY <1>5 DEF Decode, BeginDecode, CallerTyped, Statuses, Results, hostVars, ctxVars, outVars, pinVars, devVars
    <2>4. StagingTyped'
      BY <1>5 DEF Decode, BeginDecode, StagingTyped, Results, hostVars, ctxVars, outVars, pinVars, devVars
    <2>5. QueueTyped'
      BY <1>5 DEF Decode, BeginDecode, QueueTyped, NothingOutlivesCall, hostVars, ctxVars, outVars, pinVars, devVars
    <2>6. NothingOutlivesCall'
      BY <1>5 DEF Decode, BeginDecode, NothingOutlivesCall, hostVars, ctxVars, outVars, pinVars, devVars
    <2> QED BY <2>1, <2>2, <2>3, <2>4, <2>5, <2>6
  <1>6. ASSUME NEW p \in Plans, DecodePoisoned(p) PROVE Typed'
    <2>1. HostTyped'
      BY <1>6, StreamAssumption DEF DecodePoisoned, HostTyped, Steps, Statuses, hostVars, ctxVars, outVars, pinVars, devVars
    <2>2. CtxTyped'
      BY <1>6 DEF DecodePoisoned, CtxTyped, hostVars, ctxVars, outVars, pinVars, devVars
    <2>3. CallerTyped'
      BY <1>6 DEF DecodePoisoned, CallerTyped, Statuses, Results, hostVars, ctxVars, outVars, pinVars, devVars
    <2>4. StagingTyped'
      BY <1>6 DEF DecodePoisoned, StagingTyped, Results, hostVars, ctxVars, outVars, pinVars, devVars
    <2>5. QueueTyped'
      BY <1>6 DEF DecodePoisoned, QueueTyped, NothingOutlivesCall, hostVars, ctxVars, outVars, pinVars, devVars
    <2>6. NothingOutlivesCall'
      BY <1>6 DEF DecodePoisoned, NothingOutlivesCall, hostVars, ctxVars, outVars, pinVars, devVars
    <2> QED BY <2>1, <2>2, <2>3, <2>4, <2>5, <2>6
  <1>7. ASSUME NEW p \in Plans, OneShotOk(p) PROVE Typed'
    <2>1. HostTyped'
      <3>1. p.waves \in Nat \ {0} /\ calls + 1 \in 0 .. MaxCalls
        BY <1>7, PlanIsPlan, StreamAssumption DEF OneShotOk, IsPlan, HostTyped
      <3>2. /\ plan' = p /\ wave' = 1 /\ pc' = "grow" /\ calls' = calls + 1
            /\ waveStatus' = "ok" /\ entryRefused' \in BOOLEAN /\ oneShot' \in BOOLEAN
        BY <1>7 DEF OneShotOk, BeginDecode
      <3> QED BY <3>1, <3>2 DEF HostTyped, Steps, Statuses
    <2>2. CtxTyped'
      BY <1>7 DEF OneShotOk, BeginDecode, CtxTyped, hostVars, ctxVars, outVars, pinVars, devVars
    <2>3. CallerTyped'
      BY <1>7 DEF OneShotOk, BeginDecode, CallerTyped, Statuses, Results, hostVars, ctxVars, outVars, pinVars, devVars
    <2>4. StagingTyped'
      BY <1>7 DEF OneShotOk, BeginDecode, StagingTyped, Results, hostVars, ctxVars, outVars, pinVars, devVars
    <2>5. QueueTyped'
      BY <1>7 DEF OneShotOk, BeginDecode, QueueTyped, NothingOutlivesCall, hostVars, ctxVars, outVars, pinVars, devVars
    <2>6. NothingOutlivesCall'
      BY <1>7 DEF OneShotOk, BeginDecode, NothingOutlivesCall, hostVars, ctxVars, outVars, pinVars, devVars
    <2> QED BY <2>1, <2>2, <2>3, <2>4, <2>5, <2>6
  <1>8. ASSUME NEW p \in Plans, OneShotCreateFails(p) PROVE Typed'
    <2>1. HostTyped'
      BY <1>8, StreamAssumption DEF OneShotCreateFails, HostTyped, Steps, Statuses, hostVars, ctxVars, outVars, pinVars, devVars
    <2>2. CtxTyped'
      BY <1>8 DEF OneShotCreateFails, CtxTyped, hostVars, ctxVars, outVars, pinVars, devVars
    <2>3. CallerTyped'
      BY <1>8 DEF OneShotCreateFails, CallerTyped, Statuses, Results, hostVars, ctxVars, outVars, pinVars, devVars
    <2>4. StagingTyped'
      BY <1>8 DEF OneShotCreateFails, StagingTyped, Results, hostVars, ctxVars, outVars, pinVars, devVars
    <2>5. QueueTyped'
      BY <1>8 DEF OneShotCreateFails, QueueTyped, NothingOutlivesCall, hostVars, ctxVars, outVars, pinVars, devVars
    <2>6. NothingOutlivesCall'
      BY <1>8 DEF OneShotCreateFails, NothingOutlivesCall, hostVars, ctxVars, outVars, pinVars, devVars
    <2> QED BY <2>1, <2>2, <2>3, <2>4, <2>5, <2>6
  <1>9. CASE Destroy
    <2>1. HostTyped'
      BY <1>9 DEF Destroy, HostTyped, Steps, Statuses, hostVars, ctxVars, outVars, pinVars, devVars
    <2>2. CtxTyped'
      BY <1>9 DEF Destroy, CtxTyped, hostVars, ctxVars, outVars, pinVars, devVars
    <2>3. CallerTyped'
      BY <1>9 DEF Destroy, CallerTyped, Statuses, Results, hostVars, ctxVars, outVars, pinVars, devVars
    <2>4. StagingTyped'
      BY <1>9 DEF Destroy, StagingTyped, Results, hostVars, ctxVars, outVars, pinVars, devVars
    <2>5. QueueTyped'
      BY <1>9 DEF Destroy, QueueTyped, NothingOutlivesCall, hostVars, ctxVars, outVars, pinVars, devVars
    <2>6. NothingOutlivesCall'
      BY <1>9 DEF Destroy, NothingOutlivesCall, hostVars, ctxVars, outVars, pinVars, devVars
    <2> QED BY <2>1, <2>2, <2>3, <2>4, <2>5, <2>6
  <1>10. CASE GrowOk
    <2>1. HostTyped'
      BY <1>10 DEF GrowOk, HostTyped, Steps, Statuses, hostVars, ctxVars, outVars, pinVars, devVars
    <2>2. CtxTyped'
      BY <1>10, GrownTyped, BufferNames DEF HostTyped, GrowOk, CtxTyped, hostVars, ctxVars, outVars, pinVars, devVars
    <2>3. CallerTyped'
      BY <1>10 DEF GrowOk, CallerTyped, Statuses, Results, hostVars, ctxVars, outVars, pinVars, devVars
    <2>4. StagingTyped'
      BY <1>10 DEF GrowOk, SeedMirror, StagingTyped, Results, hostVars, ctxVars, outVars, pinVars, devVars
    <2>5. QueueTyped'
      BY <1>10 DEF GrowOk, QueueTyped, NothingOutlivesCall, hostVars, ctxVars, outVars, pinVars, devVars
    <2>6. NothingOutlivesCall'
      BY <1>10 DEF GrowOk, NothingOutlivesCall, hostVars, ctxVars, outVars, pinVars, devVars
    <2> QED BY <2>1, <2>2, <2>3, <2>4, <2>5, <2>6
  <1>11. ASSUME NEW k \in 1 .. 7, GrowFails(k) PROVE Typed'
    <2>1. HostTyped'
      BY <1>11 DEF GrowFails, Returned, HostTyped, Steps, Statuses, hostVars, ctxVars, outVars, pinVars, devVars
    <2>2. CtxTyped'
      BY <1>11, GrownTyped, BufferNames DEF HostTyped, GrowFails, Returned, CtxTyped, hostVars, ctxVars, outVars, pinVars, devVars
    <2>3. CallerTyped'
      BY <1>11 DEF GrowFails, Returned, CallerTyped, Statuses, Results, hostVars, ctxVars, outVars, pinVars, devVars
    <2>4. StagingTyped'
      BY <1>11 DEF GrowFails, Returned, StagingTyped, Results, hostVars, ctxVars, outVars, pinVars, devVars
    <2>5. QueueTyped'
      BY <1>11 DEF GrowFails, Returned, QueueTyped, NothingOutlivesCall, hostVars, ctxVars, outVars, pinVars, devVars
    <2>6. NothingOutlivesCall'
      BY <1>11 DEF GrowFails, Returned, NothingOutlivesCall, hostVars, ctxVars, outVars, pinVars, devVars
    <2> QED BY <2>1, <2>2, <2>3, <2>4, <2>5, <2>6
  <1>12. CASE Stage
    <2>1. HostTyped'
      BY <1>12 DEF Stage, HostTyped, Steps, Statuses, hostVars, ctxVars, outVars, pinVars, devVars
    <2>2. CtxTyped'
      BY <1>12 DEF Stage, CtxTyped, hostVars, ctxVars, outVars, pinVars, devVars
    <2>3. CallerTyped'
      BY <1>12 DEF Stage, CallerTyped, Statuses, Results, hostVars, ctxVars, outVars, pinVars, devVars
    <2>4. StagingTyped'
      BY <1>12 DEF HostTyped, Stage, StagingTyped, Results, hostVars, ctxVars, outVars, pinVars, devVars
    <2>5. QueueTyped'
      BY <1>12 DEF Stage, QueueTyped, NothingOutlivesCall, hostVars, ctxVars, outVars, pinVars, devVars
    <2>6. NothingOutlivesCall'
      BY <1>12 DEF Stage, NothingOutlivesCall, hostVars, ctxVars, outVars, pinVars, devVars
    <2> QED BY <2>1, <2>2, <2>3, <2>4, <2>5, <2>6
  <1>13. CASE GateFaults
    <2>1. HostTyped'
      BY <1>13 DEF GateFaults, FailWave, HostTyped, Steps, Statuses, hostVars, ctxVars, outVars, pinVars, devVars
    <2>2. CtxTyped'
      BY <1>13 DEF GateFaults, FailWave, CtxTyped, hostVars, ctxVars, outVars, pinVars, devVars
    <2>3. CallerTyped'
      BY <1>13 DEF GateFaults, FailWave, CallerTyped, Statuses, Results, hostVars, ctxVars, outVars, pinVars, devVars
    <2>4. StagingTyped'
      BY <1>13 DEF GateFaults, FailWave, StagingTyped, Results, hostVars, ctxVars, outVars, pinVars, devVars
    <2>5. QueueTyped'
      BY <1>13 DEF GateFaults, FailWave, QueueTyped, NothingOutlivesCall, hostVars, ctxVars, outVars, pinVars, devVars
    <2>6. NothingOutlivesCall'
      BY <1>13 DEF GateFaults, FailWave, NothingOutlivesCall, hostVars, ctxVars, outVars, pinVars, devVars
    <2> QED BY <2>1, <2>2, <2>3, <2>4, <2>5, <2>6
  <1>14. CASE SubmitSrc
    <2>1. HostTyped'
      BY <1>14 DEF SubmitSrc, Submit, FailWave, HostTyped, Steps, Statuses, hostVars, ctxVars, outVars, pinVars, devVars
    <2>2. CtxTyped'
      BY <1>14 DEF SubmitSrc, Submit, FailWave, CtxTyped, hostVars, ctxVars, outVars, pinVars, devVars
    <2>3. CallerTyped'
      BY <1>14 DEF SubmitSrc, Submit, FailWave, CallerTyped, Statuses, Results, hostVars, ctxVars, outVars, pinVars, devVars
    <2>4. StagingTyped'
      BY <1>14 DEF SubmitSrc, Submit, FailWave, StagingTyped, Results, hostVars, ctxVars, outVars, pinVars, devVars
    <2>5. QueueTyped'
      <3>1. wave \in 1 .. plan.waves /\ plan' = plan
        BY <1>14 DEF SubmitSrc, Submit, HostTyped
      <3>2. Enqueue("h2d_src") \/ UNCHANGED queue
        BY <1>14 DEF SubmitSrc, Submit
      <3>3. CASE Enqueue("h2d_src")
        BY <3>1, <3>3, EnqueueTyped DEF QueueTyped, Ops
      <3>4. CASE UNCHANGED queue
        BY <3>1, <3>4 DEF QueueTyped
      <3> QED BY <3>2, <3>3, <3>4
    <2>6. NothingOutlivesCall'
      BY <1>14 DEF SubmitSrc, Submit, FailWave, NothingOutlivesCall, hostVars, ctxVars, outVars, pinVars, devVars
    <2> QED BY <2>1, <2>2, <2>3, <2>4, <2>5, <2>6
  <1>15. CASE SubmitMeta
    <2>1. HostTyped'
      BY <1>15 DEF SubmitMeta, Submit, FailWave, HostTyped, Steps, Statuses, hostVars, ctxVars, outVars, pinVars, devVars
    <2>2. CtxTyped'
      BY <1>15 DEF SubmitMeta, Submit, FailWave, CtxTyped, hostVars, ctxVars, outVars, pinVars, devVars
    <2>3. CallerTyped'
      BY <1>15 DEF SubmitMeta, Submit, FailWave, CallerTyped, Statuses, Results, hostVars, ctxVars, outVars, pinVars, devVars
    <2>4. StagingTyped'
      BY <1>15 DEF SubmitMeta, Submit, FailWave, StagingTyped, Results, hostVars, ctxVars, outVars, pinVars, devVars
    <2>5. QueueTyped'
      <3>1. wave \in 1 .. plan.waves /\ plan' = plan
        BY <1>15 DEF SubmitMeta, Submit, HostTyped
      <3>2. Enqueue("h2d_meta") \/ UNCHANGED queue
        BY <1>15 DEF SubmitMeta, Submit
      <3>3. CASE Enqueue("h2d_meta")
        BY <3>1, <3>3, EnqueueTyped DEF QueueTyped, Ops
      <3>4. CASE UNCHANGED queue
        BY <3>1, <3>4 DEF QueueTyped
      <3> QED BY <3>2, <3>3, <3>4
    <2>6. NothingOutlivesCall'
      BY <1>15 DEF SubmitMeta, Submit, FailWave, NothingOutlivesCall, hostVars, ctxVars, outVars, pinVars, devVars
    <2> QED BY <2>1, <2>2, <2>3, <2>4, <2>5, <2>6
  <1>16. CASE RecordReuse
    <2>1. HostTyped'
      BY <1>16 DEF RecordReuse, Submit, FailWave, HostTyped, Steps, Statuses, hostVars, ctxVars, outVars, pinVars, devVars
    <2>2. CtxTyped'
      BY <1>16 DEF RecordReuse, Submit, FailWave, CtxTyped, hostVars, ctxVars, outVars, pinVars, devVars
    <2>3. CallerTyped'
      BY <1>16 DEF RecordReuse, Submit, FailWave, CallerTyped, Statuses, Results, hostVars, ctxVars, outVars, pinVars, devVars
    <2>4. StagingTyped'
      BY <1>16 DEF RecordReuse, Submit, FailWave, StagingTyped, Results, hostVars, ctxVars, outVars, pinVars, devVars
    <2>5. QueueTyped'
      <3>1. wave \in 1 .. plan.waves /\ plan' = plan
        BY <1>16 DEF RecordReuse, Submit, HostTyped
      <3>2. Enqueue("record") \/ UNCHANGED queue
        BY <1>16 DEF RecordReuse, Submit
      <3>3. CASE Enqueue("record")
        BY <3>1, <3>3, EnqueueTyped DEF QueueTyped, Ops
      <3>4. CASE UNCHANGED queue
        BY <3>1, <3>4 DEF QueueTyped
      <3> QED BY <3>2, <3>3, <3>4
    <2>6. NothingOutlivesCall'
      BY <1>16 DEF RecordReuse, Submit, FailWave, NothingOutlivesCall, hostVars, ctxVars, outVars, pinVars, devVars
    <2> QED BY <2>1, <2>2, <2>3, <2>4, <2>5, <2>6
  <1>17. CASE LaunchOk
    <2>1. HostTyped'
      BY <1>17 DEF LaunchOk, HostTyped, Steps, Statuses, hostVars, ctxVars, outVars, pinVars, devVars
    <2>2. CtxTyped'
      BY <1>17 DEF LaunchOk, CtxTyped, hostVars, ctxVars, outVars, pinVars, devVars
    <2>3. CallerTyped'
      BY <1>17 DEF LaunchOk, CallerTyped, Statuses, Results, hostVars, ctxVars, outVars, pinVars, devVars
    <2>4. StagingTyped'
      BY <1>17 DEF LaunchOk, StagingTyped, Results, hostVars, ctxVars, outVars, pinVars, devVars
    <2>5. QueueTyped'
      <3>1. wave \in 1 .. plan.waves /\ plan' = plan
        BY <1>17 DEF LaunchOk, HostTyped
      <3>2. Enqueue("kernel")
        BY <1>17 DEF LaunchOk
      <3> QED BY <3>1, <3>2, EnqueueTyped DEF QueueTyped, Ops
    <2>6. NothingOutlivesCall'
      BY <1>17 DEF LaunchOk, NothingOutlivesCall, hostVars, ctxVars, outVars, pinVars, devVars
    <2> QED BY <2>1, <2>2, <2>3, <2>4, <2>5, <2>6
  <1>18. CASE LaunchRefused
    <2>1. HostTyped'
      BY <1>18 DEF LaunchRefused, FailWave, HostTyped, Steps, Statuses, hostVars, ctxVars, outVars, pinVars, devVars
    <2>2. CtxTyped'
      BY <1>18 DEF LaunchRefused, FailWave, CtxTyped, hostVars, ctxVars, outVars, pinVars, devVars
    <2>3. CallerTyped'
      BY <1>18 DEF LaunchRefused, FailWave, CallerTyped, Statuses, Results, hostVars, ctxVars, outVars, pinVars, devVars
    <2>4. StagingTyped'
      BY <1>18 DEF LaunchRefused, FailWave, StagingTyped, Results, hostVars, ctxVars, outVars, pinVars, devVars
    <2>5. QueueTyped'
      BY <1>18 DEF LaunchRefused, FailWave, QueueTyped, NothingOutlivesCall, hostVars, ctxVars, outVars, pinVars, devVars
    <2>6. NothingOutlivesCall'
      BY <1>18 DEF LaunchRefused, FailWave, NothingOutlivesCall, hostVars, ctxVars, outVars, pinVars, devVars
    <2> QED BY <2>1, <2>2, <2>3, <2>4, <2>5, <2>6
  <1>19. CASE Readback
    <2>1. HostTyped'
      BY <1>19, PlanIsPlan DEF IsPlan, Readback, FailWave, NextWave, HostTyped, Steps, Statuses, hostVars, ctxVars, outVars, pinVars, devVars
    <2>2. CtxTyped'
      BY <1>19 DEF Readback, FailWave, NextWave, CtxTyped, hostVars, ctxVars, outVars, pinVars, devVars
    <2>3. CallerTyped'
      BY <1>19 DEF Readback, FailWave, NextWave, CallerTyped, Statuses, Results, hostVars, ctxVars, outVars, pinVars, devVars
    <2>4. StagingTyped'
      BY <1>19 DEF Readback, FailWave, NextWave, StagingTyped, Results, hostVars, ctxVars, outVars, pinVars, devVars
    <2>5. QueueTyped'
      <3>1. wave \in 1 .. plan.waves /\ plan' = plan
        BY <1>19 DEF Readback, HostTyped
      <3>2. Enqueue("d2h_results") \/ UNCHANGED queue
        BY <1>19 DEF Readback
      <3>3. CASE Enqueue("d2h_results")
        BY <3>1, <3>3, EnqueueTyped DEF QueueTyped, Ops
      <3>4. CASE UNCHANGED queue
        BY <3>1, <3>4 DEF QueueTyped
      <3> QED BY <3>2, <3>3, <3>4
    <2>6. NothingOutlivesCall'
      BY <1>19 DEF Readback, FailWave, NextWave, NothingOutlivesCall, hostVars, ctxVars, outVars, pinVars, devVars
    <2> QED BY <2>1, <2>2, <2>3, <2>4, <2>5, <2>6
  <1>20. CASE SyncWave
    <2>1. HostTyped'
      BY <1>20 DEF SyncWave, FailWave, HostTyped, Steps, Statuses, hostVars, ctxVars, outVars, pinVars, devVars
    <2>2. CtxTyped'
      BY <1>20 DEF SyncWave, FailWave, CtxTyped, hostVars, ctxVars, outVars, pinVars, devVars
    <2>3. CallerTyped'
      BY <1>20 DEF SyncWave, FailWave, CallerTyped, Statuses, Results, hostVars, ctxVars, outVars, pinVars, devVars
    <2>4. StagingTyped'
      BY <1>20 DEF SyncWave, FailWave, StagingTyped, Results, hostVars, ctxVars, outVars, pinVars, devVars
    <2>5. QueueTyped'
      BY <1>20 DEF SyncWave, FailWave, QueueTyped, NothingOutlivesCall, hostVars, ctxVars, outVars, pinVars, devVars
    <2>6. NothingOutlivesCall'
      BY <1>20 DEF SyncWave, FailWave, NothingOutlivesCall, hostVars, ctxVars, outVars, pinVars, devVars
    <2> QED BY <2>1, <2>2, <2>3, <2>4, <2>5, <2>6
  <1>21. CASE CopyOut
    <2>1. HostTyped'
      BY <1>21, PlanIsPlan DEF IsPlan, CopyOut, NextWave, HostTyped, Steps, Statuses, hostVars, ctxVars, outVars, pinVars, devVars
    <2>2. CtxTyped'
      BY <1>21 DEF CopyOut, NextWave, CtxTyped, hostVars, ctxVars, outVars, pinVars, devVars
    <2>3. CallerTyped'
      BY <1>21 DEF CopyOut, NextWave, Delivered, CallerTyped, Statuses, Results, hostVars, ctxVars, outVars, pinVars, devVars
    <2>4. StagingTyped'
      BY <1>21 DEF CopyOut, NextWave, StagingTyped, Results, hostVars, ctxVars, outVars, pinVars, devVars
    <2>5. QueueTyped'
      BY <1>21 DEF CopyOut, NextWave, QueueTyped, NothingOutlivesCall, hostVars, ctxVars, outVars, pinVars, devVars
    <2>6. NothingOutlivesCall'
      BY <1>21 DEF CopyOut, NextWave, NothingOutlivesCall, hostVars, ctxVars, outVars, pinVars, devVars
    <2> QED BY <2>1, <2>2, <2>3, <2>4, <2>5, <2>6
  <1>22. ASSUME NEW s \in Chunks, CopyOutWild(s) PROVE Typed'
    <2>1. HostTyped'
      BY <1>22 DEF CopyOutWild, FailWave, HostTyped, Steps, Statuses, hostVars, ctxVars, outVars, pinVars, devVars
    <2>2. CtxTyped'
      BY <1>22 DEF CopyOutWild, FailWave, CtxTyped, hostVars, ctxVars, outVars, pinVars, devVars
    <2>3. CallerTyped'
      BY <1>22 DEF CopyOutWild, FailWave, Delivered, CallerTyped, Statuses, Results, hostVars, ctxVars, outVars, pinVars, devVars
    <2>4. StagingTyped'
      BY <1>22 DEF CopyOutWild, FailWave, StagingTyped, Results, hostVars, ctxVars, outVars, pinVars, devVars
    <2>5. QueueTyped'
      BY <1>22 DEF CopyOutWild, FailWave, QueueTyped, NothingOutlivesCall, hostVars, ctxVars, outVars, pinVars, devVars
    <2>6. NothingOutlivesCall'
      BY <1>22 DEF CopyOutWild, FailWave, NothingOutlivesCall, hostVars, ctxVars, outVars, pinVars, devVars
    <2> QED BY <2>1, <2>2, <2>3, <2>4, <2>5, <2>6
  <1>23. ASSUME NEW s \in Chunks, CopyOutFails(s) PROVE Typed'
    <2>1. HostTyped'
      BY <1>23 DEF CopyOutFails, FailWave, HostTyped, Steps, Statuses, hostVars, ctxVars, outVars, pinVars, devVars
    <2>2. CtxTyped'
      BY <1>23 DEF CopyOutFails, FailWave, CtxTyped, hostVars, ctxVars, outVars, pinVars, devVars
    <2>3. CallerTyped'
      BY <1>23 DEF CopyOutFails, FailWave, Delivered, CallerTyped, Statuses, Results, hostVars, ctxVars, outVars, pinVars, devVars
    <2>4. StagingTyped'
      BY <1>23 DEF CopyOutFails, FailWave, StagingTyped, Results, hostVars, ctxVars, outVars, pinVars, devVars
    <2>5. QueueTyped'
      BY <1>23 DEF CopyOutFails, FailWave, QueueTyped, NothingOutlivesCall, hostVars, ctxVars, outVars, pinVars, devVars
    <2>6. NothingOutlivesCall'
      BY <1>23 DEF CopyOutFails, FailWave, NothingOutlivesCall, hostVars, ctxVars, outVars, pinVars, devVars
    <2> QED BY <2>1, <2>2, <2>3, <2>4, <2>5, <2>6
  <1>24. CASE Drain
    <2>1. HostTyped'
      BY <1>24 DEF Drain, Returned, HostTyped, Steps, Statuses, hostVars, ctxVars, outVars, pinVars, devVars
    <2>2. CtxTyped'
      BY <1>24 DEF Drain, Returned, CtxTyped, hostVars, ctxVars, outVars, pinVars, devVars
    <2>3. CallerTyped'
      <3>1. hResults' \in [Chunks -> Results] /\ UNCHANGED dst
        BY <1>24 DEF Drain, CallerTyped, StagingTyped
      <3>2. \E st \in Statuses \cup Results : ret' = [status |-> st, accepted |-> TRUE]
        BY <1>24 DEF Drain, HostTyped, Statuses
      <3> QED BY <3>1, <3>2 DEF CallerTyped
    <2>4. StagingTyped'
      BY <1>24 DEF Drain, Returned, StagingTyped, Results, hostVars, ctxVars, outVars, pinVars, devVars
    <2>5. QueueTyped'
      BY <1>24 DEF Drain, Returned, QueueTyped, NothingOutlivesCall, hostVars, ctxVars, outVars, pinVars, devVars
    <2>6. NothingOutlivesCall'
      BY <1>24 DEF Drain, Returned, NothingOutlivesCall, hostVars, ctxVars, outVars, pinVars, devVars
    <2> QED BY <2>1, <2>2, <2>3, <2>4, <2>5, <2>6
  <1>25. CASE DeviceRun
    <2>1. HostTyped'
      BY <1>25 DEF DeviceRun, HostTyped, Steps, Statuses, hostVars, ctxVars, outVars, pinVars, devVars
    <2>2. CtxTyped'
      BY <1>25 DEF DeviceRun, CtxTyped, hostVars, ctxVars, outVars, pinVars, devVars
    <2>3. CallerTyped'
      <3>1. Runs(Head(queue)) /\ Head(queue).op \in Ops
        BY <1>25, HeadTyped DEF DeviceRun
      <3>2. dst' \in [Chunks -> {"old", "out", "junk"}]
        BY <3>1 DEF Runs, Ops, CallerTyped, devVars
      <3> QED BY <1>25, <3>2 DEF DeviceRun, CallerTyped, outVars
    <2>4. StagingTyped'
      <3>1. /\ Runs(Head(queue)) /\ Head(queue).op \in Ops
            /\ Head(queue).wave \in 1 .. plan.waves /\ Head(queue).wave \in Nat
        BY <1>25, HeadTyped DEF DeviceRun
      <3>2. UNCHANGED <<pSrc, pMeta>> /\ plan \in Plans /\ IsPlan(plan)
        BY <1>25, PlanIsPlan DEF DeviceRun, HostTyped
      <3>3. CASE Head(queue).op = "kernel"
        <4>1. ChunksOfWave(Head(queue).wave) \subseteq 0 .. plan.n - 1
          BY <3>1, <3>2, WaveInCall DEF CallChunks
        <4>2. plan.verdict \in [0 .. plan.n - 1 -> Verdicts]
          BY <3>2 DEF IsPlan
        <4>3. dResults' \in [Chunks -> Results]
          BY <3>1, <3>3, <4>1, <4>2 DEF Runs, StagingTyped, Results
        <4>4. dDst' \in Nat /\ UNCHANGED <<dSrc, dMeta, pResults>>
          <5>1. /\ \/ dDst' = Head(queue).wave \/ dDst' = 0 \/ dDst' = dDst
                /\ UNCHANGED <<dSrc, dMeta, pResults>>
            BY <3>1, <3>3 DEF Runs
          <5> QED BY <3>1, <5>1 DEF StagingTyped
        <4> QED BY <3>2, <4>3, <4>4 DEF StagingTyped
      <3>4. CASE Head(queue).op # "kernel"
        BY <3>1, <3>2, <3>4 DEF Runs, Ops, StagingTyped, devVars
      <3> QED BY <3>3, <3>4
    <2>5. QueueTyped'
      BY <1>25 DEF DeviceRun, QueueTyped, NothingOutlivesCall, hostVars, ctxVars, outVars, pinVars, devVars
    <2>6. NothingOutlivesCall'
      BY <1>25 DEF DeviceRun, NothingOutlivesCall, hostVars, ctxVars, outVars, pinVars, devVars
    <2> QED BY <2>1, <2>2, <2>3, <2>4, <2>5, <2>6
  <1>26. CASE DeviceFault
    <2>1. HostTyped'
      BY <1>26 DEF DeviceFault, HostTyped, Steps, Statuses, hostVars, ctxVars, outVars, pinVars, devVars
    <2>2. CtxTyped'
      BY <1>26 DEF DeviceFault, CtxTyped, hostVars, ctxVars, outVars, pinVars, devVars
    <2>3. CallerTyped'
      BY <1>26 DEF DeviceFault, CallerTyped, Statuses, Results, hostVars, ctxVars, outVars, pinVars, devVars
    <2>4. StagingTyped'
      BY <1>26 DEF DeviceFault, StagingTyped, Results, hostVars, ctxVars, outVars, pinVars, devVars
    <2>5. QueueTyped'
      BY <1>26 DEF DeviceFault, QueueTyped, NothingOutlivesCall, hostVars, ctxVars, outVars, pinVars, devVars
    <2>6. NothingOutlivesCall'
      BY <1>26 DEF DeviceFault, NothingOutlivesCall, hostVars, ctxVars, outVars, pinVars, devVars
    <2> QED BY <2>1, <2>2, <2>3, <2>4, <2>5, <2>6
  <1>27. CASE UNCHANGED vars
    BY <1>27 DEF vars, HostTyped, CtxTyped, CallerTyped, StagingTyped, QueueTyped, NothingOutlivesCall, hostVars, ctxVars, outVars, pinVars, devVars
  <1> QED
    BY <1>1, <1>2, <1>3, <1>4, <1>5, <1>6, <1>7, <1>8, <1>9, <1>10, <1>11, <1>12, <1>13, <1>14, <1>15, <1>16, <1>17, <1>18, <1>19, <1>20, <1>21, <1>22, <1>23, <1>24, <1>25, <1>26, <1>27 DEF Next, Caller, Host, Device

(* Every state of every behaviour is typed: no return, record or buffer     *)
(* tag of the model is ever outside its set.                                *)
THEOREM TypeCorrect == Spec => []TypeOK
  <1>1. Typed => TypeOK
    BY DEF Typed
  <1> QED BY <1>1, TypedInit, TypedStep, PTL DEF Spec

(* The synchronous contract: whatever fails, nothing submitted by a call is *)
(* in flight once it returned, so freeing or growing a buffer is safe.      *)
THEOREM NothingOutlivesCallHolds == Spec => []NothingOutlivesCall
  <1>1. Typed => NothingOutlivesCall
    BY DEF Typed
  <1> QED BY <1>1, TypedInit, TypedStep, PTL DEF Spec

-----------------------------------------------------------------------------
(* Poisoning.  While a call is open its context is alive and healthy, and   *)
(* "unsupported" reaches the drain only from an entry that refused and left *)
(* no error pending.                                                        *)
OutcomeInv ==
  /\ pc # "idle" => live
  /\ pc \notin {"idle", "destroy"} => ~poisoned
  /\ pc \notin {"idle", "destroy", "drain"} => waveStatus = "ok"
  /\ waveStatus \in {"ok", "cuda", "unsupported"}
  /\ pc = "drain" /\ waveStatus = "unsupported" => entryRefused /\ ~lastErr

Outcome == OutcomeInv /\ DeviceFaultPoisons /\ RefusalSparesContext

(* A fresh process is in it. *)
LEMMA OutcomeInit == Init => Outcome
  BY DEF Init, Outcome, OutcomeInv, DeviceFaultPoisons, RefusalSparesContext, AtRest

(* A return decided by a record is never "unsupported". *)
LEMMA AggregateStatus ==
  ASSUME Typed, NEW st, Aggregate(pResults, st)
  PROVE  st # "unsupported"
  <1>1. IsPlan(plan)
    BY PlanIsPlan DEF Typed, TypeOK, HostTyped
  <1>2. \A i \in CallChunks(plan) : pResults[i] \in Results
    BY <1>1, StreamAssumption DEF Typed, TypeOK, StagingTyped, IsPlan, CallChunks, Chunks
  <1> QED BY <1>2 DEF Aggregate, StatusOf, Results, Verdicts

(* Every step keeps it; the drain is where the outcome is decided. *)
LEMMA OutcomeStep == Typed /\ Outcome /\ [Next]_vars => Outcome'
  <1> SUFFICES ASSUME Typed, Outcome, [Next]_vars PROVE Outcome'
    OBVIOUS
  <1> USE DEF Outcome, OutcomeInv, DeviceFaultPoisons, RefusalSparesContext, AtRest,
              hostVars, ctxVars, outVars, pinVars, devVars
  <1>1. CASE CreateOk
    BY <1>1 DEF CreateOk
  <1>2. CASE CreateFails
    BY <1>2 DEF CreateFails
  <1>3. CASE RefuseArguments
    BY <1>3 DEF RefuseArguments
  <1>4. CASE CallerError
    BY <1>4 DEF CallerError
  <1>5. ASSUME NEW p \in Plans, Decode(p) PROVE Outcome'
    BY <1>5 DEF Decode, BeginDecode
  <1>6. ASSUME NEW p \in Plans, DecodePoisoned(p) PROVE Outcome'
    BY <1>6 DEF DecodePoisoned
  <1>7. ASSUME NEW p \in Plans, OneShotOk(p) PROVE Outcome'
    BY <1>7 DEF OneShotOk, BeginDecode
  <1>8. ASSUME NEW p \in Plans, OneShotCreateFails(p) PROVE Outcome'
    BY <1>8 DEF OneShotCreateFails
  <1>9. CASE Destroy
    BY <1>9 DEF Destroy
  <1>10. CASE GrowOk
    BY <1>10 DEF GrowOk
  <1>11. ASSUME NEW k \in 1 .. 7, GrowFails(k) PROVE Outcome'
    BY <1>11 DEF GrowFails, Returned
  <1>12. CASE Stage
    BY <1>12 DEF Stage
  <1>13. CASE GateFaults
    BY <1>13 DEF GateFaults, FailWave
  <1>14. CASE SubmitSrc
    BY <1>14 DEF SubmitSrc, Submit, Enqueue, FailWave
  <1>15. CASE SubmitMeta
    BY <1>15 DEF SubmitMeta, Submit, Enqueue, FailWave
  <1>16. CASE RecordReuse
    BY <1>16 DEF RecordReuse, Submit, Enqueue, FailWave
  <1>17. CASE LaunchOk
    BY <1>17 DEF LaunchOk, Enqueue
  <1>18. CASE LaunchRefused
    BY <1>18 DEF LaunchRefused, FailWave
  <1>19. CASE Readback
    BY <1>19 DEF Readback, Enqueue, FailWave, NextWave
  <1>20. CASE SyncWave
    BY <1>20 DEF SyncWave, FailWave
  <1>21. CASE CopyOut
    BY <1>21 DEF CopyOut, NextWave
  <1>22. ASSUME NEW s \in Chunks, CopyOutWild(s) PROVE Outcome'
    BY <1>22 DEF CopyOutWild, FailWave
  <1>23. ASSUME NEW s \in Chunks, CopyOutFails(s) PROVE Outcome'
    BY <1>23 DEF CopyOutFails, FailWave
  <1>24. CASE Drain
    <2>1. CASE waveStatus = "ok" /\ ~dead /\ ~lastErr
      <3>1. PICK st \in Statuses \cup Results :
              Aggregate(pResults, st) /\ ret' = [status |-> st, accepted |-> TRUE]
        BY <1>24, <2>1 DEF Drain
      <3>2. ret'.status # "unsupported"
        BY <3>1, AggregateStatus
      <3> QED BY <1>24, <2>1, <3>2 DEF Drain, Returned
    <2>2. CASE ~(waveStatus = "ok" /\ ~dead /\ ~lastErr)
      <3> DEFINE st == IF waveStatus = "ok" THEN "cuda" ELSE waveStatus
      <3>1. /\ ret' = [status |-> st, accepted |-> TRUE]
            /\ poisoned' = (poisoned \/ Poisons(dead, lastErr \/ dead))
        BY <1>24, <2>2 DEF Drain
      <3>2. dead => poisoned'
        BY <3>1 DEF Poisons
      <3>3. ret'.status = "unsupported" /\ poisoned' => dead
        BY <1>24, <3>1 DEF Drain, Poisons
      <3> QED BY <1>24, <3>2, <3>3 DEF Drain, Returned
    <2> QED BY <2>1, <2>2
  <1>25. CASE DeviceRun
    BY <1>25 DEF DeviceRun
  <1>26. CASE DeviceFault
    BY <1>26 DEF DeviceFault, Typed, NothingOutlivesCall
  <1>27. CASE UNCHANGED vars
    BY <1>27 DEF vars
  <1> QED
    BY <1>1, <1>2, <1>3, <1>4, <1>5, <1>6, <1>7, <1>8, <1>9, <1>10, <1>11, <1>12, <1>13, <1>14, <1>15, <1>16, <1>17, <1>18, <1>19, <1>20, <1>21, <1>22, <1>23, <1>24, <1>25, <1>26, <1>27 DEF Next, Caller, Host, Device

(* A device fault never leaves a context that would decode again.           *)
THEOREM DeviceFaultPoisonsHolds == Spec => []DeviceFaultPoisons
  <1>1. Outcome => DeviceFaultPoisons
    BY DEF Outcome
  <1> QED BY <1>1, TypedInit, TypedStep, OutcomeInit, OutcomeStep, PTL DEF Spec

(* A wave width without a kernel costs the call and not the context.        *)
THEOREM RefusalSparesContextHolds == Spec => []RefusalSparesContext
  <1>1. Outcome => RefusalSparesContext
    BY DEF Outcome
  <1> QED BY <1>1, TypedInit, TypedStep, OutcomeInit, OutcomeStep, PTL DEF Spec

(* From poisoning on, the context is inert until it is destroyed: it runs,  *)
(* stages, grows and writes nothing, and only Destroy revives it.           *)
THEOREM PoisonedIsInertHolds == Spec => PoisonedIsInert
  <1>1. Typed /\ Outcome /\ [Next]_vars =>
          [AtRest /\ live /\ poisoned =>
             /\ UNCHANGED <<queue, dst, pSrc, pMeta>>
             /\ live' => poisoned' /\ cap' = cap]_vars
    <2> DEFINE Inert == AtRest /\ live /\ poisoned =>
                          /\ UNCHANGED <<queue, dst, pSrc, pMeta>>
                          /\ live' => poisoned' /\ cap' = cap
    <2> SUFFICES ASSUME Typed, Outcome, Next, AtRest, live, poisoned PROVE Inert
      OBVIOUS
    <2> USE DEF AtRest, hostVars, ctxVars, outVars, pinVars, devVars
    <2>1. queue = <<>>
      BY DEF Typed, NothingOutlivesCall
    <2>2. CASE Caller
      BY <2>2 DEF Caller, CreateOk, CreateFails, RefuseArguments, CallerError, Decode,
              DecodePoisoned, OneShotOk, OneShotCreateFails, Destroy
    <2>3. CASE Host
      BY <2>3 DEF Host, GrowOk, GrowFails, Stage, GateFaults, SubmitSrc, SubmitMeta,
              RecordReuse, Submit, LaunchOk, LaunchRefused, Readback, SyncWave, CopyOut,
              CopyOutWild, CopyOutFails, Drain, Destroy
    <2>4. CASE Device
      BY <2>1, <2>4 DEF Device, DeviceRun, DeviceFault
    <2> QED BY <2>2, <2>3, <2>4 DEF Next
  <1> QED BY <1>1, TypedInit, TypedStep, OutcomeInit, OutcomeStep, PTL
          DEF Spec, PoisonedIsInert

-----------------------------------------------------------------------------
(* The reuse gate.  A copy out of the pinned staging is followed by the     *)
(* event the gate waits for, unless the host is still between the two or    *)
(* has left the loop; so when the gate opens, none is in flight.            *)
GateInv ==
  /\ dead => queue = <<>>
  /\ pc = "stage" /\ wave = 1 => queue = <<>>
  /\ pc = "h2d_src" => pSrc = wave
  /\ pc \in {"h2d_src", "h2d_meta"} => pMeta = wave
  /\ \A k \in 1 .. Len(queue) :
       queue[k].op \in {"h2d_src", "h2d_meta"} =>
         \/ pc \in {"h2d_meta", "record", "drain"}
         \/ \E j \in k + 1 .. Len(queue) : queue[j].op = "record"

Gate == GateInv /\ StagingNotOverwritten

(* Nothing is in flight to begin with. *)
LEMMA GateInit == Init => Gate
  BY DEF Init, Gate, GateInv, StagingNotOverwritten

(* What submitting one operation does to the stream. *)
LEMMA EnqueueSeen ==
  ASSUME Typed, NEW op \in Ops, Enqueue(op), wave \in 1 .. plan.waves
  PROVE  \/ dead /\ queue' = queue
         \/ /\ ~dead /\ Len(queue') = Len(queue) + 1 /\ Len(queue) \in Nat
            /\ \A k \in 1 .. Len(queue) : queue'[k] = queue[k]
            /\ queue'[Len(queue) + 1] = [op |-> op, wave |-> wave]
  <1> DEFINE o == [op |-> op, wave |-> wave]
             Op == [op : Ops, wave : Nat]
  <1>1. o \in Op /\ queue \in Seq(Op)
    BY DEF Typed, TypeOK, HostTyped, QueueTyped
  <1>2. queue' = IF dead THEN queue ELSE Append(queue, o)
    BY DEF Enqueue
  <1> HIDE DEF o, Op
  <1>3. ~dead => /\ Len(queue') = Len(queue) + 1 /\ Len(queue) \in Nat
                 /\ \A k \in 1 .. Len(queue) : queue'[k] = queue[k]
                 /\ queue'[Len(queue) + 1] = o
    BY <1>1, <1>2
  <1> QED BY <1>2, <1>3 DEF o

(* What the device running its oldest operation leaves of it. *)
LEMMA TailSeen ==
  ASSUME Typed, queue # <<>>, queue' = Tail(queue)
  PROVE  /\ Len(queue) \in Nat /\ Len(queue') = Len(queue) - 1
         /\ \A k \in 1 .. Len(queue') : queue'[k] = queue[k + 1]
  <1> DEFINE Op == [op : Ops, wave : Nat]
  <1>1. queue \in Seq(Op)
    BY DEF Typed, TypeOK, QueueTyped
  <1> HIDE DEF Op
  <1> QED BY <1>1

(* Every step keeps the gate's invariant. *)
LEMMA GateStep == Typed /\ Gate /\ [Next]_vars => Gate'
  <1> SUFFICES ASSUME Typed, Gate, [Next]_vars PROVE Gate'
    OBVIOUS
  <1> USE DEF Gate, GateInv, StagingNotOverwritten,
              hostVars, ctxVars, outVars, pinVars, devVars
  <1>1. CASE CreateOk
    BY <1>1 DEF CreateOk
  <1>2. CASE CreateFails
    BY <1>2 DEF CreateFails
  <1>3. CASE RefuseArguments
    BY <1>3 DEF RefuseArguments
  <1>4. CASE CallerError
    BY <1>4 DEF CallerError
  <1>5. ASSUME NEW p \in Plans, Decode(p) PROVE Gate'
    BY <1>5 DEF Decode, BeginDecode, Typed, NothingOutlivesCall
  <1>6. ASSUME NEW p \in Plans, DecodePoisoned(p) PROVE Gate'
    BY <1>6 DEF DecodePoisoned
  <1>7. ASSUME NEW p \in Plans, OneShotOk(p) PROVE Gate'
    BY <1>7 DEF OneShotOk, BeginDecode, Typed, NothingOutlivesCall
  <1>8. ASSUME NEW p \in Plans, OneShotCreateFails(p) PROVE Gate'
    BY <1>8 DEF OneShotCreateFails
  <1>9. CASE Destroy
    BY <1>9 DEF Destroy
  <1>10. CASE GrowOk
    BY <1>10 DEF GrowOk, Typed, NothingOutlivesCall
  <1>11. ASSUME NEW k \in 1 .. 7, GrowFails(k) PROVE Gate'
    BY <1>11 DEF GrowFails, Returned, Typed, NothingOutlivesCall
  <1>12. CASE Stage
    <2>1. \A k \in 1 .. Len(queue) : queue[k].op \notin {"h2d_src", "h2d_meta"}
      BY <1>12 DEF Stage, GateOpen, Typed, TypeOK, QueueTyped
    <2> QED BY <1>12, <2>1 DEF Stage, GateOpen
  <1>13. CASE GateFaults
    BY <1>13 DEF GateFaults, FailWave
  <1>14. CASE SubmitSrc
    <2>1. wave \in 1 .. plan.waves
      BY <1>14 DEF SubmitSrc, Submit, Typed, TypeOK, HostTyped
    <2>2. CASE Enqueue("h2d_src") /\ pc' = "h2d_meta"
      BY <1>14, <2>1, <2>2, EnqueueSeen DEF SubmitSrc, Submit, Ops
    <2>3. CASE FailWave("cuda") /\ UNCHANGED queue
      BY <1>14, <2>3 DEF SubmitSrc, Submit, FailWave
    <2> QED BY <1>14, <2>2, <2>3 DEF SubmitSrc, Submit
  <1>15. CASE SubmitMeta
    <2>1. wave \in 1 .. plan.waves
      BY <1>15 DEF SubmitMeta, Submit, Typed, TypeOK, HostTyped
    <2>2. CASE Enqueue("h2d_meta") /\ pc' = "record"
      BY <1>15, <2>1, <2>2, EnqueueSeen DEF SubmitMeta, Submit, Ops
    <2>3. CASE FailWave("cuda") /\ UNCHANGED queue
      BY <1>15, <2>3 DEF SubmitMeta, Submit, FailWave
    <2> QED BY <1>15, <2>2, <2>3 DEF SubmitMeta, Submit
  <1>16. CASE RecordReuse
    <2>1. wave \in 1 .. plan.waves
      BY <1>16 DEF RecordReuse, Submit, Typed, TypeOK, HostTyped
    <2>2. CASE Enqueue("record") /\ pc' = "launch"
      BY <1>16, <2>1, <2>2, EnqueueSeen DEF RecordReuse, Submit, Ops
    <2>3. CASE FailWave("cuda") /\ UNCHANGED queue
      BY <1>16, <2>3 DEF RecordReuse, Submit, FailWave
    <2> QED BY <1>16, <2>2, <2>3 DEF RecordReuse, Submit
  <1>17. CASE LaunchOk
    <2>1. wave \in 1 .. plan.waves /\ Enqueue("kernel")
      BY <1>17 DEF LaunchOk, Typed, TypeOK, HostTyped
    <2> QED BY <1>17, <2>1, EnqueueSeen DEF LaunchOk, Ops
  <1>18. CASE LaunchRefused
    BY <1>18 DEF LaunchRefused, FailWave
  <1>19. CASE Readback
    <2>1. wave \in 1 .. plan.waves
      BY <1>19 DEF Readback, Typed, TypeOK, HostTyped
    <2>2. CASE Enqueue("d2h_results") 
            /\ IF plan.hostOut THEN pc' = "sync_wave" /\ wave' = wave
               ELSE NextWave
      <3>1. /\ pc = "readback" /\ UNCHANGED <<pSrc, pMeta, dead>> /\ ~(dead /\ queue # <<>>)
            /\ pc' \in {"sync_wave", "stage", "drain"} /\ (pc' = "stage" => wave' > 1)
        BY <1>19, <2>1, <2>2, PlanIsPlan DEF Readback, NextWave, IsPlan, Typed, TypeOK, HostTyped
      <3>2. CASE dead /\ queue' = queue
        BY <3>1, <3>2
      <3>3. CASE /\ ~dead /\ Len(queue') = Len(queue) + 1 /\ Len(queue) \in Nat
                 /\ \A k \in 1 .. Len(queue) : queue'[k] = queue[k]
                 /\ queue'[Len(queue) + 1] = [op |-> "d2h_results", wave |-> wave]
        BY <3>1, <3>3
      <3> QED BY <2>1, <2>2, <3>2, <3>3, EnqueueSeen DEF Ops
    <2>3. CASE FailWave("cuda") /\ UNCHANGED queue
      BY <1>19, <2>3 DEF Readback, FailWave
    <2> QED BY <1>19, <2>2, <2>3 DEF Readback
  <1>20. CASE SyncWave
    BY <1>20 DEF SyncWave, FailWave
  <1>21. CASE CopyOut
    BY <1>21 DEF CopyOut, NextWave, Typed, TypeOK, HostTyped
  <1>22. ASSUME NEW s \in Chunks, CopyOutWild(s) PROVE Gate'
    BY <1>22 DEF CopyOutWild, FailWave
  <1>23. ASSUME NEW s \in Chunks, CopyOutFails(s) PROVE Gate'
    BY <1>23 DEF CopyOutFails, FailWave
  <1>24. CASE Drain
    BY <1>24 DEF Drain, Returned
  <1>25. CASE DeviceRun
    <2>1. /\ Len(queue) \in Nat /\ Len(queue') = Len(queue) - 1
          /\ \A k \in 1 .. Len(queue') : queue'[k] = queue[k + 1]
      BY <1>25, TailSeen DEF DeviceRun
    <2> QED BY <1>25, <2>1 DEF DeviceRun
  <1>26. CASE DeviceFault
    BY <1>26 DEF DeviceFault
  <1>27. CASE UNCHANGED vars
    BY <1>27 DEF vars
  <1> QED
    BY <1>1, <1>2, <1>3, <1>4, <1>5, <1>6, <1>7, <1>8, <1>9, <1>10, <1>11, <1>12, <1>13, <1>14, <1>15, <1>16, <1>17, <1>18, <1>19, <1>20, <1>21, <1>22, <1>23, <1>24, <1>25, <1>26, <1>27 DEF Next, Caller, Host, Device

(* For every plan: no staged byte is overwritten while a copy still reads it.*)
THEOREM StagingNotOverwrittenHolds == Spec => []StagingNotOverwritten
  <1>1. Gate => StagingNotOverwritten
    BY DEF Gate
  <1> QED BY <1>1, TypedInit, TypedStep, GateInit, GateStep, PTL DEF Spec

-----------------------------------------------------------------------------
(* Allocation.  From the first wave on every buffer holds what the call     *)
(* needs, because all of them grew before it and none shrinks.              *)
CapInv ==
  pc \notin {"idle", "grow", "destroy"} => \A b \in Buffers : Need(plan, b) <= cap[b]

(* No call is open to begin with. *)
LEMMA CapInit == Init => CapInv
  BY DEF Init, CapInv

(* Every step keeps what the call needs allocated. *)
LEMMA CapStep == Typed /\ CapInv /\ [Next]_vars => CapInv'
  <1> SUFFICES ASSUME Typed, CapInv, [Next]_vars PROVE CapInv'
    OBVIOUS
  <1> USE DEF CapInv, hostVars, ctxVars, outVars, pinVars, devVars
  <1>1. CASE CreateOk
    BY <1>1 DEF CreateOk
  <1>2. CASE CreateFails
    BY <1>2 DEF CreateFails
  <1>3. CASE RefuseArguments
    BY <1>3 DEF RefuseArguments
  <1>4. CASE CallerError
    BY <1>4 DEF CallerError
  <1>5. ASSUME NEW p \in Plans, Decode(p) PROVE CapInv'
    BY <1>5 DEF Decode, BeginDecode
  <1>6. ASSUME NEW p \in Plans, DecodePoisoned(p) PROVE CapInv'
    BY <1>6 DEF DecodePoisoned
  <1>7. ASSUME NEW p \in Plans, OneShotOk(p) PROVE CapInv'
    BY <1>7 DEF OneShotOk, BeginDecode
  <1>8. ASSUME NEW p \in Plans, OneShotCreateFails(p) PROVE CapInv'
    BY <1>8 DEF OneShotCreateFails
  <1>9. CASE Destroy
    BY <1>9 DEF Destroy
  <1>10. CASE GrowOk
    <2>1. plan' = plan /\ plan \in Plans /\ cap' = [b \in Buffers |-> Grown(plan, b)]
      BY <1>10 DEF GrowOk, Typed, TypeOK, HostTyped
    <2>2. \A b \in Buffers : Need(plan, b) <= Grown(plan, b)
      BY <2>1, GrownTyped DEF Typed
    <2> QED BY <2>1, <2>2 DEF Need
  <1>11. ASSUME NEW k \in 1 .. 7, GrowFails(k) PROVE CapInv'
    BY <1>11 DEF GrowFails, Returned
  <1>12. CASE Stage
    BY <1>12 DEF Stage, Need
  <1>13. CASE GateFaults
    BY <1>13 DEF GateFaults, Need
  <1>14. CASE SubmitSrc
    BY <1>14 DEF SubmitSrc, Submit, Need
  <1>15. CASE SubmitMeta
    BY <1>15 DEF SubmitMeta, Submit, Need
  <1>16. CASE RecordReuse
    BY <1>16 DEF RecordReuse, Submit, Need
  <1>17. CASE LaunchOk
    BY <1>17 DEF LaunchOk, Need
  <1>18. CASE LaunchRefused
    BY <1>18 DEF LaunchRefused, Need
  <1>19. CASE Readback
    BY <1>19 DEF Readback, Need
  <1>20. CASE SyncWave
    BY <1>20 DEF SyncWave, Need
  <1>21. CASE CopyOut
    BY <1>21 DEF CopyOut, Need
  <1>22. ASSUME NEW s \in Chunks, CopyOutWild(s) PROVE CapInv'
    BY <1>22 DEF CopyOutWild, Need
  <1>23. ASSUME NEW s \in Chunks, CopyOutFails(s) PROVE CapInv'
    BY <1>23 DEF CopyOutFails, Need
  <1>24. CASE Drain
    BY <1>24 DEF Drain, Returned
  <1>25. CASE DeviceRun
    BY <1>25 DEF DeviceRun, Need
  <1>26. CASE DeviceFault
    BY <1>26 DEF DeviceFault, Need
  <1>27. CASE UNCHANGED vars
    BY <1>27 DEF vars, Need
  <1> QED
    BY <1>1, <1>2, <1>3, <1>4, <1>5, <1>6, <1>7, <1>8, <1>9, <1>10, <1>11, <1>12, <1>13, <1>14, <1>15, <1>16, <1>17, <1>18, <1>19, <1>20, <1>21, <1>22, <1>23, <1>24, <1>25, <1>26, <1>27 DEF Next, Caller, Host, Device

(* What an operation in flight touches, the call needed.                    *)
LEMMA CapBounds == Typed /\ CapInv => InFlightInBounds
  <1> SUFFICES ASSUME Typed, CapInv, NEW k \in 1 .. Len(queue),
                      NEW t \in Touches(queue[k])
               PROVE  t[2] <= cap[t[1]]
    BY DEF InFlightInBounds
  <1> DEFINE o == queue[k]
             Meta == 4 * plan.waveChunks
  <1>1. queue # <<>> /\ o.wave \in 1 .. plan.waves /\ o.op \in Ops
    <2> DEFINE Op == [op : Ops, wave : Nat]
    <2>1. queue \in Seq(Op) /\ o.wave \in 1 .. plan.waves
      BY DEF Typed, TypeOK, QueueTyped
    <2> HIDE DEF Op
    <2>2. o \in Op /\ queue # <<>>
      BY <2>1
    <2> QED BY <2>1, <2>2 DEF Op
  <1>2. pc \notin {"idle", "grow", "destroy"}
    BY <1>1 DEF Typed, NothingOutlivesCall
  <1>3. IsPlan(plan)
    BY PlanIsPlan DEF Typed, TypeOK, HostTyped
  <1>4. \A b \in Buffers : Need(plan, b) <= cap[b]
    BY <1>2 DEF CapInv
  <1>5. /\ plan.maxSrc <= cap["p_src"] /\ plan.maxSrc <= cap["d_src"]
        /\ Meta <= cap["p_meta"] /\ Meta <= cap["d_meta"]
        /\ (plan.hostOut => plan.maxDst <= cap["d_dst"]) /\ (~plan.hostOut => 0 <= cap["d_dst"])
        /\ plan.n <= cap["d_results"] /\ plan.n <= cap["p_results"]
    BY <1>4, BufferNames DEF Need
  <1>6. /\ plan.srcBytes[o.wave] <= plan.maxSrc /\ plan.srcBytes[o.wave] \in Nat
        /\ plan.dstBytes[o.wave] <= plan.maxDst /\ plan.dstBytes[o.wave] \in Nat
        /\ plan.maxSrc \in Nat /\ plan.maxDst \in Nat /\ plan.waveChunks \in Nat
    BY <1>1, <1>3 DEF IsPlan
  <1>7. plan.begin[o.wave + 1] \in 0 .. plan.n /\ plan.n \in Nat
    <2>1. plan.waves \in Nat /\ plan.n \in Nat
      BY <1>3, StreamAssumption DEF IsPlan
    <2>2. o.wave + 1 \in 1 .. plan.waves + 1
      BY <1>1, <2>1
    <2> QED BY <1>3, <2>1, <2>2 DEF IsPlan
  <1>8. /\ cap["p_src"] \in Nat /\ cap["d_src"] \in Nat /\ cap["p_meta"] \in Nat
        /\ cap["d_meta"] \in Nat /\ cap["d_dst"] \in Nat
        /\ cap["d_results"] \in Nat /\ cap["p_results"] \in Nat
    BY BufferNames DEF Typed, TypeOK, CtxTyped
  <1> HIDE DEF o, Meta
  <1>9. t \in Touches(o)
    BY DEF o
  <1>10. CASE o.op \in {"h2d_src", "h2d_meta", "record"}
    <2>1. \/ t[1] \in {"p_src", "d_src"} /\ t[2] = plan.srcBytes[o.wave]
          \/ t[1] \in {"p_meta", "d_meta"} /\ t[2] = Meta
      BY <1>9, <1>10 DEF Touches, Meta
    <2>2. CASE t[1] \in {"p_src", "d_src"} /\ t[2] = plan.srcBytes[o.wave]
      BY SMTT(20), <1>5, <1>6, <1>8, <2>2
    <2>3. CASE t[1] \in {"p_meta", "d_meta"} /\ t[2] = Meta
      BY <1>5, <2>3
    <2> QED BY <2>1, <2>2, <2>3
  <1>11. CASE o.op = "kernel"
    <2>1. \/ t[1] = "d_src" /\ t[2] = plan.srcBytes[o.wave]
          \/ t[1] = "d_meta" /\ t[2] = Meta
          \/ t[1] = "d_dst" /\ t[2] = IF plan.hostOut THEN plan.dstBytes[o.wave] ELSE 0
          \/ t[1] = "d_results" /\ t[2] = plan.begin[o.wave + 1]
      BY <1>9, <1>11 DEF Touches, Meta
    <2>2. CASE t[1] = "d_src" /\ t[2] = plan.srcBytes[o.wave]
      BY SMTT(20), <1>5, <1>6, <1>8, <2>2
    <2>3. CASE t[1] = "d_meta" /\ t[2] = Meta
      BY <1>5, <2>3
    <2>4. CASE t[1] = "d_dst" /\ t[2] = IF plan.hostOut THEN plan.dstBytes[o.wave] ELSE 0
      BY SMTT(20), <1>5, <1>6, <1>8, <2>4
    <2>5. CASE t[1] = "d_results" /\ t[2] = plan.begin[o.wave + 1]
      BY <1>5, <1>7, <1>8, <2>5
    <2> QED BY <2>1, <2>2, <2>3, <2>4, <2>5
  <1>12. CASE o.op = "d2h_results"
    <2>1. t[1] \in {"d_results", "p_results"} /\ t[2] = plan.begin[o.wave + 1]
      BY <1>9, <1>12 DEF Touches
    <2> QED BY <1>5, <1>7, <1>8, <2>1
  <1> QED BY <1>1, <1>10, <1>11, <1>12 DEF Ops

(* No copy, kernel or readback in flight leaves an allocation, whatever the *)
(* sizes of this call and of the calls the staging grew for before.         *)
THEOREM InFlightInBoundsHolds == Spec => []InFlightInBounds
  BY TypedInit, TypedStep, CapInit, CapStep, CapBounds, PTL DEF Spec

-----------------------------------------------------------------------------
(* The pipeline.  Waves stand in the queue in the order they were submitted,*)
(* each ending with its readback, and the device's staging never holds a    *)
(* wave younger than what is still in flight.                               *)
Submitting == {"grow", "stage", "h2d_src", "h2d_meta", "record", "launch", "readback"}

OrderInv ==
  /\ pc \in {"sync_wave", "copy_out"} => plan.hostOut
  /\ pc = "copy_out" => queue = <<>> /\ ~dead
  /\ pc \notin {"idle", "destroy"} =>
       /\ dSrc <= wave /\ dMeta <= wave /\ dDst <= wave
       /\ \A k \in 1 .. Len(queue) : queue[k].wave <= wave
  /\ \A k \in 1 .. Len(queue) :
       dSrc <= queue[k].wave /\ dMeta <= queue[k].wave /\ dDst <= queue[k].wave
  /\ \A j, k \in 1 .. Len(queue) : j < k =>
       /\ queue[j].wave <= queue[k].wave
       /\ queue[j].op = "d2h_results" => queue[j].wave < queue[k].wave
  /\ pc \in Submitting =>
       \A k \in 1 .. Len(queue) : queue[k].op = "d2h_results" => queue[k].wave < wave

(* Nothing has been submitted to begin with. *)
LEMMA OrderInit == Init => OrderInv
  BY DEF Init, OrderInv, Submitting

(* The oldest operation is the first of the queue. *)
LEMMA HeadSeen ==
  ASSUME Typed, queue # <<>>
  PROVE  /\ Head(queue) = queue[1] /\ 1 \in 1 .. Len(queue)
         /\ queue[1].op \in Ops /\ queue[1].wave \in 1 .. plan.waves
         /\ queue[1].wave \in Nat /\ plan.waves \in Nat
  <1>1. Head(queue) = queue[1] /\ 1 \in 1 .. Len(queue)
    BY DEF Typed, TypeOK, QueueTyped
  <1>2. plan.waves \in Nat
    BY PlanIsPlan DEF Typed, TypeOK, HostTyped, IsPlan
  <1> QED BY <1>1, <1>2, HeadTyped DEF Typed, TypeOK

(* The waves in flight and the host's own are numbers. *)
LEMMA WavesTyped ==
  ASSUME Typed
  PROVE  /\ Len(queue) \in Nat /\ wave \in Nat /\ plan.waves \in Nat
         /\ \A k \in 1 .. Len(queue) : queue[k].wave \in Nat /\ queue[k].wave \in 1 .. plan.waves
         /\ dSrc \in Nat /\ dMeta \in Nat /\ dDst \in Nat
  <1>1. plan.waves \in Nat
    BY PlanIsPlan DEF Typed, TypeOK, HostTyped, IsPlan
  <1> QED BY <1>1 DEF Typed, TypeOK, HostTyped, QueueTyped, StagingTyped

(* Submitting an operation of the host's wave keeps the order. *)
LEMMA OrderEnqueue ==
  ASSUME Typed, GateInv, OrderInv, NEW op \in Ops, Enqueue(op),
         pc \in Submitting \ {"grow"}, UNCHANGED <<devVars, plan, dead>>,
         pc' \in Submitting \cup {"sync_wave", "drain"},
         pc' = "sync_wave" => plan.hostOut,
         wave' \in Nat, wave' >= wave, op = "d2h_results" => pc' \notin Submitting \/ wave' > wave
  PROVE  OrderInv'
  <1>1. wave \in 1 .. plan.waves
    BY DEF Typed, TypeOK, HostTyped, Submitting
  <1>2. CASE dead /\ queue' = queue
    BY <1>2, WavesTyped DEF OrderInv, devVars, Submitting, GateInv
  <1>3. CASE /\ ~dead /\ Len(queue') = Len(queue) + 1 /\ Len(queue) \in Nat
             /\ \A k \in 1 .. Len(queue) : queue'[k] = queue[k]
             /\ queue'[Len(queue) + 1] = [op |-> op, wave |-> wave]
    <2> DEFINE n == Len(queue)
    <2>1. /\ n \in Nat /\ Len(queue') = n + 1 /\ wave \in Nat /\ dSrc \in Nat /\ dMeta \in Nat
          /\ dDst \in Nat /\ \A k \in 1 .. n : queue'[k] = queue[k] /\ queue[k].wave \in Nat
          /\ queue'[n + 1].op = op /\ queue'[n + 1].wave = wave
      BY <1>3, WavesTyped
    <2>2. /\ dSrc <= wave /\ dMeta <= wave /\ dDst <= wave
          /\ \A k \in 1 .. n : queue[k].wave <= wave
          /\ \A k \in 1 .. n : queue[k].op = "d2h_results" => queue[k].wave < wave
      BY DEF OrderInv, Submitting
    <2>3. \A k \in 1 .. n : dSrc <= queue[k].wave /\ dMeta <= queue[k].wave /\ dDst <= queue[k].wave
      BY DEF OrderInv
    <2>4. \A j, k \in 1 .. n : j < k =>
            /\ queue[j].wave <= queue[k].wave
            /\ queue[j].op = "d2h_results" => queue[j].wave < queue[k].wave
      BY DEF OrderInv
    <2> HIDE DEF n
    <2>5. \A k \in 1 .. n + 1 : k \in 1 .. n \/ k = n + 1
      BY <2>1
    <2>6. \A k \in 1 .. n + 1 : /\ queue'[k].wave <= wave
                                /\ dSrc <= queue'[k].wave /\ dMeta <= queue'[k].wave
                                /\ dDst <= queue'[k].wave
      BY <2>1, <2>2, <2>3, <2>5
    <2>7. \A j, k \in 1 .. n + 1 : j < k =>
            /\ queue'[j].wave <= queue'[k].wave
            /\ queue'[j].op = "d2h_results" => queue'[j].wave < queue'[k].wave
      <3> SUFFICES ASSUME NEW j \in 1 .. n + 1, NEW k \in 1 .. n + 1, j < k
                   PROVE  /\ queue'[j].wave <= queue'[k].wave
                          /\ queue'[j].op = "d2h_results" => queue'[j].wave < queue'[k].wave
        OBVIOUS
      <3>1. j \in 1 .. n BY <2>1
      <3>2. CASE k \in 1 .. n BY <2>1, <2>4, <3>1, <3>2
      <3>3. CASE k = n + 1 BY <2>1, <2>2, <3>1, <3>3
      <3> QED BY <2>5, <3>2, <3>3
    <2>8. pc' \in Submitting =>
            \A k \in 1 .. n + 1 : queue'[k].op = "d2h_results" => queue'[k].wave < wave'
      BY <2>1, <2>2, <2>5
    <2>9. /\ pc' \in {"sync_wave", "copy_out"} => plan'.hostOut
          /\ pc' # "copy_out" /\ UNCHANGED <<dSrc, dMeta, dDst>>
      BY DEF Submitting, devVars
    <2>10. /\ dSrc' <= wave' /\ dMeta' <= wave' /\ dDst' <= wave'
           /\ \A k \in 1 .. n + 1 : queue'[k].wave <= wave'
      <3>1. \A k \in 1 .. n + 1 : queue'[k].wave \in Nat BY <2>1, <2>5
      <3> QED BY <2>1, <2>2, <2>6, <2>9, <3>1
    <2> QED BY <2>1, <2>6, <2>7, <2>8, <2>9, <2>10 DEF OrderInv
  <1> QED BY <1>1, <1>2, <1>3, EnqueueSeen

(* Every step keeps the order. *)
LEMMA OrderStep == Typed /\ Gate /\ OrderInv /\ [Next]_vars => OrderInv'
  <1> SUFFICES ASSUME Typed, Gate, OrderInv, [Next]_vars PROVE OrderInv'
    OBVIOUS
  <1> USE DEF hostVars, ctxVars, outVars, pinVars, devVars
  <1>0. pc \in {"idle", "grow", "destroy"} => queue = <<>>
    BY DEF Typed, NothingOutlivesCall
  <1>1. CASE CreateOk \/ CreateFails \/ RefuseArguments \/ CallerError
    BY <1>0, <1>1 DEF CreateOk, CreateFails, RefuseArguments, CallerError, OrderInv, Submitting
  <1>2. ASSUME NEW p \in Plans, Decode(p) \/ OneShotOk(p) PROVE OrderInv'
    BY <1>0, <1>2 DEF Decode, OneShotOk, BeginDecode, OrderInv, Submitting
  <1>3. ASSUME NEW p \in Plans, DecodePoisoned(p) \/ OneShotCreateFails(p) PROVE OrderInv'
    BY <1>0, <1>3 DEF DecodePoisoned, OneShotCreateFails, OrderInv, Submitting
  <1>4. CASE Destroy
    BY <1>0, <1>4 DEF Destroy, OrderInv, Submitting
  <1>5. CASE GrowOk
    BY <1>0, <1>5 DEF GrowOk, OrderInv, Submitting
  <1>6. ASSUME NEW k \in 1 .. 7, GrowFails(k) PROVE OrderInv'
    BY <1>0, <1>6 DEF GrowFails, Returned, OrderInv, Submitting
  <1>7. CASE Stage \/ GateFaults
    BY <1>7 DEF Stage, GateFaults, FailWave, OrderInv, Submitting
  <1>8. ASSUME NEW at, NEW op, NEW next, Submit(at, op, next), op \in Ops \ {"d2h_results"},
               at \in Submitting \ {"grow"}, next \in Submitting
        PROVE  OrderInv'
    <2>1. CASE Enqueue(op) /\ pc' = next
      <3>1. /\ pc \in Submitting \ {"grow"} /\ UNCHANGED <<devVars, plan, dead, wave>>
            /\ pc' \in Submitting /\ op \in Ops /\ op # "d2h_results"
        BY <1>8, <2>1 DEF Submit
      <3>2. wave' \in Nat /\ wave' >= wave
        BY <3>1, WavesTyped
      <3> QED BY <2>1, <3>1, <3>2, OrderEnqueue DEF Gate, Submitting
    <2>2. CASE FailWave("cuda") /\ UNCHANGED queue
      BY <1>8, <2>2 DEF Submit, FailWave, OrderInv, Submitting
    <2> QED BY <1>8, <2>1, <2>2 DEF Submit
  <1>9. CASE SubmitSrc \/ SubmitMeta \/ RecordReuse
    BY <1>8, <1>9 DEF SubmitSrc, SubmitMeta, RecordReuse, Submitting, Ops
  <1>10. CASE LaunchOk
    BY <1>10, OrderEnqueue, WavesTyped DEF LaunchOk, Submitting, Ops, Gate
  <1>11. CASE LaunchRefused
    BY <1>11 DEF LaunchRefused, FailWave, OrderInv, Submitting
  <1>12. CASE Readback
    <2>1. CASE /\ Enqueue("d2h_results")
               /\ IF plan.hostOut THEN pc' = "sync_wave" /\ wave' = wave ELSE NextWave
      BY <1>12, <2>1, OrderEnqueue, WavesTyped DEF Readback, NextWave, Submitting, Ops, Gate
    <2>2. CASE FailWave("cuda") /\ UNCHANGED <<wave, queue>>
      BY <1>12, <2>2 DEF Readback, FailWave, OrderInv, Submitting
    <2> QED BY <1>12, <2>1, <2>2 DEF Readback
  <1>13. CASE SyncWave
    BY <1>13 DEF SyncWave, FailWave, OrderInv, Submitting
  <1>14. CASE CopyOut
    BY <1>14, WavesTyped DEF CopyOut, NextWave, OrderInv, Submitting
  <1>15. ASSUME NEW s \in Chunks, CopyOutWild(s) \/ CopyOutFails(s) PROVE OrderInv'
    BY <1>15 DEF CopyOutWild, CopyOutFails, FailWave, OrderInv, Submitting
  <1>16. CASE Drain
    BY <1>16 DEF Drain, Returned, OrderInv, Submitting
  <1>17. CASE DeviceRun
    <2>1. /\ Len(queue) \in Nat /\ Len(queue') = Len(queue) - 1
          /\ \A k \in 1 .. Len(queue') : queue'[k] = queue[k + 1]
      BY <1>17, TailSeen DEF DeviceRun
    <2>2. /\ Runs(queue[1]) /\ 1 \in 1 .. Len(queue) /\ queue[1].op \in Ops
          /\ queue # <<>> /\ UNCHANGED <<pc, plan, wave, dead>>
      BY <1>17, HeadSeen DEF DeviceRun
    <2>3. /\ dSrc' \in {dSrc, queue[1].wave} /\ dMeta' \in {dMeta, queue[1].wave}
          /\ dDst' \in {dDst, queue[1].wave, 0}
      <3>1. CASE queue[1].op = "h2d_src"
        BY <2>2, <3>1 DEF Runs, Gate, StagingNotOverwritten
      <3>2. CASE queue[1].op = "h2d_meta"
        BY <2>2, <3>2 DEF Runs, Gate, StagingNotOverwritten
      <3>3. CASE queue[1].op = "record"
        BY <2>2, <3>3 DEF Runs
      <3>4. CASE queue[1].op = "kernel"
        BY <2>2, <3>4 DEF Runs
      <3>5. CASE queue[1].op = "d2h_results"
        BY <2>2, <3>5 DEF Runs
      <3> QED BY <2>2, <3>1, <3>2, <3>3, <3>4, <3>5 DEF Ops
    <2> DEFINE v == queue[1].wave
    <2>4. /\ v \in Nat /\ (v <= wave \/ pc \in {"idle", "destroy"})
          /\ \A k \in 1 .. Len(queue) : v <= queue[k].wave
      <3>1. \A k \in 1 .. Len(queue) : 1 < k => v <= queue[k].wave
        BY <2>2 DEF OrderInv
      <3>2. \A k \in 1 .. Len(queue) : k = 1 \/ 1 < k
        BY WavesTyped
      <3>3. v \in Nat /\ v <= v
        BY <2>2, WavesTyped
      <3> QED BY <2>2, <3>1, <3>2, <3>3 DEF OrderInv
    <2>5. pc # "copy_out" BY <2>2 DEF OrderInv
    <2> HIDE DEF v
    <2>6. /\ dSrc' \in {dSrc, v} /\ dMeta' \in {dMeta, v} /\ dDst' \in {dDst, v, 0}
      BY <2>3 DEF v
    <2>7. pc' \notin {"idle", "destroy"} =>
            /\ dSrc' <= wave' /\ dMeta' <= wave' /\ dDst' <= wave'
            /\ \A k \in 1 .. Len(queue') : queue'[k].wave <= wave'
      <3> SUFFICES ASSUME pc \notin {"idle", "destroy"}
                   PROVE  /\ dSrc' <= wave /\ dMeta' <= wave /\ dDst' <= wave
                          /\ \A k \in 1 .. Len(queue') : queue'[k].wave <= wave
        BY <2>2
      <3>1. /\ dSrc <= wave /\ dMeta <= wave /\ dDst <= wave /\ v <= wave /\ 0 <= wave
            /\ \A k \in 1 .. Len(queue) : queue[k].wave <= wave
        BY <2>4, WavesTyped DEF OrderInv
      <3>2. \A k \in 1 .. Len(queue') : k + 1 \in 1 .. Len(queue)
        BY <2>1
      <3> QED BY <2>1, <2>6, <3>1, <3>2
    <2>8. \A k \in 1 .. Len(queue') :
            dSrc' <= queue'[k].wave /\ dMeta' <= queue'[k].wave /\ dDst' <= queue'[k].wave
      BY <2>1, <2>2, <2>4, <2>6, WavesTyped DEF OrderInv
    <2>9. \A j, k \in 1 .. Len(queue') : j < k =>
            /\ queue'[j].wave <= queue'[k].wave
            /\ queue'[j].op = "d2h_results" => queue'[j].wave < queue'[k].wave
      <3> SUFFICES ASSUME NEW j \in 1 .. Len(queue'), NEW k \in 1 .. Len(queue'), j < k
                   PROVE  /\ queue'[j].wave <= queue'[k].wave
                          /\ queue'[j].op = "d2h_results" => queue'[j].wave < queue'[k].wave
        OBVIOUS
      <3>1. /\ j + 1 \in 1 .. Len(queue) /\ k + 1 \in 1 .. Len(queue) /\ j + 1 < k + 1
            /\ queue'[j] = queue[j + 1] /\ queue'[k] = queue[k + 1]
        BY <2>1
      <3> QED BY <3>1 DEF OrderInv
    <2>10. pc' \in Submitting =>
             \A k \in 1 .. Len(queue') : queue'[k].op = "d2h_results" => queue'[k].wave < wave'
      BY <2>1, <2>2 DEF OrderInv
    <2>11. /\ pc' \in {"sync_wave", "copy_out"} => plan'.hostOut
           /\ pc' = "copy_out" => queue' = <<>> /\ ~dead'
      BY <2>2, <2>5 DEF OrderInv
    <2> QED BY <2>7, <2>8, <2>9, <2>10, <2>11 DEF OrderInv
  <1>18. CASE DeviceFault
    BY <1>18 DEF DeviceFault, OrderInv, Submitting
  <1>19. CASE UNCHANGED vars
    BY <1>19 DEF vars, OrderInv, Submitting
  <1> QED
    BY <1>1, <1>2, <1>3, <1>4, <1>5, <1>6, <1>7, <1>9, <1>10, <1>11, <1>12, <1>13, <1>14,
       <1>15, <1>16, <1>17, <1>18, <1>19 DEF Next, Caller, Host, Device

(* What an operation reads is on the device, or in flight before it.        *)
At(k, op, w) == queue[k].op = op /\ queue[k].wave = w
SrcBefore(w, n) == dSrc = w \/ \E j \in 1 .. n : At(j, "h2d_src", w)
MetaBefore(w, n) == dMeta = w \/ \E j \in 1 .. n : At(j, "h2d_meta", w)
FedBefore(w, n) == MetaBefore(w, n) /\ (plan.srcBytes[w] # 0 => SrcBefore(w, n))

FeedInv ==
  /\ ~dead =>
       /\ pc \in {"h2d_meta", "record", "launch"} /\ plan.srcBytes[wave] # 0
            => SrcBefore(wave, Len(queue))
       /\ pc \in {"record", "launch"} => MetaBefore(wave, Len(queue))
  /\ \A k \in 1 .. Len(queue) :
       queue[k].op = "kernel" => FedBefore(queue[k].wave, k - 1)

(* Nothing has been submitted to begin with. *)
LEMMA FeedInit == Init => FeedInv
  BY DEF Init, FeedInv

(* What a running operation leaves on the device. *)
LEMMA RunSeen ==
  ASSUME Typed, StagingNotOverwritten, DeviceRun
  PROVE  /\ queue # <<>> /\ 1 \in 1 .. Len(queue) /\ Len(queue) \in Nat
         /\ queue[1].op \in Ops /\ queue[1].wave \in 1 .. plan.waves /\ queue[1].wave \in Nat
         /\ Len(queue') = Len(queue) - 1
         /\ \A k \in 1 .. Len(queue') : queue'[k] = queue[k + 1]
         /\ dSrc' = IF queue[1].op = "h2d_src" THEN queue[1].wave ELSE dSrc
         /\ dMeta' = IF queue[1].op = "h2d_meta" THEN queue[1].wave ELSE dMeta
         /\ queue[1].op # "kernel" => UNCHANGED <<dDst, dst>>
         /\ queue[1].op # "d2h_results" => UNCHANGED pResults
         /\ queue[1].op # "kernel" => UNCHANGED dResults
         /\ Runs(queue[1])
         /\ UNCHANGED <<hostVars, ctxVars, outVars, pSrc, pMeta, dead, lastErr>>
  <1>1. /\ Runs(queue[1]) /\ queue # <<>> /\ queue' = Tail(queue)
        /\ UNCHANGED <<hostVars, ctxVars, outVars, pSrc, pMeta, dead, lastErr>>
    BY HeadSeen DEF DeviceRun
  <1>2. 1 \in 1 .. Len(queue) /\ queue[1].op \in Ops
        /\ queue[1].wave \in 1 .. plan.waves /\ queue[1].wave \in Nat
    BY <1>1, HeadSeen
  <1>3. /\ dSrc' = IF queue[1].op = "h2d_src" THEN queue[1].wave ELSE dSrc
        /\ dMeta' = IF queue[1].op = "h2d_meta" THEN queue[1].wave ELSE dMeta
        /\ queue[1].op # "kernel" => UNCHANGED <<dDst, dst, dResults>>
        /\ queue[1].op # "d2h_results" => UNCHANGED pResults
    <2>1. CASE queue[1].op = "h2d_src"
      BY <1>1, <1>2, <2>1 DEF Runs, StagingNotOverwritten
    <2>2. CASE queue[1].op = "h2d_meta"
      BY <1>1, <1>2, <2>2 DEF Runs, StagingNotOverwritten
    <2>3. CASE queue[1].op = "record"
      BY <1>1, <2>3 DEF Runs, devVars
    <2>4. CASE queue[1].op = "kernel"
      BY <1>1, <2>4 DEF Runs
    <2>5. CASE queue[1].op = "d2h_results"
      BY <1>1, <2>5 DEF Runs, devVars
    <2> QED BY <1>2, <2>1, <2>2, <2>3, <2>4, <2>5 DEF Ops
  <1>4. /\ Len(queue) \in Nat /\ Len(queue') = Len(queue) - 1
        /\ \A k \in 1 .. Len(queue') : queue'[k] = queue[k + 1]
    BY <1>1, TailSeen
  <1> QED BY <1>1, <1>2, <1>3, <1>4

(* Running the oldest operation, what was in flight before the n-th is there or *)
(* still in flight before it.                                               *)
LEMMA FedShift ==
  ASSUME Typed, StagingNotOverwritten, OrderInv, DeviceRun,
         NEW w \in Nat, NEW n \in 1 .. Len(queue),
         \A j \in 1 .. n : queue[j].wave <= w
  PROVE  /\ SrcBefore(w, n) => SrcBefore(w, n - 1)'
         /\ MetaBefore(w, n) => MetaBefore(w, n - 1)'
  <1>1. /\ queue[1].wave \in Nat /\ queue[1].wave <= w /\ n \in Nat /\ Len(queue) \in Nat
        /\ dSrc <= queue[1].wave /\ dMeta <= queue[1].wave
    BY RunSeen DEF OrderInv
  <1>2. \A j \in 2 .. n : j - 1 \in 1 .. n - 1 /\ queue'[j - 1] = queue[j]
    BY <1>1, RunSeen
  <1>3. dSrc \in Nat /\ dMeta \in Nat
    BY WavesTyped
  <1>4. ASSUME SrcBefore(w, n) PROVE SrcBefore(w, n - 1)'
    <2>1. CASE dSrc = w
      BY <1>1, <1>3, <2>1, RunSeen DEF SrcBefore
    <2>2. ASSUME NEW j \in 1 .. n, At(j, "h2d_src", w) PROVE SrcBefore(w, n - 1)'
      <3>1. CASE j = 1
        BY <2>2, <3>1, RunSeen DEF SrcBefore, At
      <3>2. CASE j # 1
        <4>1. j \in 2 .. n /\ j - 1 \in 1 .. n - 1 /\ At(j - 1, "h2d_src", w)'
          BY <1>1, <1>2, <2>2, <3>2 DEF At
        <4> QED BY <4>1 DEF SrcBefore
      <3> QED BY <3>1, <3>2
    <2> QED BY <1>4, <2>1, <2>2 DEF SrcBefore
  <1>5. ASSUME MetaBefore(w, n) PROVE MetaBefore(w, n - 1)'
    <2>1. CASE dMeta = w
      BY <1>1, <1>3, <2>1, RunSeen DEF MetaBefore
    <2>2. ASSUME NEW j \in 1 .. n, At(j, "h2d_meta", w) PROVE MetaBefore(w, n - 1)'
      <3>1. CASE j = 1
        BY <2>2, <3>1, RunSeen DEF MetaBefore, At
      <3>2. CASE j # 1
        <4>1. j \in 2 .. n /\ j - 1 \in 1 .. n - 1 /\ At(j - 1, "h2d_meta", w)'
          BY <1>1, <1>2, <2>2, <3>2 DEF At
        <4> QED BY <4>1 DEF MetaBefore
      <3> QED BY <3>1, <3>2
    <2> QED BY <1>5, <2>1, <2>2 DEF MetaBefore
  <1> QED BY <1>4, <1>5

(* The steps, by what they do to the pipeline.                              *)
Passive ==
  queue = <<>> /\ queue' = <<>> /\ pc' \in {"idle", "grow", "destroy", "stage", "drain"}
Leaving ==
  /\ UNCHANGED <<queue, devVars, plan, wave, dead, dst>>
  /\ pc' = "drain" \/ (pc = "sync_wave" /\ pc' = "copy_out")
Submitted(op) ==
  /\ Enqueue(op) /\ UNCHANGED <<devVars, plan, dead, dst, pResults>>
  /\ \/ pc = "h2d_src" /\ op = "h2d_src" /\ pc' = "h2d_meta" /\ wave' = wave
     \/ pc = "h2d_meta" /\ op = "h2d_meta" /\ pc' = "record" /\ wave' = wave
     \/ pc = "record" /\ op = "record" /\ pc' = "launch" /\ wave' = wave
     \/ pc = "launch" /\ op = "kernel" /\ pc' = "readback" /\ wave' = wave
     \/ /\ pc = "readback" /\ op = "d2h_results"
        /\ IF plan.hostOut THEN pc' = "sync_wave" /\ wave' = wave ELSE NextWave

(* There are no others. *)
LEMMA Sorts ==
  ASSUME Typed, OrderInv, [Next]_vars
  PROVE  \/ Passive \/ Stage \/ Leaving \/ (\E op \in Ops : Submitted(op))
         \/ DeviceRun \/ DeviceFault \/ UNCHANGED vars
  <1> USE DEF hostVars, ctxVars, outVars, pinVars, devVars
  <1>1. pc \in {"idle", "grow", "destroy", "copy_out"} => queue = <<>>
    BY DEF Typed, NothingOutlivesCall, OrderInv
  <1>2. CASE CreateOk \/ CreateFails \/ RefuseArguments \/ CallerError \/ Destroy
    BY <1>1, <1>2 DEF CreateOk, CreateFails, RefuseArguments, CallerError, Destroy, Passive
  <1>3. ASSUME NEW p \in Plans, Decode(p) \/ OneShotOk(p) \/ DecodePoisoned(p) \/ OneShotCreateFails(p)
        PROVE  Passive
    BY <1>1, <1>3 DEF Decode, OneShotOk, BeginDecode, DecodePoisoned, OneShotCreateFails, Passive
  <1>4. ASSUME NEW k \in 1 .. 7, GrowOk \/ GrowFails(k) PROVE Passive
    BY <1>1, <1>4 DEF GrowOk, GrowFails, Returned, Passive
  <1>5. CASE GateFaults \/ LaunchRefused \/ SyncWave
    BY <1>5 DEF GateFaults, LaunchRefused, SyncWave, FailWave, Leaving
  <1>6. ASSUME NEW at, NEW op, NEW next, Submit(at, op, next)
        PROVE  /\ pc = at /\ UNCHANGED <<devVars, plan, dead, dst, pResults, wave>>
               /\ (Enqueue(op) /\ pc' = next) \/ (pc' = "drain" /\ UNCHANGED queue)
    BY <1>6 DEF Submit, FailWave
  <1>7. CASE SubmitSrc
    <2>1. Leaving \/ Submitted("h2d_src")
      BY <1>6, <1>7 DEF SubmitSrc, Leaving, Submitted
    <2> QED BY <2>1 DEF Ops
  <1>8. CASE SubmitMeta
    <2>1. Leaving \/ Submitted("h2d_meta")
      BY <1>6, <1>8 DEF SubmitMeta, Leaving, Submitted
    <2> QED BY <2>1 DEF Ops
  <1>9. CASE RecordReuse
    <2>1. Leaving \/ Submitted("record")
      BY <1>6, <1>9 DEF RecordReuse, Leaving, Submitted
    <2> QED BY <2>1 DEF Ops
  <1>10. CASE LaunchOk
    <2>1. Submitted("kernel")
      BY <1>10 DEF LaunchOk, Submitted
    <2> QED BY <2>1 DEF Ops
  <1>11. CASE Readback
    <2>1. Leaving \/ Submitted("d2h_results")
      BY <1>11 DEF Readback, FailWave, Leaving, Submitted
    <2> QED BY <2>1 DEF Ops
  <1>12. ASSUME NEW s \in Chunks, CopyOut \/ CopyOutWild(s) \/ CopyOutFails(s) PROVE Passive
    BY <1>1, <1>12 DEF CopyOut, NextWave, CopyOutWild, CopyOutFails, FailWave, Passive
  <1>13. 0 \in Chunks
    BY StreamAssumption DEF Chunks
  <1>14. CASE CopyOut
    BY <1>12, <1>13, <1>14
  <1>15. CASE Drain
    BY <1>15 DEF Drain, Returned, Passive
  <1>16. CASE GrowOk
    BY <1>1, <1>16 DEF GrowOk, Passive
  <1> QED
    BY <1>2, <1>3, <1>4, <1>5, <1>7, <1>8, <1>9, <1>10, <1>11, <1>12, <1>14, <1>15, <1>16
    DEF Next, Caller, Host, Device

(* What was in flight stays there when more is submitted behind it.         *)
LEMMA FedKept ==
  ASSUME NEW w, NEW n \in Nat, UNCHANGED <<dSrc, dMeta>>,
         \A k \in 1 .. n : queue'[k] = queue[k]
  PROVE  (SrcBefore(w, n) => SrcBefore(w, n)') /\ (MetaBefore(w, n) => MetaBefore(w, n)')
  <1>1. SrcBefore(w, n) => SrcBefore(w, n)'
    BY DEF SrcBefore, At
  <1>2. MetaBefore(w, n) => MetaBefore(w, n)'
    BY DEF MetaBefore, At
  <1> QED BY <1>1, <1>2

(* The host submits a wave's kernel behind the copies of that wave. *)
LEMMA FeedSubmit ==
  ASSUME Typed, GateInv, FeedInv, NEW op \in Ops, Submitted(op)
  PROVE  FeedInv'
  <1>1. wave \in 1 .. plan.waves /\ Enqueue(op)
    BY DEF Typed, TypeOK, HostTyped, Submitted
  <1>2. CASE dead
    BY <1>1, <1>2, WavesTyped DEF FeedInv, GateInv, Enqueue, Submitted
  <1>3. CASE /\ ~dead /\ Len(queue') = Len(queue) + 1 /\ Len(queue) \in Nat
             /\ \A k \in 1 .. Len(queue) : queue'[k] = queue[k]
             /\ queue'[Len(queue) + 1] = [op |-> op, wave |-> wave]
    <2> PICK n \in Nat : n = Len(queue)
      BY <1>3
    <2> PICK w : w = wave
      OBVIOUS
    <2>1. /\ Len(queue') = n + 1 /\ n + 1 \in Nat /\ ~dead /\ UNCHANGED <<dSrc, dMeta, plan, dead>>
          /\ \A k \in 1 .. n : queue'[k] = queue[k]
          /\ queue'[n + 1].op = op /\ queue'[n + 1].wave = w
      BY <1>3 DEF devVars, Submitted
    <2>2. ASSUME NEW u, NEW m \in 0 .. n
          PROVE  /\ SrcBefore(u, m) => SrcBefore(u, m)'
                 /\ MetaBefore(u, m) => MetaBefore(u, m)'
      <3>1. m \in Nat /\ \A k \in 1 .. m : k \in 1 .. n
        OBVIOUS
      <3> QED BY <2>1, <3>1, FedKept
    <2>3. n \in 0 .. n /\ n + 1 \in 1 .. n + 1 /\ 1 .. n \subseteq 1 .. n + 1
      OBVIOUS
    <2>4. /\ SrcBefore(w, n)' => SrcBefore(w, n + 1)'
          /\ MetaBefore(w, n)' => MetaBefore(w, n + 1)'
      BY <2>3 DEF SrcBefore, MetaBefore
    <2>5. /\ op = "h2d_src" => SrcBefore(w, n + 1)'
          /\ op = "h2d_meta" => MetaBefore(w, n + 1)'
      BY <2>1, <2>3 DEF SrcBefore, MetaBefore, At
    <2>6. pc' \in {"h2d_meta", "record", "launch"} /\ plan.srcBytes[w] # 0 => SrcBefore(w, n + 1)'
      BY <2>1, <2>2, <2>3, <2>4, <2>5 DEF FeedInv, Submitted, NextWave
    <2>7. pc' \in {"record", "launch"} => MetaBefore(w, n + 1)'
      BY <2>1, <2>2, <2>3, <2>4, <2>5 DEF FeedInv, Submitted, NextWave
    <2>8. ASSUME NEW k \in 1 .. n + 1, NEW u, queue'[k].op = "kernel", queue'[k].wave = u
          PROVE  FedBefore(u, k - 1)'
      <3>1. CASE k \in 1 .. n
        <4>1. k - 1 \in 0 .. n /\ FedBefore(u, k - 1)
          BY <2>1, <2>8, <3>1 DEF FeedInv
        <4> QED BY <2>1, <2>2, <4>1 DEF FedBefore
      <3>2. CASE k = n + 1
        <4>1. pc = "launch" /\ u = w /\ k - 1 = n
          BY <2>1, <2>8, <3>2 DEF Submitted
        <4>2. FedBefore(w, n)
          BY <2>1, <4>1 DEF FeedInv, FedBefore
        <4> QED BY <2>1, <2>2, <2>3, <4>1, <4>2 DEF FedBefore
      <3> QED BY <3>1, <3>2
    <2>9. pc' \in {"h2d_meta", "record", "launch"} => wave' = w
      BY DEF Submitted, NextWave
    <2> QED BY <2>1, <2>6, <2>7, <2>8, <2>9 DEF FeedInv
  <1> QED BY <1>1, <1>2, <1>3, EnqueueSeen

(* Every step keeps the feed. *)
LEMMA FeedStep == Typed /\ Gate /\ OrderInv /\ FeedInv /\ [Next]_vars => FeedInv'
  <1> SUFFICES ASSUME Typed, Gate, OrderInv, FeedInv, [Next]_vars PROVE FeedInv'
    OBVIOUS
  <1>1. CASE Passive
    BY <1>1 DEF Passive, FeedInv
  <1>2. CASE Stage
    <2>1. /\ UNCHANGED <<queue, dSrc, dMeta, plan, dead, wave>>
          /\ pc' \in {"h2d_src", "h2d_meta"} /\ (pc' = "h2d_meta" => plan.srcBytes[wave] = 0)
      BY <1>2 DEF Stage, devVars
    <2> QED BY <2>1 DEF FeedInv, FedBefore, SrcBefore, MetaBefore, At
  <1>3. CASE Leaving
    BY <1>3 DEF Leaving, devVars, FeedInv, FedBefore, SrcBefore, MetaBefore, At
  <1>4. ASSUME NEW op \in Ops, Submitted(op) PROVE FeedInv'
    BY <1>4, FeedSubmit DEF Gate
  <1>5. CASE DeviceRun
    <2> PICK n \in Nat : n = Len(queue)
      BY WavesTyped
    <2>1. /\ n >= 1 /\ Len(queue') = n - 1 /\ \A k \in 1 .. n - 1 : queue'[k] = queue[k + 1]
          /\ UNCHANGED <<pc, plan, wave, dead>>
      BY <1>5, RunSeen DEF Gate, hostVars
    <2>2. ASSUME ~dead, NEW w \in Nat, w = wave, pc \in {"h2d_meta", "record", "launch"}
          PROVE  /\ SrcBefore(w, n) => SrcBefore(w, n - 1)'
                 /\ MetaBefore(w, n) => MetaBefore(w, n - 1)'
      <3>1. n \in 1 .. Len(queue) /\ \A j \in 1 .. n : queue[j].wave <= w
        BY <2>1, <2>2 DEF OrderInv
      <3> QED BY <1>5, <3>1, FedShift DEF Gate
    <2>3. ASSUME NEW k \in 1 .. n - 1, NEW u, queue'[k].op = "kernel", queue'[k].wave = u
          PROVE  FedBefore(u, k - 1)'
      <3>1. /\ k + 1 \in 1 .. n /\ queue[k + 1].op = "kernel" /\ queue[k + 1].wave = u
            /\ (k + 1) - 1 = k /\ k \in 1 .. n /\ u \in Nat
        BY <2>1, <2>3, WavesTyped
      <3>2. FedBefore(u, k)
        BY <3>1 DEF FeedInv
      <3>3. \A j \in 1 .. k : queue[j].wave <= u
        BY <3>1 DEF OrderInv
      <3>4. (SrcBefore(u, k) => SrcBefore(u, k - 1)') /\ (MetaBefore(u, k) => MetaBefore(u, k - 1)')
        BY <1>5, <3>1, <3>3, FedShift DEF Gate
      <3> QED BY <2>1, <3>2, <3>4 DEF FedBefore
    <2> PICK w \in Nat : w = wave
      BY WavesTyped
    <2>4. ~dead =>
            /\ pc \in {"h2d_meta", "record", "launch"} /\ plan.srcBytes[w] # 0 => SrcBefore(w, n - 1)'
            /\ pc \in {"record", "launch"} => MetaBefore(w, n - 1)'
      BY <2>2 DEF FeedInv
    <2> QED BY <2>1, <2>3, <2>4 DEF FeedInv
  <1>6. CASE DeviceFault
    BY <1>6 DEF DeviceFault, FeedInv
  <1>7. CASE UNCHANGED vars
    BY <1>7 DEF vars, hostVars, devVars, FeedInv, FedBefore, SrcBefore, MetaBefore, At
  <1> QED BY <1>1, <1>2, <1>3, <1>4, <1>5, <1>6, <1>7, Sorts

-----------------------------------------------------------------------------
(* The kernel's answers to a wave, once it has run, and its bytes.          *)
Answered(w) ==
  \A i \in ChunksOfWave(w) :
    /\ dResults[i] = plan.verdict[i]
    /\ ~plan.hostOut /\ plan.verdict[i] = "ok" => dst[i] = "out"
AnsweredBefore(w, n) == Answered(w) \/ \E j \in 1 .. n : At(j, "kernel", w)
OutBefore(w, n) == dDst = w \/ \E j \in 1 .. n : At(j, "kernel", w)

AnswerInv ==
  /\ ~dead =>
       /\ pc = "readback" => AnsweredBefore(wave, Len(queue))
       /\ pc \in {"readback", "sync_wave", "copy_out"} /\ plan.hostOut
            => OutBefore(wave, Len(queue))
  /\ \A k \in 1 .. Len(queue) :
       queue[k].op = "d2h_results" => AnsweredBefore(queue[k].wave, k - 1)

(* Nothing has been submitted to begin with. *)
LEMMA AnswerInit == Init => AnswerInv
  BY DEF Init, AnswerInv

(* Waves are cut one after the other out of the call's chunks.              *)
LEMMA WavesApart ==
  ASSUME Typed, NEW u \in 1 .. plan.waves, NEW w \in 1 .. plan.waves
  PROVE  /\ plan.begin[u] \in Nat /\ plan.begin[u + 1] \in Nat /\ plan.n \in Nat
         /\ plan.begin[u] <= plan.begin[u + 1] /\ plan.begin[u + 1] <= plan.n
         /\ u < w => plan.begin[u + 1] <= plan.begin[w]
         /\ ChunksOfWave(u) = {i \in CallChunks(plan) :
                                 plan.begin[u] <= i /\ i < plan.begin[u + 1]}
         /\ u # w => ChunksOfWave(u) \cap ChunksOfWave(w) = {}
         /\ CallChunks(plan) \subseteq Chunks
  <1>1. IsPlan(plan) /\ plan.waves \in Nat
    BY PlanIsPlan, WavesTyped DEF Typed, TypeOK, HostTyped
  <1>2. plan.n \in Nat /\ plan.n <= MaxChunkCount /\ MaxChunkCount \in Nat
    BY <1>1, StreamAssumption DEF IsPlan
  <1>3. \A v \in 1 .. plan.waves + 1 : plan.begin[v] \in Nat /\ plan.begin[v] <= plan.n
    <2>1. \A v \in 1 .. plan.waves + 1 : plan.begin[v] \in 0 .. plan.n
      BY <1>1 DEF IsPlan
    <2> QED BY <1>2, <2>1
  <1>4. \A v, x \in 1 .. plan.waves + 1 : v < x => plan.begin[v] < plan.begin[x]
    BY <1>1 DEF IsPlan
  <1>5. /\ u \in 1 .. plan.waves + 1 /\ u + 1 \in 1 .. plan.waves + 1 /\ u < u + 1
        /\ w \in 1 .. plan.waves + 1 /\ w + 1 \in 1 .. plan.waves + 1 /\ w < w + 1
    BY <1>1
  <1>6. /\ plan.begin[u] < plan.begin[u + 1] /\ plan.begin[w] < plan.begin[w + 1]
        /\ u < w => plan.begin[u + 1] <= plan.begin[w]
        /\ w < u => plan.begin[w + 1] <= plan.begin[u]
    <2>1. u < w => u + 1 = w \/ u + 1 < w
      OBVIOUS
    <2>2. w < u => w + 1 = u \/ w + 1 < u
      OBVIOUS
    <2> QED BY <1>3, <1>4, <1>5, <2>1, <2>2
  <1>7. ASSUME NEW v \in 1 .. plan.waves, v + 1 \in 1 .. plan.waves + 1, v \in 1 .. plan.waves + 1
        PROVE  ChunksOfWave(v) = {i \in CallChunks(plan) :
                                    plan.begin[v] <= i /\ i < plan.begin[v + 1]}
    BY <1>2, <1>3, <1>7 DEF ChunksOfWave, CallChunks
  <1>8. u # w => ChunksOfWave(u) \cap ChunksOfWave(w) = {}
    <2>1. u # w => u < w \/ w < u
      OBVIOUS
    <2>2. \A i \in CallChunks(plan) : i \in Int
      BY <1>2 DEF CallChunks
    <2> QED BY <1>3, <1>5, <1>6, <1>7, <2>1, <2>2
  <1>9. CallChunks(plan) \subseteq Chunks
    BY <1>2 DEF CallChunks, Chunks
  <1> QED BY <1>2, <1>3, <1>5, <1>6, <1>7, <1>8, <1>9

(* A kernel that runs finds its wave on the device and answers it.          *)
LEMMA KernelAnswers ==
  ASSUME Typed, StagingNotOverwritten, FeedInv, DeviceRun, queue[1].op = "kernel"
  PROVE  LET u == queue[1].wave IN
         /\ dResults' = [i \in Chunks |->
              IF i \in ChunksOfWave(u) THEN plan.verdict[i] ELSE dResults[i]]
         /\ plan.hostOut => dDst' = u
         /\ dst' = [i \in Chunks |->
              IF ~plan.hostOut /\ i \in ChunksOfWave(u)
              THEN IF plan.verdict[i] = "ok" THEN "out" ELSE "junk" ELSE dst[i]]
  <1>1. Runs(queue[1]) /\ 1 \in 1 .. Len(queue)
    BY RunSeen
  <1>2. FedBefore(queue[1].wave, 0)
    <2>1. FedBefore(queue[1].wave, 1 - 1)
      BY <1>1 DEF FeedInv
    <2> QED BY <2>1
  <1>3. Fed(queue[1].wave)
    BY <1>2 DEF FedBefore, SrcBefore, MetaBefore, Fed
  <1> QED BY <1>1, <1>3 DEF Runs

(* An answered wave stays answered, and one whose kernel is in flight is    *)
(* answered when it has run.                                                *)
LEMMA AnswerShift ==
  ASSUME Typed, StagingNotOverwritten, FeedInv, DeviceRun,
         NEW w \in 1 .. plan.waves, NEW n \in 1 .. Len(queue), AnsweredBefore(w, n)
  PROVE  AnsweredBefore(w, n - 1)'
  <1> PICK u : u = queue[1].wave
    OBVIOUS
  <1>1. /\ plan' = plan /\ u \in 1 .. plan.waves /\ n \in Nat
        /\ \A i \in ChunksOfWave(w) : i \in Chunks
        /\ u # w => ChunksOfWave(u) \cap ChunksOfWave(w) = {}
        /\ \A k \in 1 .. Len(queue') : queue'[k] = queue[k + 1]
        /\ Len(queue') = Len(queue) - 1 /\ Len(queue) \in Nat
    BY RunSeen, WavesApart DEF hostVars
  <1>2. ChunksOfWave(w)' = ChunksOfWave(w)
    BY <1>1 DEF ChunksOfWave
  <1>3. queue[1].op = "kernel" /\ u = w => Answered(w)'
    BY <1>1, <1>2, KernelAnswers DEF Answered
  <1>4. Answered(w) => Answered(w)'
    <2>1. CASE queue[1].op = "kernel" /\ u # w
      BY <1>1, <1>2, <2>1, KernelAnswers DEF Answered
    <2>2. CASE queue[1].op # "kernel"
      BY <1>1, <1>2, <2>2, RunSeen DEF Answered
    <2> QED BY <1>3, <2>1, <2>2
  <1>5. ASSUME NEW j \in 1 .. n, At(j, "kernel", w) PROVE AnsweredBefore(w, n - 1)'
    <2>1. CASE j = 1
      BY <1>3, <1>5, <2>1 DEF At, AnsweredBefore
    <2>2. CASE j # 1
      <3>1. j - 1 \in 1 .. n - 1 /\ j - 1 \in 1 .. Len(queue') /\ (j - 1) + 1 = j
        BY <1>1, <2>2
      <3>2. At(j - 1, "kernel", w)'
        BY <1>1, <1>5, <3>1 DEF At
      <3> QED BY <3>1, <3>2 DEF AnsweredBefore
    <2> QED BY <2>1, <2>2
  <1> QED BY <1>4, <1>5 DEF AnsweredBefore

(* The wave's output reaches the staging the same way.                      *)
LEMMA OutShift ==
  ASSUME Typed, StagingNotOverwritten, OrderInv, FeedInv, DeviceRun, plan.hostOut,
         NEW w \in Nat, NEW n \in 1 .. Len(queue), OutBefore(w, n), queue[1].wave <= w
  PROVE  OutBefore(w, n - 1)'
  <1>1. /\ n \in Nat /\ queue[1].wave \in Nat /\ dDst \in Nat /\ dDst <= queue[1].wave
        /\ \A k \in 1 .. Len(queue') : queue'[k] = queue[k + 1]
        /\ Len(queue') = Len(queue) - 1 /\ Len(queue) \in Nat
    BY RunSeen, WavesTyped DEF OrderInv
  <1>2. CASE dDst = w
    <2>1. queue[1].wave = w
      BY <1>1, <1>2
    <2> QED BY <1>2, <2>1, KernelAnswers, RunSeen DEF OutBefore
  <1>3. ASSUME NEW j \in 1 .. n, At(j, "kernel", w) PROVE OutBefore(w, n - 1)'
    <2>1. CASE j = 1
      BY <1>3, <2>1, KernelAnswers DEF At, OutBefore
    <2>2. CASE j # 1
      <3>1. j - 1 \in 1 .. n - 1 /\ j - 1 \in 1 .. Len(queue') /\ (j - 1) + 1 = j
        BY <1>1, <2>2
      <3>2. At(j - 1, "kernel", w)'
        BY <1>1, <1>3, <3>1 DEF At
      <3> QED BY <3>1, <3>2 DEF OutBefore
    <2> QED BY <2>1, <2>2
  <1> QED BY <1>2, <1>3 DEF OutBefore

(* The host submits a wave's readback behind its kernel.                    *)
LEMMA AnswerSubmit ==
  ASSUME Typed, GateInv, AnswerInv, NEW op \in Ops, Submitted(op)
  PROVE  AnswerInv'
  <1>1. wave \in 1 .. plan.waves /\ Enqueue(op)
    BY DEF Typed, TypeOK, HostTyped, Submitted
  <1>2. CASE dead
    BY <1>1, <1>2, WavesTyped DEF AnswerInv, GateInv, Enqueue, Submitted
  <1>3. CASE /\ ~dead /\ Len(queue') = Len(queue) + 1 /\ Len(queue) \in Nat
             /\ \A k \in 1 .. Len(queue) : queue'[k] = queue[k]
             /\ queue'[Len(queue) + 1] = [op |-> op, wave |-> wave]
    <2> PICK n \in Nat : n = Len(queue)
      BY <1>3
    <2> PICK w : w = wave
      OBVIOUS
    <2>1. /\ Len(queue') = n + 1 /\ n + 1 \in Nat /\ ~dead
          /\ UNCHANGED <<dDst, dResults, dst, plan, dead>>
          /\ \A k \in 1 .. n : queue'[k] = queue[k]
          /\ queue'[n + 1].op = op /\ queue'[n + 1].wave = w
      BY <1>3 DEF devVars, Submitted
    <2>2. ASSUME NEW u, NEW m \in 0 .. n
          PROVE  /\ AnsweredBefore(u, m) => AnsweredBefore(u, m)'
                 /\ OutBefore(u, m) => OutBefore(u, m)'
      <3>1. \A k \in 1 .. m : k \in 1 .. n
        OBVIOUS
      <3>2. Answered(u) => Answered(u)'
        BY <2>1 DEF Answered, ChunksOfWave
      <3> QED BY <2>1, <3>1, <3>2 DEF AnsweredBefore, OutBefore, At
    <2>3. n \in 0 .. n /\ n + 1 \in 1 .. n + 1 /\ 1 .. n \subseteq 1 .. n + 1
      OBVIOUS
    <2>4. OutBefore(w, n)' => OutBefore(w, n + 1)'
      BY <2>3 DEF OutBefore
    <2>5. op = "kernel" => AnsweredBefore(w, n + 1)' /\ OutBefore(w, n + 1)'
      BY <2>1, <2>3 DEF AnsweredBefore, OutBefore, At
    <2>6. pc' = "readback" => AnsweredBefore(w, n + 1)'
      BY <2>5 DEF Submitted, NextWave
    <2>7. pc' \in {"readback", "sync_wave", "copy_out"} /\ plan.hostOut => OutBefore(w, n + 1)'
      BY <2>1, <2>2, <2>3, <2>4, <2>5 DEF AnswerInv, Submitted, NextWave
    <2>8. ASSUME NEW k \in 1 .. n + 1, NEW u, queue'[k].op = "d2h_results", queue'[k].wave = u
          PROVE  AnsweredBefore(u, k - 1)'
      <3>1. CASE k \in 1 .. n
        <4>1. k - 1 \in 0 .. n /\ AnsweredBefore(u, k - 1)
          BY <2>1, <2>8, <3>1 DEF AnswerInv
        <4> QED BY <2>2, <4>1
      <3>2. CASE k = n + 1
        <4>1. pc = "readback" /\ u = w /\ k - 1 = n
          BY <2>1, <2>8, <3>2 DEF Submitted
        <4>2. AnsweredBefore(w, n)
          BY <2>1, <4>1 DEF AnswerInv
        <4> QED BY <2>2, <2>3, <4>1, <4>2
      <3> QED BY <3>1, <3>2
    <2>9. pc' \in {"readback", "sync_wave", "copy_out"} => wave' = w
      BY DEF Submitted, NextWave
    <2> QED BY <2>1, <2>6, <2>7, <2>8, <2>9 DEF AnswerInv
  <1> QED BY <1>1, <1>2, <1>3, EnqueueSeen

(* Every step keeps the answers. *)
LEMMA AnswerStep ==
  Typed /\ Gate /\ OrderInv /\ FeedInv /\ AnswerInv /\ [Next]_vars => AnswerInv'
  <1> SUFFICES ASSUME Typed, Gate, OrderInv, FeedInv, AnswerInv, [Next]_vars
               PROVE  AnswerInv'
    OBVIOUS
  <1> USE DEF AnsweredBefore, Answered, OutBefore, At, ChunksOfWave
  <1>1. CASE Passive
    BY <1>1 DEF Passive, AnswerInv
  <1>2. CASE Stage
    <2>1. /\ UNCHANGED <<queue, dDst, dResults, dst, plan, dead, wave>>
          /\ pc' \in {"h2d_src", "h2d_meta"}
      BY <1>2 DEF Stage, devVars
    <2> QED BY <2>1 DEF AnswerInv
  <1>3. CASE Leaving
    BY <1>3 DEF Leaving, devVars, AnswerInv
  <1>4. ASSUME NEW op \in Ops, Submitted(op) PROVE AnswerInv'
    BY <1>4, AnswerSubmit DEF Gate
  <1>5. CASE DeviceFault
    BY <1>5 DEF DeviceFault, AnswerInv
  <1>6. CASE UNCHANGED vars
    BY <1>6 DEF vars, hostVars, devVars, AnswerInv
  <1> HIDE DEF AnsweredBefore, Answered, OutBefore, At, ChunksOfWave
  <1>7. CASE DeviceRun
    <2> PICK n \in Nat : n = Len(queue)
      BY WavesTyped
    <2> PICK w \in Nat : w = wave
      BY WavesTyped
    <2>1. /\ n >= 1 /\ Len(queue') = n - 1 /\ \A k \in 1 .. n - 1 : queue'[k] = queue[k + 1]
          /\ UNCHANGED <<pc, plan, wave, dead>> /\ n \in 1 .. Len(queue) /\ StagingNotOverwritten
          /\ 1 \in 1 .. n
      BY <1>7, RunSeen DEF Gate, hostVars
    <2>2. ~dead /\ pc = "readback" => AnsweredBefore(w, n - 1)'
      <3>1. pc = "readback" => w \in 1 .. plan.waves
        BY DEF Typed, TypeOK, HostTyped
      <3> QED BY <1>7, <2>1, <3>1, AnswerShift DEF AnswerInv
    <2>3. ~dead /\ pc \in {"readback", "sync_wave", "copy_out"} /\ plan.hostOut
            => OutBefore(w, n - 1)'
      <3>1. pc \in {"readback", "sync_wave", "copy_out"} => queue[1].wave <= w
        BY <2>1 DEF OrderInv
      <3> QED BY <1>7, <2>1, <3>1, OutShift DEF AnswerInv
    <2>4. ASSUME NEW k \in 1 .. n - 1, NEW u, queue'[k].op = "d2h_results", queue'[k].wave = u
          PROVE  AnsweredBefore(u, k - 1)'
      <3>1. /\ k + 1 \in 1 .. n /\ queue[k + 1].op = "d2h_results" /\ queue[k + 1].wave = u
            /\ (k + 1) - 1 = k /\ k \in 1 .. Len(queue) /\ u \in 1 .. plan.waves
        BY <2>1, <2>4, WavesTyped
      <3>2. AnsweredBefore(u, k)
        BY <3>1 DEF AnswerInv
      <3> QED BY <1>7, <2>1, <3>1, <3>2, AnswerShift
    <2> QED BY <2>1, <2>2, <2>3, <2>4 DEF AnswerInv
  <1> QED BY <1>1, <1>2, <1>3, <1>4, <1>5, <1>6, <1>7, Sorts

-----------------------------------------------------------------------------
(* The records of the mirror: each is the seed or the kernel's, those of    *)
(* waves not read back yet are seeds, and a good one tells the truth - at   *)
(* once when the kernel wrote to the caller's own memory, and for host      *)
(* output once the wave was copied out.                                     *)
FreshFrom(first) == \A i \in CallChunks(plan) : i >= first => pResults[i] = "cuda"
Good(i) == StatusOf(pResults[i]) = "ok" => pResults[i] = "ok" /\ dst[i] = "out"
Failed == pc = "drain" /\ waveStatus = "cuda"

MirrorInv ==
  /\ \A i \in CallChunks(plan) : pResults[i] \in {"cuda", plan.verdict[i]}
  /\ \A k \in 1 .. Len(queue) : FreshFrom(plan.begin[queue[k].wave])
  /\ pc \in {"sync_wave", "copy_out"} => FreshFrom(plan.begin[wave + 1])
  /\ pc \notin {"sync_wave", "copy_out", "drain"} => FreshFrom(plan.begin[wave])

TruthInv ==
  /\ ~plan.hostOut => \A i \in CallChunks(plan) : Good(i)
  /\ plan.hostOut /\ ~Failed =>
       /\ \A i \in CallChunks(plan) : pc = "drain" \/ i < plan.begin[wave] => Good(i)
       /\ \A k \in 1 .. Len(queue) : queue[k].op = "d2h_results" =>
            pc = "sync_wave" /\ queue[k].wave = wave

RecordInv ==
  /\ pc = "grow" => \A i \in CallChunks(plan) : hResults[i] = "cuda"
  /\ pc \notin {"idle", "grow", "destroy"} => MirrorInv /\ TruthInv

(* No call is open to begin with. *)
LEMMA RecordInit == Init => RecordInv
  BY DEF Init, RecordInv

(* The call's chunks, and those of the host's wave. *)
LEMMA CallShape ==
  ASSUME Typed
  PROVE  /\ \A i \in CallChunks(plan) :
              /\ i \in Nat /\ i < plan.n /\ i \in Chunks /\ plan.verdict[i] \in Verdicts
              /\ ~plan.hostOut => plan.verdict[i] # "wild"
         /\ plan.n \in Nat /\ plan.waves \in 1 .. plan.waves
         /\ plan.begin[plan.waves + 1] = plan.n
         /\ pc \notin {"idle", "destroy"} => wave \in 1 .. plan.waves
  <1>1. IsPlan(plan) /\ plan.waves \in Nat \ {0}
    BY PlanIsPlan DEF Typed, TypeOK, HostTyped, IsPlan
  <1>2. plan.n \in Nat /\ plan.n <= MaxChunkCount /\ MaxChunkCount \in Nat
    BY <1>1, StreamAssumption DEF IsPlan
  <1>3. \A i \in CallChunks(plan) : i \in Nat /\ i < plan.n /\ i \in Chunks
    BY <1>2 DEF CallChunks, Chunks
  <1>4. \A i \in CallChunks(plan) : plan.verdict[i] \in Verdicts
                                    /\ (~plan.hostOut => plan.verdict[i] # "wild")
    BY <1>1 DEF IsPlan, CallChunks
  <1>5. plan.begin[plan.waves + 1] = plan.n
    BY <1>1 DEF IsPlan
  <1> QED BY <1>1, <1>2, <1>3, <1>4, <1>5 DEF Typed, TypeOK, HostTyped

(* Submitting keeps what the records say. *)
LEMMA RecordSubmit ==
  ASSUME Typed, GateInv, RecordInv, NEW op \in Ops, Submitted(op)
  PROVE  RecordInv'
  <1>1. wave \in 1 .. plan.waves /\ Enqueue(op) /\ plan' = plan
    BY DEF Typed, TypeOK, HostTyped, Submitted
  <1>2. MirrorInv /\ TruthInv /\ UNCHANGED <<plan, pResults, dst>> /\ pc # "drain"
        /\ pc \notin {"sync_wave", "copy_out"} /\ pc' # "grow" /\ pc' # "copy_out"
    BY DEF Submitted, RecordInv, NextWave
  <1>3. /\ plan.begin[wave] \in Nat /\ plan.begin[wave + 1] \in Nat
        /\ plan.begin[wave] <= plan.begin[wave + 1]
    BY <1>1, WavesApart
  <1>4. \A i \in CallChunks(plan) : i \in Nat /\ i < plan.n
    BY CallShape
  <1>5. FreshFrom(plan.begin[wave]) /\ FreshFrom(plan.begin[wave + 1])
    <2>1. FreshFrom(plan.begin[wave])
      BY <1>2 DEF MirrorInv
    <2> QED BY <1>3, <1>4, <2>1 DEF FreshFrom
  <1>6. ASSUME NEW f PROVE FreshFrom(f) => FreshFrom(f)'
    BY <1>2 DEF FreshFrom
  <1>7. \/ queue' = queue
        \/ /\ Len(queue') = Len(queue) + 1 /\ Len(queue) \in Nat
           /\ \A k \in 1 .. Len(queue) : queue'[k] = queue[k]
           /\ queue'[Len(queue) + 1] = [op |-> op, wave |-> wave]
    BY <1>1, EnqueueSeen
  <1>8. \A k \in 1 .. Len(queue') :
          \/ k \in 1 .. Len(queue) /\ queue'[k] = queue[k]
          \/ queue'[k].op = op /\ queue'[k].wave = wave
    BY <1>7
  <1>9. \A k \in 1 .. Len(queue') : FreshFrom(plan.begin[queue'[k].wave])
    BY <1>2, <1>5, <1>8 DEF MirrorInv
  <1>10. \/ op # "d2h_results" /\ wave' = wave /\ pc' \notin {"sync_wave", "copy_out", "drain"}
         \/ op = "d2h_results" /\ plan.hostOut /\ pc' = "sync_wave" /\ wave' = wave
         \/ op = "d2h_results" /\ ~plan.hostOut /\ pc' = "stage" /\ wave' = wave + 1
         \/ op = "d2h_results" /\ ~plan.hostOut /\ pc' = "drain" /\ wave' = wave
    BY DEF Submitted, NextWave
  <1>11. MirrorInv'
    <2>1. \A i \in CallChunks(plan)' : pResults'[i] \in {"cuda", plan'.verdict[i]}
      BY <1>2 DEF MirrorInv, CallChunks
    <2>2. \A k \in 1 .. Len(queue') : FreshFrom(plan.begin[queue[k].wave])'
      BY <1>2, <1>9 DEF FreshFrom, CallChunks
    <2>3. pc' = "sync_wave" => FreshFrom(plan.begin[wave + 1])'
      BY <1>2, <1>5, <1>10 DEF FreshFrom, CallChunks
    <2>4. pc' \notin {"sync_wave", "copy_out", "drain"} => FreshFrom(plan.begin[wave])'
      BY <1>2, <1>5, <1>10 DEF FreshFrom, CallChunks
    <2> QED BY <1>2, <2>1, <2>2, <2>3, <2>4 DEF MirrorInv
  <1>12. TruthInv'
    BY <1>2, <1>8, <1>10 DEF TruthInv, Good, CallChunks, Failed
  <1> QED BY <1>2, <1>11, <1>12 DEF RecordInv

(* A copy to host memory makes what it copied true.                         *)
LEMMA RecordCopyOut ==
  ASSUME Typed, OrderInv, AnswerInv, RecordInv, CopyOut
  PROVE  RecordInv'
  <1>1. /\ pc = "copy_out" /\ queue = <<>> /\ ~dead /\ plan.hostOut /\ MirrorInv /\ TruthInv
        /\ UNCHANGED <<plan, pResults, queue>> /\ wave \in 1 .. plan.waves
        /\ plan.waves \in Nat /\ wave \in Nat
    BY CallShape, WavesTyped DEF CopyOut, OrderInv, RecordInv, pinVars
  <1>2. dDst = wave
    <2>1. OutBefore(wave, Len(queue))
      BY <1>1 DEF AnswerInv
    <2>2. Len(queue) = 0
      BY <1>1
    <2> QED BY <2>1, <2>2 DEF OutBefore
  <1>3. /\ plan.begin[wave] \in Nat /\ plan.begin[wave + 1] \in Nat
        /\ ChunksOfWave(wave) = {i \in CallChunks(plan) :
                                   plan.begin[wave] <= i /\ i < plan.begin[wave + 1]}
    BY <1>1, WavesApart
  <1>4. ASSUME NEW i \in CallChunks(plan), i < plan.begin[wave + 1] PROVE Good(i)'
    <2>1. i \in Nat /\ i \in Chunks /\ Len(queue) = 0
      BY <1>1, CallShape
    <2>2. dst'[i] = IF i \in ChunksOfWave(wave) /\ i < plan.begin[wave + 1] /\ pResults[i] = "ok"
                    THEN "out" ELSE dst[i]
      BY <1>2, <2>1 DEF CopyOut, Delivered
    <2>3. CASE i < plan.begin[wave]
      <3>1. Good(i)
        BY <1>1, <2>3 DEF TruthInv, Failed
      <3> QED BY <1>1, <2>2, <3>1 DEF Good
    <2>4. CASE ~(i < plan.begin[wave])
      <3>1. i \in ChunksOfWave(wave)
        BY <1>3, <1>4, <2>1, <2>4
      <3> QED BY <1>1, <1>4, <2>2, <3>1 DEF Good, StatusOf, CopyOut
    <2> QED BY <2>3, <2>4
  <1>5. \/ pc' = "stage" /\ wave' = wave + 1
        \/ pc' = "drain" /\ wave' = wave /\ wave = plan.waves
    BY <1>1 DEF CopyOut, NextWave
  <1>6. FreshFrom(plan.begin[wave + 1])
    BY <1>1 DEF MirrorInv
  <1>7. MirrorInv'
    BY <1>1, <1>5, <1>6 DEF MirrorInv, FreshFrom, CallChunks
  <1>8. \A i \in CallChunks(plan) : pc' = "drain" \/ i < plan.begin[wave'] => Good(i)'
    BY <1>4, <1>5, CallShape
  <1>9. TruthInv'
    BY <1>1, <1>8 DEF TruthInv, CallChunks
  <1> QED BY <1>5, <1>7, <1>9 DEF RecordInv

(* A running operation delivers the records of the oldest wave in flight,   *)
(* or the bytes of a wave whose records are still seeds.                    *)
LEMMA RecordRun ==
  ASSUME Typed, StagingNotOverwritten, OrderInv, FeedInv, AnswerInv, RecordInv, DeviceRun
  PROVE  RecordInv'
  <1> PICK u : u = queue[1].wave
    OBVIOUS
  <1>1. /\ u \in 1 .. plan.waves /\ u \in Nat /\ 1 \in 1 .. Len(queue) /\ Len(queue) \in Nat
        /\ queue[1].op \in Ops /\ Runs(queue[1])
        /\ Len(queue') = Len(queue) - 1 /\ \A k \in 1 .. Len(queue') : queue'[k] = queue[k + 1]
        /\ UNCHANGED <<pc, plan, wave, waveStatus, hResults>> /\ queue # <<>>
    BY RunSeen DEF hostVars, outVars
  <1>2. pc \notin {"idle", "grow", "destroy"} /\ MirrorInv /\ TruthInv /\ wave \in 1 .. plan.waves
    BY <1>1, CallShape DEF Typed, NothingOutlivesCall, RecordInv
  <1>3. /\ plan.begin[u] \in Nat /\ plan.begin[u + 1] \in Nat
        /\ ChunksOfWave(u) = {i \in CallChunks(plan) :
                                plan.begin[u] <= i /\ i < plan.begin[u + 1]}
        /\ \A w \in 1 .. plan.waves :
             /\ u < w => plan.begin[u + 1] <= plan.begin[w]
             /\ plan.begin[w] \in Nat /\ plan.begin[w + 1] \in Nat
             /\ plan.begin[w] <= plan.begin[w + 1]
    BY <1>1, WavesApart
  <1>4. \A i \in CallChunks(plan) : i \in Nat /\ i \in Chunks
    BY CallShape
  <1>5. \A k \in 1 .. Len(queue') :
          k + 1 \in 1 .. Len(queue) /\ queue'[k].wave \in 1 .. plan.waves /\ 1 < k + 1
    <2>1. \A k \in 1 .. Len(queue') : k + 1 \in 1 .. Len(queue) /\ 1 < k + 1
      BY <1>1
    <2>2. \A k \in 1 .. Len(queue) : queue[k].wave \in 1 .. plan.waves
      BY WavesTyped
    <2> QED BY <1>1, <2>1, <2>2, Zenon
  <1>6. CASE queue[1].op \in {"h2d_src", "h2d_meta", "record"}
    <2>1. UNCHANGED <<pResults, dst>>
      BY <1>1, <1>6, RunSeen
    <2>2. MirrorInv'
      BY <1>1, <1>2, <1>5, <2>1 DEF MirrorInv, FreshFrom, CallChunks
    <2>3. TruthInv'
      BY <1>1, <1>2, <1>5, <2>1 DEF TruthInv, Good, CallChunks, Failed
    <2> QED BY <1>1, <1>2, <2>2, <2>3 DEF RecordInv
  <1>7. CASE queue[1].op = "kernel"
    <2>1. /\ UNCHANGED pResults
          /\ \A i \in Chunks : plan.hostOut \/ i \notin ChunksOfWave(u) => dst'[i] = dst[i]
      BY <1>1, <1>7, RunSeen, KernelAnswers
    <2>2. \A i \in ChunksOfWave(u) : pResults[i] = "cuda"
      BY <1>1, <1>2, <1>3, <1>4 DEF MirrorInv, FreshFrom
    <2>3. MirrorInv'
      BY <1>1, <1>2, <1>5, <2>1 DEF MirrorInv, FreshFrom, CallChunks
    <2>4. \A i \in CallChunks(plan) : Good(i) => Good(i)'
      BY <1>4, <2>1, <2>2 DEF Good, StatusOf
    <2>5. TruthInv'
      <3>1. \A i \in CallChunks(plan) : ~plan.hostOut => Good(i)'
        BY <1>2, <2>4 DEF TruthInv
      <3>2. plan.hostOut /\ ~Failed =>
              /\ \A i \in CallChunks(plan) : pc = "drain" \/ i < plan.begin[wave] => Good(i)'
              /\ \A k \in 1 .. Len(queue') : queue'[k].op = "d2h_results" =>
                   pc = "sync_wave" /\ queue'[k].wave = wave
        BY <1>1, <1>2, <1>5, <2>4 DEF TruthInv
      <3> QED BY <1>1, <3>1, <3>2 DEF TruthInv, CallChunks, Failed
    <2> QED BY <1>1, <1>2, <2>3, <2>5 DEF RecordInv
  <1>8. CASE queue[1].op = "d2h_results"
    <2>1. /\ pResults' = [i \in Chunks |-> IF i \in ChunksOfWave(u) THEN dResults[i] ELSE pResults[i]]
          /\ UNCHANGED dst
      BY <1>1, <1>8, RunSeen DEF Runs
    <2>2. Answered(u)
      <3>1. AnsweredBefore(u, 1 - 1)
        BY <1>1, <1>8 DEF AnswerInv
      <3> QED BY <3>1 DEF AnsweredBefore
    <2>3. \A i \in CallChunks(plan) :
            pResults'[i] = IF i \in ChunksOfWave(u) THEN plan.verdict[i] ELSE pResults[i]
      BY <1>4, <2>1, <2>2 DEF Answered
    <2>4. ASSUME NEW f \in Nat, plan.begin[u + 1] <= f, FreshFrom(f) PROVE FreshFrom(f)'
      BY <1>1, <1>3, <1>4, <2>3, <2>4 DEF FreshFrom, CallChunks
    <2>5. \A k \in 1 .. Len(queue') : FreshFrom(plan.begin[queue[k].wave])'
      <3> SUFFICES ASSUME NEW k \in 1 .. Len(queue') PROVE FreshFrom(plan.begin[queue[k].wave])'
        OBVIOUS
      <3> PICK w : w = queue[k + 1].wave
        OBVIOUS
      <3>1. /\ w \in 1 .. plan.waves /\ queue'[k].wave = w /\ k + 1 \in 1 .. Len(queue) /\ 1 < k + 1
        BY <1>1, <1>5
      <3>2. u < w
        BY <1>1, <1>8, <3>1 DEF OrderInv
      <3>3. FreshFrom(plan.begin[w])
        BY <1>2, <3>1 DEF MirrorInv
      <3> PICK f : f = plan.begin[w]
        OBVIOUS
      <3>4. FreshFrom(f)'
        BY <1>3, <2>4, <3>1, <3>2, <3>3
      <3> QED BY <1>1, <3>1, <3>4
    <2>6. pc \in {"sync_wave", "copy_out"} => FreshFrom(plan.begin[wave + 1])'
      <3> SUFFICES ASSUME pc \in {"sync_wave", "copy_out"} PROVE FreshFrom(plan.begin[wave + 1])'
        OBVIOUS
      <3> PICK f : f = plan.begin[wave + 1]
        OBVIOUS
      <3>1. u <= wave /\ u \in Nat /\ wave \in Nat
        BY <1>1, WavesTyped DEF OrderInv
      <3>2. plan.begin[u + 1] <= f /\ f \in Nat
        <4>1. u < wave \/ u = wave
          BY <3>1
        <4> QED BY <1>2, <1>3, <4>1
      <3>3. FreshFrom(f)
        BY <1>2 DEF MirrorInv
      <3>4. FreshFrom(f)'
        BY <2>4, <3>2, <3>3
      <3> QED BY <1>1, <3>4
    <2>7. pc \notin {"sync_wave", "copy_out", "drain"} => FreshFrom(plan.begin[wave])'
      <3> SUFFICES ASSUME pc \notin {"sync_wave", "copy_out", "drain"}
                   PROVE  FreshFrom(plan.begin[wave])'
        OBVIOUS
      <3> PICK f : f = plan.begin[wave]
        OBVIOUS
      <3>1. u < wave
        BY <1>1, <1>2, <1>8 DEF OrderInv, Submitting, Typed, TypeOK, HostTyped, Steps
      <3>2. plan.begin[u + 1] <= f /\ f \in Nat /\ FreshFrom(f)
        BY <1>2, <1>3, <3>1 DEF MirrorInv
      <3>3. FreshFrom(f)'
        BY <2>4, <3>2
      <3> QED BY <1>1, <3>3
    <2>8. \A i \in CallChunks(plan) : pResults'[i] \in {"cuda", plan.verdict[i]}
      BY <1>2, <2>3 DEF MirrorInv
    <2>9. MirrorInv'
      BY <1>1, <2>5, <2>6, <2>7, <2>8 DEF MirrorInv, CallChunks
    <2>10. ASSUME NEW i \in CallChunks(plan), ~plan.hostOut PROVE Good(i)'
      <3>1. Good(i) /\ plan.verdict[i] # "wild"
        BY <1>2, <2>10, CallShape DEF TruthInv
      <3> QED BY <2>1, <2>2, <2>3, <2>10, <3>1 DEF Good, StatusOf, Answered
    <2>11. plan.hostOut /\ ~Failed =>
             /\ \A i \in CallChunks(plan) : pc = "drain" \/ i < plan.begin[wave] => Good(i)'
             /\ \A k \in 1 .. Len(queue') : queue'[k].op = "d2h_results" =>
                  pc = "sync_wave" /\ queue'[k].wave = wave
      <3> SUFFICES ASSUME plan.hostOut, ~Failed
                   PROVE  /\ \A i \in CallChunks(plan) :
                               pc = "drain" \/ i < plan.begin[wave] => Good(i)'
                          /\ \A k \in 1 .. Len(queue') : queue'[k].op = "d2h_results" =>
                               pc = "sync_wave" /\ queue'[k].wave = wave
        OBVIOUS
      <3>1. pc = "sync_wave" /\ u = wave
        BY <1>1, <1>2, <1>8 DEF TruthInv
      <3>2. ASSUME NEW i \in CallChunks(plan), i < plan.begin[wave] PROVE Good(i)'
        <4>1. i \notin ChunksOfWave(u) /\ Good(i)
          BY <1>2, <1>3, <1>4, <3>1, <3>2 DEF TruthInv
        <4> QED BY <2>1, <2>3, <4>1 DEF Good
      <3>3. \A k \in 1 .. Len(queue') : queue'[k].op = "d2h_results" => queue'[k].wave = wave
        BY <1>1, <1>2, <1>5 DEF TruthInv
      <3> QED BY <3>1, <3>2, <3>3
    <2>12. TruthInv'
      BY <1>1, <2>10, <2>11 DEF TruthInv, CallChunks, Failed
    <2> QED BY <1>1, <1>2, <2>9, <2>12 DEF RecordInv
  <1> QED BY <1>1, <1>6, <1>7, <1>8 DEF Ops

(* Every step keeps what the records say. *)
LEMMA RecordStep ==
  Typed /\ Gate /\ OrderInv /\ FeedInv /\ AnswerInv /\ RecordInv /\ [Next]_vars => RecordInv'
  <1> SUFFICES ASSUME Typed, Gate, OrderInv, FeedInv, AnswerInv, RecordInv, [Next]_vars
               PROVE  RecordInv'
    OBVIOUS
  <1> USE DEF hostVars, ctxVars, outVars, pinVars, devVars
  <1>0. \A i \in CallChunks(plan) : i \in Nat /\ i < plan.n /\ i \in Chunks
    BY CallShape
  <1>1. CASE CreateOk \/ CreateFails \/ RefuseArguments \/ CallerError \/ Destroy
    BY <1>1 DEF CreateOk, CreateFails, RefuseArguments, CallerError, Destroy, RecordInv
  <1>2. ASSUME NEW p \in Plans, Decode(p) \/ OneShotOk(p) PROVE RecordInv'
    <2>1. pc' = "grow" /\ plan' = p
          /\ hResults' = [i \in Chunks |-> IF i < p.n THEN "cuda" ELSE "unset"]
      BY <1>2 DEF Decode, OneShotOk, BeginDecode
    <2>2. \A i \in CallChunks(p) : i < p.n /\ i \in Chunks
      <3>1. p.n \in Nat /\ p.n <= MaxChunkCount /\ MaxChunkCount \in Nat
        BY PlanIsPlan, StreamAssumption DEF IsPlan
      <3> QED BY <3>1 DEF CallChunks, Chunks
    <2> QED BY <2>1, <2>2 DEF RecordInv
  <1>3. ASSUME NEW p \in Plans, DecodePoisoned(p) \/ OneShotCreateFails(p) PROVE RecordInv'
    BY <1>3 DEF DecodePoisoned, OneShotCreateFails, RecordInv
  <1>4. CASE GrowOk
    <2>1. /\ queue' = <<>> /\ pc' = "stage" /\ plan' = plan
          /\ \A i \in CallChunks(plan) : pResults'[i] = "cuda"
      BY <1>0, <1>4 DEF GrowOk, SeedMirror, Typed, NothingOutlivesCall
    <2>2. \A i \in CallChunks(plan)' : pResults'[i] = "cuda"
      BY <2>1 DEF CallChunks
    <2>3. MirrorInv'
      BY <2>1, <2>2 DEF MirrorInv, FreshFrom
    <2>4. TruthInv'
      BY <2>1, <2>2 DEF TruthInv, Good, StatusOf
    <2> QED BY <2>1, <2>3, <2>4 DEF RecordInv
  <1>5. ASSUME NEW k \in 1 .. 7, GrowFails(k) PROVE RecordInv'
    BY <1>5 DEF GrowFails, Returned, RecordInv
  <1>6. CASE Stage
    <2>1. /\ UNCHANGED <<queue, plan, wave, pResults, dst, waveStatus>>
          /\ pc = "stage" /\ pc' \in {"h2d_src", "h2d_meta"}
      BY <1>6 DEF Stage
    <2>2. MirrorInv'
      BY <2>1 DEF RecordInv, MirrorInv, FreshFrom, CallChunks
    <2>3. TruthInv'
      BY <2>1 DEF RecordInv, TruthInv, Good, CallChunks, Failed
    <2> QED BY <2>1, <2>2, <2>3 DEF RecordInv
  <1>7. ASSUME pc \notin {"idle", "grow", "destroy"}, pc' = "drain", waveStatus' = "cuda",
               UNCHANGED <<queue, plan, pResults>>, plan.hostOut \/ dst' = dst
        PROVE  RecordInv'
    BY <1>7 DEF RecordInv, MirrorInv, TruthInv, FreshFrom, Good, CallChunks, Failed
  <1>8. CASE GateFaults
    BY <1>7, <1>8 DEF GateFaults, FailWave
  <1>9. ASSUME NEW at, NEW op \in Ops, NEW next, Submit(at, op, next),
               at \notin {"idle", "grow", "destroy"},
               Enqueue(op) /\ pc' = next => Submitted(op)
        PROVE  RecordInv'
    <2>1. CASE Enqueue(op) /\ pc' = next
      BY <1>9, <2>1, RecordSubmit DEF Gate
    <2>2. CASE FailWave("cuda") /\ UNCHANGED queue
      BY <1>7, <1>9, <2>2 DEF Submit, FailWave
    <2> QED BY <1>9, <2>1, <2>2 DEF Submit
  <1>10. CASE SubmitSrc
    <2>1. Submit("h2d_src", "h2d_src", "h2d_meta")
          /\ (Enqueue("h2d_src") /\ pc' = "h2d_meta" => Submitted("h2d_src"))
      BY <1>10 DEF SubmitSrc, Submit, Submitted
    <2> QED BY <1>9, <2>1 DEF Ops
  <1>11. CASE SubmitMeta
    <2>1. Submit("h2d_meta", "h2d_meta", "record")
          /\ (Enqueue("h2d_meta") /\ pc' = "record" => Submitted("h2d_meta"))
      BY <1>11 DEF SubmitMeta, Submit, Submitted
    <2> QED BY <1>9, <2>1 DEF Ops
  <1>12. CASE RecordReuse
    <2>1. Submit("record", "record", "launch")
          /\ (Enqueue("record") /\ pc' = "launch" => Submitted("record"))
      BY <1>12 DEF RecordReuse, Submit, Submitted
    <2> QED BY <1>9, <2>1 DEF Ops
  <1>13. CASE LaunchOk
    <2>1. Submitted("kernel") /\ "kernel" \in Ops
      BY <1>13 DEF LaunchOk, Submitted, Ops
    <2> QED BY <2>1, RecordSubmit DEF Gate
  <1>14. CASE LaunchRefused
    <2>1. /\ pc = "launch" /\ pc' = "drain" /\ UNCHANGED <<queue, plan, wave, pResults, dst>>
          /\ MirrorInv /\ TruthInv
      BY <1>14 DEF LaunchRefused, FailWave, RecordInv
    <2>2. MirrorInv'
      BY <2>1 DEF MirrorInv, FreshFrom, CallChunks
    <2>3. plan.begin[wave] \in Nat
      BY <2>1, CallShape, WavesApart
    <2>4. \A i \in CallChunks(plan) : Good(i)
      <3> SUFFICES ASSUME NEW i \in CallChunks(plan) PROVE Good(i)
        OBVIOUS
      <3>1. CASE i < plan.begin[wave]
        BY <2>1, <3>1 DEF TruthInv, Failed
      <3>2. CASE i >= plan.begin[wave]
        BY <2>1, <3>2 DEF MirrorInv, FreshFrom, Good, StatusOf
      <3> QED BY <1>0, <2>3, <3>1, <3>2
    <2>5. \A k \in 1 .. Len(queue) : plan.hostOut => queue[k].op # "d2h_results"
      BY <2>1 DEF TruthInv, Failed
    <2>6. TruthInv'
      BY <2>1, <2>4, <2>5 DEF TruthInv, Good, CallChunks
    <2> QED BY <2>1, <2>2, <2>6 DEF RecordInv
  <1>15. CASE Readback
    <2>1. Submitted("d2h_results") \/ (FailWave("cuda") /\ UNCHANGED <<queue, plan, pResults, dst, pc>>)
            \/ (FailWave("cuda") /\ UNCHANGED <<queue, plan, pResults, dst>>)
      BY <1>15 DEF Readback, Submitted
    <2>2. "d2h_results" \in Ops
      BY DEF Ops
    <2> QED BY <1>7, <1>15, <2>1, <2>2, RecordSubmit DEF Gate, FailWave, Readback
  <1>16. CASE SyncWave
    <2>1. CASE pc' = "drain"
      BY <1>7, <1>16, <2>1 DEF SyncWave, FailWave
    <2>2. CASE pc' = "copy_out"
      <3>1. /\ pc = "sync_wave" /\ UNCHANGED <<queue, plan, wave, pResults, dst, waveStatus>>
            /\ queue = <<>> /\ MirrorInv /\ TruthInv
        BY <1>16, <2>2 DEF SyncWave, FailWave, RecordInv
      <3>2. MirrorInv'
        BY <2>2, <3>1 DEF MirrorInv, FreshFrom, CallChunks
      <3>3. TruthInv'
        BY <2>2, <3>1 DEF TruthInv, Good, CallChunks, Failed
      <3> QED BY <2>2, <3>2, <3>3 DEF RecordInv
    <2> QED BY <1>16, <2>1, <2>2 DEF SyncWave, FailWave
  <1>17. CASE CopyOut
    BY <1>17, RecordCopyOut
  <1>18. ASSUME NEW s \in Chunks, CopyOutFails(s) PROVE RecordInv'
    BY <1>7, <1>18 DEF CopyOutFails, FailWave, OrderInv
  <1>19. ASSUME NEW s \in Chunks, CopyOutWild(s) PROVE RecordInv'
    <2>1. /\ pc = "copy_out" /\ pc' = "drain" /\ waveStatus' = "cuda" /\ plan.hostOut
          /\ queue' = <<>> /\ plan' = plan /\ pResults' = [pResults EXCEPT ![s] = "cuda"]
          /\ MirrorInv
      BY <1>19 DEF CopyOutWild, FailWave, OrderInv, RecordInv
    <2>2. \A i \in CallChunks(plan) : pResults'[i] \in {"cuda", plan.verdict[i]}
      BY <1>0, <2>1 DEF MirrorInv, Typed, TypeOK, StagingTyped
    <2> QED BY <2>1, <2>2 DEF RecordInv, MirrorInv, TruthInv, Failed, CallChunks
  <1>20. CASE Drain
    BY <1>20 DEF Drain, Returned, RecordInv
  <1>21. CASE DeviceRun
    BY <1>21, RecordRun DEF Gate
  <1>22. CASE DeviceFault
    <2> PICK u : u = queue[1].wave
      OBVIOUS
    <2>1. /\ queue # <<>> /\ queue' = <<>> /\ UNCHANGED <<pc, plan, wave, waveStatus, pResults, hResults>>
          /\ u \in 1 .. plan.waves /\ 1 \in 1 .. Len(queue)
          /\ \A i \in Chunks : plan.hostOut \/ i \notin ChunksOfWave(u) => dst'[i] = dst[i]
      BY <1>22, HeadSeen DEF DeviceFault
    <2>2. pc \notin {"idle", "grow", "destroy"} /\ MirrorInv /\ TruthInv
      BY <2>1 DEF Typed, NothingOutlivesCall, RecordInv
    <2>3. \A i \in ChunksOfWave(u) : pResults[i] = "cuda"
      <3>1. /\ plan.begin[u] \in Nat
            /\ \A i \in ChunksOfWave(u) : i \in CallChunks(plan) /\ plan.begin[u] <= i
        BY <2>1, WavesApart
      <3> QED BY <1>0, <2>1, <2>2, <3>1 DEF MirrorInv, FreshFrom
    <2>4. \A i \in CallChunks(plan) : Good(i) => Good(i)'
      BY <1>0, <2>1, <2>3 DEF Good, StatusOf
    <2>5. MirrorInv'
      BY <2>1, <2>2 DEF MirrorInv, FreshFrom, CallChunks
    <2>6. TruthInv'
      BY <2>1, <2>2, <2>4 DEF TruthInv, CallChunks, Failed
    <2> QED BY <2>1, <2>2, <2>5, <2>6 DEF RecordInv
  <1>23. CASE UNCHANGED vars
    BY <1>23 DEF vars, RecordInv, MirrorInv, TruthInv, FreshFrom, Good, CallChunks, Failed
  <1> QED
    BY <1>1, <1>2, <1>3, <1>4, <1>5, <1>6, <1>8, <1>10, <1>11, <1>12, <1>13, <1>14, <1>15,
       <1>16, <1>17, <1>18, <1>19, <1>20, <1>21, <1>22, <1>23 DEF Next, Caller, Host, Device

-----------------------------------------------------------------------------
(* What a call reports is what it did.  The drain is the one step that      *)
(* answers a call whose pipeline ran; every other return has stamped its    *)
(* records CUDEC_ERR_CUDA or touched none.                                  *)
LEMMA ProducedInit == Init => OkChunkProduced
  BY DEF Init, OkChunkProduced

(* Success is every record's: the first bad one would decide otherwise.     *)
LEMMA AggregateOk ==
  ASSUME Aggregate(pResults, "ok")
  PROVE  \A i \in CallChunks(plan) : StatusOf(pResults[i]) = "ok"
  BY DEF Aggregate

(* The drain answers with the mirror. *)
LEMMA ProducedDrain ==
  ASSUME Typed, OutcomeInv, RecordInv, Drain
  PROVE  OkChunkProduced'
  <1>1. /\ pc = "drain" /\ UNCHANGED <<plan, dst, oneShot>> /\ CallChunks(plan)' = CallChunks(plan)
        /\ hResults' = [i \in Chunks |-> IF i < plan.n THEN pResults[i] ELSE hResults[i]]
    BY DEF Drain, CallChunks
  <1>2. MirrorInv /\ TruthInv
    BY <1>1 DEF RecordInv
  <1>3. \A i \in CallChunks(plan) : hResults'[i] = pResults[i]
    BY <1>1, CallShape
  <1>4. \A i \in CallChunks(plan) : pResults[i] \notin {"stale", "unset"}
    BY <1>2, CallShape DEF MirrorInv, Verdicts
  <1>5. \A i \in CallChunks(plan) : Good(i) \/ (plan.hostOut /\ waveStatus = "cuda")
    BY <1>1, <1>2 DEF TruthInv, Failed
  <1>6. CASE waveStatus = "ok" /\ ~dead /\ ~lastErr
    <2>1. PICK st \in Statuses \cup Results :
            Aggregate(pResults, st) /\ ret' = [status |-> st, accepted |-> TRUE]
      BY <1>6 DEF Drain
    <2>2. st = "ok" => \A i \in CallChunks(plan) : StatusOf(pResults[i]) = "ok"
      BY <2>1, AggregateOk
    <2>3. \A i \in CallChunks(plan) : Good(i)
      BY <1>5, <1>6
    <2> QED BY <1>1, <1>3, <1>4, <2>1, <2>2, <2>3 DEF OkChunkProduced, Good
  <1>7. CASE ~(waveStatus = "ok" /\ ~dead /\ ~lastErr)
    <2>1. ret' = [status |-> IF waveStatus = "ok" THEN "cuda" ELSE waveStatus, accepted |-> TRUE]
      BY <1>7 DEF Drain
    <2>2. ret'.status # "ok" /\ (waveStatus = "cuda" => ret'.status = "cuda")
      BY <2>1
    <2> QED BY <1>1, <1>3, <1>4, <1>5, <2>2 DEF OkChunkProduced, Good
  <1> QED BY <1>6, <1>7

(* Every step keeps it. *)
LEMMA ProducedStep ==
  Typed /\ OutcomeInv /\ RecordInv /\ OkChunkProduced /\ [Next]_vars => OkChunkProduced'
  <1> SUFFICES ASSUME Typed, OutcomeInv, RecordInv, OkChunkProduced, [Next]_vars
               PROVE  OkChunkProduced'
    OBVIOUS
  <1> USE DEF hostVars, ctxVars, outVars, pinVars, devVars
  <1>1. CASE CreateOk \/ CreateFails \/ RefuseArguments
    <2>1. \E st \in Statuses : ret' = [status |-> st, accepted |-> FALSE]
      BY <1>1 DEF CreateOk, CreateFails, RefuseArguments, Statuses
    <2>2. ~ret'.accepted
      BY <2>1
    <2> QED BY <2>2 DEF OkChunkProduced
  <1>2. CASE CallerError \/ Destroy \/ UNCHANGED vars
    BY <1>2 DEF CallerError, Destroy, vars, OkChunkProduced, AtRest, CallChunks
  <1>3. ASSUME NEW p \in Plans, Decode(p) \/ OneShotOk(p) PROVE ~AtRest'
    BY <1>3 DEF Decode, OneShotOk, BeginDecode, AtRest
  <1>4. \A p \in Plans : \A i \in CallChunks(p) : i < p.n /\ i \in Chunks
    <2> SUFFICES ASSUME NEW p \in Plans PROVE \A i \in CallChunks(p) : i < p.n /\ i \in Chunks
      OBVIOUS
    <2>1. p.n \in Nat /\ p.n <= MaxChunkCount /\ MaxChunkCount \in Nat
      BY PlanIsPlan, StreamAssumption DEF IsPlan
    <2> QED BY <2>1 DEF CallChunks, Chunks
  <1>5. ASSUME NEW p \in Plans, DecodePoisoned(p) PROVE OkChunkProduced'
    <2>1. /\ plan' = p /\ ret'.status = "cuda"
          /\ hResults' = [i \in Chunks |-> IF i < p.n THEN "cuda" ELSE "unset"]
      BY <1>5 DEF DecodePoisoned
    <2>2. \A i \in CallChunks(p) : hResults'[i] = "cuda"
      BY <1>4, <2>1
    <2> QED BY <2>1, <2>2 DEF OkChunkProduced, StatusOf
  <1>6. ASSUME NEW p \in Plans, OneShotCreateFails(p) PROVE OkChunkProduced'
    <2>1. plan' = p /\ ret'.status = "cuda" /\ oneShot' = TRUE
          /\ hResults' = [i \in Chunks |-> "unset"]
      BY <1>6 DEF OneShotCreateFails
    <2>2. \A i \in CallChunks(p) : hResults'[i] = "unset"
      BY <1>4, <2>1
    <2> QED BY <2>1, <2>2 DEF OkChunkProduced, StatusOf
  <1>7. ASSUME NEW k \in 1 .. 7, GrowFails(k) PROVE OkChunkProduced'
    BY <1>7 DEF GrowFails, RecordInv, OkChunkProduced, StatusOf, CallChunks
  <1>8. ASSUME pc' \notin {"idle", "destroy"} PROVE OkChunkProduced'
    BY <1>8 DEF OkChunkProduced, AtRest
  <1>9. CASE GrowOk \/ Stage \/ GateFaults \/ LaunchOk \/ LaunchRefused \/ Readback \/ SyncWave \/ CopyOut
    BY <1>8, <1>9 DEF GrowOk, Stage, GateFaults, LaunchOk, LaunchRefused, Readback, SyncWave,
                      CopyOut, FailWave, NextWave
  <1>10. CASE SubmitSrc \/ SubmitMeta \/ RecordReuse
    BY <1>8, <1>10 DEF SubmitSrc, SubmitMeta, RecordReuse, Submit, FailWave
  <1>11. ASSUME NEW s \in Chunks, CopyOutWild(s) \/ CopyOutFails(s) PROVE OkChunkProduced'
    BY <1>8, <1>11 DEF CopyOutWild, CopyOutFails, FailWave
  <1>12. CASE DeviceRun \/ DeviceFault
    BY <1>8, <1>12 DEF DeviceRun, DeviceFault, Typed, NothingOutlivesCall
  <1>13. CASE Drain
    BY <1>13, ProducedDrain
  <1>14. ASSUME NEW p \in Plans, Decode(p) \/ OneShotOk(p) PROVE OkChunkProduced'
    BY <1>3, <1>14 DEF OkChunkProduced
  <1> QED
    BY <1>1, <1>2, <1>5, <1>6, <1>7, <1>9, <1>10, <1>11, <1>12, <1>13, <1>14
    DEF Next, Caller, Host, Device

(* Whatever an earlier call or another wave left in the staging: success    *)
(* means every chunk decoded into its own destination, a chunk reported OK  *)
(* was produced by this call, and no record is left from another one.       *)
THEOREM OkChunkProducedHolds == Spec => []OkChunkProduced
  <1>1. Outcome => OutcomeInv
    BY DEF Outcome
  <1> QED
    BY <1>1, TypedInit, TypedStep, OutcomeInit, OutcomeStep, GateInit, GateStep, OrderInit,
       OrderStep, FeedInit, FeedStep, AnswerInit, AnswerStep, RecordInit, RecordStep,
       ProducedInit, ProducedStep, PTL DEF Spec

-----------------------------------------------------------------------------
(* The contract, step by step: a step inside an open call is a stutter, one *)
(* that returns is the contract's Answer, and the caller's calls are the    *)
(* contract's own.                                                          *)
LEMMA ContractInit == Init => Contract!Init
  BY DEF Init, Contract!Init, Decoded, AtRest

(* Inside a call nothing of the contract moves. *)
LEMMA ContractStutters ==
  ASSUME pc \notin {"idle", "destroy"}, pc' \notin {"idle", "destroy"}, UNCHANGED <<live, poisoned>>
  PROVE  UNCHANGED Contract!vars
  BY DEF Contract!vars, Decoded, AtRest

(* A return with a failure. *)
LEMMA ContractFails ==
  ASSUME Typed, OutcomeInv, pc \notin {"idle", "destroy"}, pc' = Returned,
         UNCHANGED <<live, plan>>, poisoned' \in BOOLEAN,
         ret'.accepted, ret'.status \in {"cuda", "unsupported"}
  PROVE  Contract!Answer
  <1> DEFINE asked == CallChunks(plan)
             done == IF ret'.status # "cuda"
                     THEN {i \in asked : hResults'[i] = "ok" /\ dst'[i] = "out"} ELSE {}
  <1>1. live /\ ~poisoned /\ pc' \in {"idle", "destroy"} /\ CallChunks(plan)' = asked
    BY DEF OutcomeInv, Returned, CallChunks
  <1>2. asked \in SUBSET Chunks /\ done \in SUBSET asked
    BY CallShape
  <1>3. AtRest' /\ Decoded'
    BY <1>1 DEF AtRest, Decoded
  <1> QED BY <1>1, <1>2, <1>3 DEF Contract!Answer, Contract!Failures

(* A return decided by the records: OK stands for delivery, a verdict for   *)
(* something that was not, and the context lives.                           *)
LEMMA ContractAnswers ==
  ASSUME Typed, OutcomeInv, RecordInv, Drain, waveStatus = "ok", ~dead, ~lastErr
  PROVE  Contract!Answer
  <1>1. PICK st \in Statuses \cup Results :
          Aggregate(pResults, st) /\ ret' = [status |-> st, accepted |-> TRUE]
    BY DEF Drain
  <1>2. /\ pc = "drain" /\ pc' = Returned /\ UNCHANGED <<live, plan, poisoned, dst>>
        /\ hResults' = [i \in Chunks |-> IF i < plan.n THEN pResults[i] ELSE hResults[i]]
        /\ live /\ ~poisoned
    BY DEF Drain, OutcomeInv
  <1>3. pc' \in {"idle", "destroy"} /\ CallChunks(plan)' = CallChunks(plan) /\ AtRest' /\ Decoded'
    BY <1>1, <1>2 DEF Returned, CallChunks, AtRest, Decoded
  <1>4. /\ CallChunks(plan) \in SUBSET Chunks
        /\ \A i \in CallChunks(plan) : hResults'[i] = pResults[i]
    BY <1>2, CallShape
  <1>5. \A i \in CallChunks(plan) : pResults[i] \in {"cuda", "ok", "corrupt", "wild"} /\ Good(i)
    BY <1>2, CallShape DEF RecordInv, MirrorInv, TruthInv, Failed, Verdicts
  <1>6. CASE st = "ok"
    <2>1. \A i \in CallChunks(plan) : hResults'[i] = "ok" /\ dst'[i] = "out"
      BY <1>1, <1>2, <1>4, <1>5, <1>6, AggregateOk DEF Good
    <2> DEFINE done == {i \in CallChunks(plan) : hResults'[i] = "ok" /\ dst'[i] = "out"}
    <2>2. done = CallChunks(plan)
      BY <2>1
    <2>3. ret'.status = "ok"
      BY <1>1, <1>6
    <2> QED BY <1>2, <1>3, <1>4, <2>2, <2>3 DEF Contract!Answer
  <1>7. CASE st = "cuda"
    <2>1. ret'.accepted /\ ret'.status = "cuda"
      BY <1>1, <1>7
    <2>2. poisoned' \in BOOLEAN
      BY <1>2 DEF Typed, TypeOK, CtxTyped
    <2> QED BY <1>2, <2>1, <2>2, ContractFails
  <1>8. CASE st = "corrupt"
    <2>1. PICK i \in CallChunks(plan) : pResults[i] = "corrupt"
      BY <1>1, <1>5, <1>8 DEF Aggregate, StatusOf
    <2> DEFINE done == {j \in CallChunks(plan) : hResults'[j] = "ok" /\ dst'[j] = "out"}
    <2>2. done # CallChunks(plan) /\ done \in SUBSET CallChunks(plan)
      BY <1>4, <2>1
    <2>3. ret'.status = "corrupt"
      BY <1>1, <1>8
    <2> QED BY <1>2, <1>3, <1>4, <2>2, <2>3 DEF Contract!Answer
  <1> QED BY <1>1, <1>5, <1>6, <1>7, <1>8 DEF Aggregate, StatusOf

(* Destroying is the contract's Close. *)
LEMMA ContractCloses ==
  ASSUME Destroy
  PROVE  Contract!Close
  <1>1. /\ pc \in {"idle", "destroy"} /\ pc' = "idle" /\ live = TRUE /\ live' = FALSE
        /\ UNCHANGED <<plan, ret, hResults, dst>>
    BY DEF Destroy, outVars
  <1> QED BY <1>1 DEF Contract!Close, Decoded, AtRest, CallChunks

(* The caller's own calls. *)
LEMMA ContractCalls ==
  ASSUME Typed, OutcomeInv, Caller
  PROVE  Contract!Next \/ UNCHANGED Contract!vars
  <1> USE DEF hostVars, ctxVars, outVars, pinVars, devVars
  <1>1. CASE CreateOk
    <2>1. Contract!Open
      BY <1>1 DEF CreateOk, Contract!Open, Decoded, AtRest
    <2> QED BY <2>1 DEF Contract!Next
  <1>2. CASE CreateFails \/ RefuseArguments
    <2>1. pc = "idle" /\ pc' = "idle" /\ UNCHANGED <<live, poisoned>>
          /\ \E st \in Statuses : ret' = [status |-> st, accepted |-> FALSE]
      BY <1>2 DEF CreateFails, RefuseArguments, Statuses
    <2>2. ~ret'.accepted
      BY <2>1
    <2>3. Contract!Refuse
      BY <2>1, <2>2 DEF Contract!Refuse, Decoded, AtRest
    <2> QED BY <2>3 DEF Contract!Next
  <1>3. CASE CallerError
    BY <1>3 DEF CallerError, Contract!vars, Decoded, AtRest, CallChunks
  <1>4. ASSUME NEW p \in Plans, Decode(p) \/ OneShotOk(p) PROVE Contract!Next
    <2>1. pc = "idle" /\ pc' = "grow" /\ live' = TRUE /\ poisoned' = FALSE /\ (live => ~poisoned)
      BY <1>4 DEF Decode, OneShotOk, BeginDecode, Typed, TypeOK, CtxTyped
    <2>2. Contract!Request
      BY <2>1 DEF Contract!Request, Decoded, AtRest
    <2> QED BY <2>2 DEF Contract!Next
  <1>5. ASSUME NEW p \in Plans, DecodePoisoned(p) \/ OneShotCreateFails(p) PROVE Contract!Next
    <2>1. /\ pc = "idle" /\ pc' = "idle" /\ UNCHANGED <<live, poisoned>> /\ (live => poisoned)
          /\ ret' = [status |-> "cuda", accepted |-> TRUE] /\ plan' = p
      BY <1>5 DEF DecodePoisoned, OneShotCreateFails
    <2>2. CallChunks(p) \in SUBSET Chunks
      <3>1. p.n \in Nat /\ p.n <= MaxChunkCount /\ MaxChunkCount \in Nat
        BY PlanIsPlan, StreamAssumption DEF IsPlan
      <3> QED BY <3>1 DEF CallChunks, Chunks
    <2>3. AtRest' /\ Decoded' /\ ret'.status = "cuda" /\ CallChunks(plan)' = CallChunks(p)
      BY <2>1 DEF AtRest, Decoded, CallChunks
    <2>4. Contract!Refuse
      BY <2>1, <2>2, <2>3 DEF Contract!Refuse
    <2> QED BY <2>4 DEF Contract!Next
  <1>6. CASE Destroy
    BY <1>6, ContractCloses DEF Contract!Next
  <1> QED BY <1>1, <1>2, <1>3, <1>4, <1>5, <1>6 DEF Caller

(* Every step of the code is a step of the contract or none of its. *)
LEMMA ContractStep ==
  Typed /\ Outcome /\ RecordInv /\ [Next]_vars => [Contract!Next]_(Contract!vars)
  <1> SUFFICES ASSUME Typed, Outcome, RecordInv, [Next]_vars
               PROVE  Contract!Next \/ UNCHANGED Contract!vars
    OBVIOUS
  <1> USE DEF hostVars, ctxVars, outVars, pinVars, devVars
  <1>0. OutcomeInv
    BY DEF Outcome
  <1>1. CASE Caller
    BY <1>0, <1>1, ContractCalls
  <1>2. CASE pc = "destroy" /\ Destroy
    <2>1. Contract!Close
      BY <1>2, ContractCloses
    <2> QED BY <2>1 DEF Contract!Next
  <1>3. ASSUME NEW k \in 1 .. 7, GrowFails(k) PROVE Contract!Next
    <2>1. Contract!Answer
      <3>1. /\ pc \notin {"idle", "destroy"} /\ pc' = Returned /\ UNCHANGED <<live, plan>>
            /\ poisoned' \in BOOLEAN /\ ret'.accepted /\ ret'.status = "cuda"
        BY <1>3 DEF GrowFails
      <3> QED BY <1>0, <3>1, ContractFails
    <2> QED BY <2>1 DEF Contract!Next
  <1>4. CASE Drain
    <2>1. Contract!Answer
      <3>1. CASE waveStatus = "ok" /\ ~dead /\ ~lastErr
        BY <1>0, <1>4, <3>1, ContractAnswers
      <3>2. CASE ~(waveStatus = "ok" /\ ~dead /\ ~lastErr)
        <4>1. /\ ret' = [status |-> IF waveStatus = "ok" THEN "cuda" ELSE waveStatus, accepted |-> TRUE]
              /\ poisoned' = (poisoned \/ Poisons(dead, lastErr \/ dead))
              /\ pc = "drain" /\ pc' = Returned /\ UNCHANGED <<live, plan>>
          BY <1>4, <3>2 DEF Drain
        <4>2. poisoned' \in BOOLEAN
          BY <4>1 DEF Poisons
        <4>3. ret'.accepted /\ ret'.status \in {"cuda", "unsupported"}
          BY <1>0, <4>1 DEF OutcomeInv
        <4> QED BY <1>0, <4>1, <4>2, <4>3, ContractFails
      <3> QED BY <3>1, <3>2
    <2> QED BY <2>1 DEF Contract!Next
  <1>5. CASE GrowOk \/ Stage \/ GateFaults \/ LaunchOk \/ LaunchRefused \/ Readback \/ SyncWave \/ CopyOut
    <2>1. pc \notin {"idle", "destroy"} /\ pc' \notin {"idle", "destroy"} /\ UNCHANGED <<live, poisoned>>
      BY <1>5 DEF GrowOk, Stage, GateFaults, LaunchOk, LaunchRefused, Readback, SyncWave,
                  CopyOut, FailWave, NextWave
    <2> QED BY <2>1, ContractStutters
  <1>6. CASE SubmitSrc \/ SubmitMeta \/ RecordReuse
    <2>1. pc \notin {"idle", "destroy"} /\ pc' \notin {"idle", "destroy"} /\ UNCHANGED <<live, poisoned>>
      BY <1>6 DEF SubmitSrc, SubmitMeta, RecordReuse, Submit, FailWave
    <2> QED BY <2>1, ContractStutters
  <1>7. ASSUME NEW s \in Chunks, CopyOutWild(s) \/ CopyOutFails(s) PROVE UNCHANGED Contract!vars
    <2>1. pc \notin {"idle", "destroy"} /\ pc' \notin {"idle", "destroy"} /\ UNCHANGED <<live, poisoned>>
      BY <1>7 DEF CopyOutWild, CopyOutFails, FailWave
    <2> QED BY <2>1, ContractStutters
  <1>8. CASE DeviceRun \/ DeviceFault
    <2>1. pc \notin {"idle", "destroy"} /\ pc' \notin {"idle", "destroy"} /\ UNCHANGED <<live, poisoned>>
      BY <1>8 DEF DeviceRun, DeviceFault, Typed, NothingOutlivesCall
    <2> QED BY <2>1, ContractStutters
  <1>9. CASE UNCHANGED vars
    BY <1>9 DEF vars, Contract!vars, Decoded, AtRest, CallChunks
  <1> QED
    BY <1>1, <1>2, <1>3, <1>4, <1>5, <1>6, <1>7, <1>8, <1>9 DEF Next, Host, Device

(* The safety part of ImplementsContract, for every set of plans and every  *)
(* number of calls: one answer per request, success stands for delivery, a  *)
(* verdict never kills the context and a dead one only refuses.             *)
THEOREM ContractSafety == Spec => Contract!Init /\ [][Contract!Next]_(Contract!vars)
  BY TypedInit, TypedStep, OutcomeInit, OutcomeStep, GateInit, GateStep, OrderInit, OrderStep,
     FeedInit, FeedStep, AnswerInit, AnswerStep, RecordInit, RecordStep, ContractInit,
     ContractStep, PTL DEF Spec
-----------------------------------------------------------------------------
(* The sizing loops.  NoOverflowReject is not inductive.  What makes it so *)
(* is the link from the division of the first loop to the sums of the      *)
(* second: a wave of several chunks holds at most budget / perChunkMax of  *)
(* them, every chunk of the call charges at most perChunkMax, so the       *)
(* chunks summed so far are worth at most (chunk - begin) * perChunkMax    *)
(* (SumInv).                                                               *)

(* Dividing the budget by a charge leaves a wave that fits the budget. *)
LEMMA DivFits ==
  ASSUME NEW a \in Nat, NEW p \in Nat \ {0}
  PROVE  a \div p \in Nat /\ (a \div p) * p <= a
  BY SMT

(* Multiplication by a natural number is monotone. *)
LEMMA MulMono ==
  ASSUME NEW a \in Nat, NEW b \in Nat, NEW c \in Nat, a <= b
  PROVE  a * c <= b * c
  <1>1. PICK d \in Nat : b = a + d
    BY b - a \in Nat, b = a + (b - a)
  <1>2. (a + d) * c = a * c + d * c
    BY SMT
  <1>3. d * c \in Nat /\ a * c \in Nat
    BY SMT
  <1> QED BY <1>1, <1>2, <1>3

(* The larger of two integers is one of them and bounds both. *)
LEMMA Max2 ==
  ASSUME NEW a \in Int, NEW b \in Int
  PROVE  /\ Max({a, b}) \in {a, b}
         /\ Max({a, b}) >= a /\ Max({a, b}) >= b
  <1>1. \E x \in {a, b} : \A y \in {a, b} : x >= y
    BY SMT
  <1> QED BY <1>1 DEF Max

(* The smallest of three integers is one of them and bounds all three. *)
LEMMA Min3 ==
  ASSUME NEW a \in Int, NEW b \in Int, NEW c \in Int
  PROVE  /\ Min({a, b, c}) \in {a, b, c}
         /\ Min({a, b, c}) <= a /\ Min({a, b, c}) <= b /\ Min({a, b, c}) <= c
  <1>1. \E x \in {a, b, c} : \A y \in {a, b, c} : x =< y
    BY SMT
  <1> QED BY <1>1 DEF Min

(* The wave chosen for n chunks holds at least one of them, at most all,   *)
(* and several only when that many of the largest charge fit the budget    *)
(* (ChooseWaveChunks, stream.cpp:96-105).                                   *)
LEMMA WaveForFits ==
  ASSUME NEW n \in Nat \ {0}, NEW p \in 1 .. SIZE_MAX
  PROVE  LET v == WaveFor(n, p)
         IN  /\ v \in 1 .. n
             /\ v = 1 \/ v * p <= kWaveStagingBudget
  <1> DEFINE d == kWaveStagingBudget \div p
             m == Max({d, 1})
             v == Min({m, kWaveChunksMax, n})
  <1>1. d \in Nat /\ d * p <= kWaveStagingBudget
    BY DivFits, WavePlanAssumption
  <1>2. m \in Nat /\ m >= 1 /\ (m = d \/ m = 1)
    <2> HIDE DEF d
    <2>1. d \in Int /\ 1 \in Int
      BY <1>1
    <2>2. m \in {d, 1} /\ m >= d /\ m >= 1
      BY <2>1, Max2, Zenon
    <2> HIDE DEF m
    <2> QED BY <1>1, <2>2
  <1>3. v \in Nat /\ v <= m /\ v <= n /\ v >= 1
    <2> HIDE DEF m
    <2>1. m \in Int /\ kWaveChunksMax \in Int /\ n \in Int
      BY <1>2, WavePlanAssumption
    <2>2. v \in {m, kWaveChunksMax, n} /\ v <= m /\ v <= kWaveChunksMax /\ v <= n
      BY <2>1, Min3, Zenon
    <2> HIDE DEF v
    <2> QED BY <1>2, <2>2, WavePlanAssumption
  <1>4. v = 1 \/ v * p <= kWaveStagingBudget
    <2> HIDE DEF v, m, d
    <2>1. CASE m = 1
      BY <2>1, <1>3
    <2>2. CASE m = d
      <3>1. v * p <= d * p
        BY <2>2, <1>1, <1>3, MulMono
      <3>2. v * p \in Int /\ d * p \in Int
        BY <1>1, <1>3, SMT
      <3> QED BY <3>1, <3>2, <1>1, WavePlanAssumption
    <2> QED BY <1>2, <2>1, <2>2
  <1> QED BY <1>3, <1>4 DEF WaveFor

-----------------------------------------------------------------------------
(* The first loop: what is charged so far. *)
ChargeInv ==
  loop = "charge" =>
    /\ waveChunks = 0 /\ begin = 0 /\ wsrc = 0 /\ wdst = 0
    /\ \A k \in 0 .. chunk - 1 : Charge(batch, k) <= perChunkMax

(* The second loop: the wave being summed, and what its chunks are worth.  *)
SumInv ==
  loop = "sum" =>
    /\ waveChunks \in 1 .. batch.n
    /\ waveChunks = 1 \/ waveChunks * perChunkMax <= kWaveStagingBudget
    /\ \A k \in 0 .. batch.n - 1 : Charge(batch, k) <= perChunkMax
    /\ chunk = begin => wsrc = 0 /\ wdst = 0
    /\ begin >= batch.n => chunk = batch.n /\ wsrc = 0 /\ wdst = 0
    /\ begin < batch.n => begin <= chunk /\ chunk <= WaveEnd
    /\ begin < batch.n /\ waveChunks # 1 => wsrc + wdst <= (chunk - begin) * perChunkMax

SizingInv == SizingTypeOK /\ NoOverflowReject /\ ChargeInv /\ SumInv

(* One more chunk of a wave of several: the sums stay below what the       *)
(* chunks are worth, so below the budget, so neither refusal is taken.     *)
LEMMA SumChunkFits ==
  ASSUME SizingInv, loop = "sum", chunk < WaveEnd
  PROVE  /\ ~SumOverflows
         /\ waveChunks # 1 =>
              wsrc + wdst + batch.src[chunk] + (IF batch.hostOut THEN batch.cap[chunk] ELSE 0)
                <= (chunk + 1 - begin) * perChunkMax
  <1> DEFINE out == IF batch.hostOut THEN batch.cap[chunk] ELSE 0
  <1>1. IsBatch(batch)
    BY BatchesAssumption DEF SizingInv, SizingTypeOK
  <1>2. /\ batch.n \in Nat /\ chunk \in 0 .. batch.n - 1 /\ chunk \in Nat
        /\ begin \in Nat /\ begin < batch.n /\ begin <= chunk
        /\ waveChunks \in Nat /\ chunk < begin + waveChunks
    <2>1. /\ batch.n \in Nat \ {0} /\ chunk \in 0 .. batch.n /\ begin \in Nat
          /\ waveChunks \in 1 .. batch.n /\ chunk < WaveEnd
          /\ begin < batch.n => begin <= chunk
          /\ begin >= batch.n => chunk = batch.n
      BY <1>1 DEF SizingInv, SizingTypeOK, SumInv, IsBatch
    <2> QED BY <2>1 DEF WaveEnd
  <1>3. /\ batch.src[chunk] \in 0 .. SIZE_MAX /\ batch.cap[chunk] \in 0 .. SIZE_MAX
        /\ batch.hostOut \in BOOLEAN /\ out \in 0 .. SIZE_MAX
    <2>1. /\ batch.src \in [0 .. batch.n - 1 -> 0 .. SIZE_MAX]
          /\ batch.cap \in [0 .. batch.n - 1 -> 0 .. SIZE_MAX]
          /\ batch.hostOut \in BOOLEAN
      BY <1>1 DEF IsBatch
    <2>2. batch.src[chunk] \in 0 .. SIZE_MAX /\ batch.cap[chunk] \in 0 .. SIZE_MAX
      BY <2>1, <1>2
    <2> QED BY <2>1, <2>2, WavePlanAssumption
  <1>4. /\ wsrc \in 0 .. SIZE_MAX /\ wdst \in 0 .. SIZE_MAX
        /\ perChunkMax \in 1 .. SIZE_MAX
        /\ Charge(batch, chunk) <= perChunkMax
    BY <1>2 DEF SizingInv, SizingTypeOK, SumInv
  <1>5. CASE waveChunks = 1
    <2>1. wsrc = 0 /\ wdst = 0
      BY <1>2, <1>5 DEF SizingInv, SumInv
    <2> QED BY <2>1, <1>3, <1>5, WavePlanAssumption DEF SumOverflows
  <1>6. CASE waveChunks # 1
    <2>1. /\ waveChunks * perChunkMax <= kWaveStagingBudget /\ waveChunks >= 2
          /\ wsrc + wdst <= (chunk - begin) * perChunkMax
      BY <1>2, <1>6 DEF SizingInv, SumInv
    <2>2. perChunkMax < SIZE_MAX
      <3>1. 2 * perChunkMax <= waveChunks * perChunkMax
        BY <2>1, <1>2, <1>4, WavePlanAssumption, SMT
      <3> QED BY <3>1, <2>1, <1>2, <1>4, WavePlanAssumption, SMT
    <2>3. batch.src[chunk] + out <= perChunkMax
      BY <2>2, <1>3, <1>4, WavePlanAssumption DEF Charge
    <2>4. (chunk - begin) * perChunkMax + perChunkMax = (chunk + 1 - begin) * perChunkMax
      BY <1>2, <1>4, WavePlanAssumption, SMT
    <2>5. (chunk + 1 - begin) * perChunkMax <= waveChunks * perChunkMax
      BY <1>2, <1>4, WavePlanAssumption, SMT
    <2> DEFINE worth == (chunk - begin) * perChunkMax
               next  == (chunk + 1 - begin) * perChunkMax
               full  == waveChunks * perChunkMax
    <2>6. worth \in Int /\ next \in Int /\ full \in Int
      BY <1>2, <1>4, WavePlanAssumption, SMT
    <2>7. wsrc + wdst + batch.src[chunk] + out <= next /\ next <= SIZE_MAX
      <3> HIDE DEF worth, next, full, out
      <3>1. wsrc + wdst <= worth /\ worth + perChunkMax = next
            /\ next <= full /\ full <= kWaveStagingBudget
        BY <2>1, <2>4, <2>5 DEF worth, next, full
      <3> QED BY <3>1, <2>3, <2>6, <1>3, <1>4, WavePlanAssumption
    <2>8. ~SumOverflows
      <3> HIDE DEF next
      <3> QED BY <2>7, <2>6, <1>3, <1>4, WavePlanAssumption DEF SumOverflows
    <2> QED BY <2>7, <2>8
  <1> QED BY <1>5, <1>6

(* The sizing loops start inside the invariant. *)
LEMMA SizingInvInit == SizingInit => SizingInv
  <1> SUFFICES ASSUME SizingInit PROVE SizingInv
    OBVIOUS
  <1>1. IsBatch(batch) /\ batch \in Batches
    BY BatchesAssumption DEF SizingInit
  <1> QED BY <1>1, WavePlanAssumption
          DEF SizingInit, SizingInv, SizingTypeOK, NoOverflowReject, ChargeInv, SumInv, IsBatch

(* Every iteration of either loop keeps it. *)
LEMMA SizingInvStep == SizingInv /\ [SizingNext]_sizingVars => SizingInv'
  <1> SUFFICES ASSUME SizingInv, [SizingNext]_sizingVars PROVE SizingInv'
    OBVIOUS
  <1>1. /\ IsBatch(batch) /\ batch \in Batches /\ batch.n \in Nat \ {0}
        /\ SizingTypeOK
    BY BatchesAssumption DEF SizingInv, SizingTypeOK, IsBatch
  <1>2. CASE ChargeChunk
    <2>1. Charge(batch, chunk) \in 0 .. SIZE_MAX
      <3>1. chunk \in 0 .. batch.n - 1
        BY <1>1, <1>2 DEF ChargeChunk, SizingTypeOK
      <3>2. batch.src[chunk] \in 0 .. SIZE_MAX /\ batch.cap[chunk] \in 0 .. SIZE_MAX
        BY <1>1, <3>1 DEF IsBatch
      <3> QED BY <3>2, WavePlanAssumption DEF Charge
    <2>2. SizingTypeOK'
      BY <1>1, <1>2, <2>1, WavePlanAssumption DEF ChargeChunk, SizingTypeOK
    <2>3. ChargeInv'
      <3> SUFFICES ASSUME NEW k \in 0 .. chunk
                   PROVE  Charge(batch, k) <= perChunkMax'
        BY <1>1, <1>2 DEF SizingInv, ChargeInv, ChargeChunk, SizingTypeOK
      <3>1. perChunkMax' >= Charge(batch, chunk) /\ perChunkMax' >= perChunkMax
        BY <1>1, <1>2, <2>1, WavePlanAssumption DEF ChargeChunk, SizingTypeOK
      <3>2. CASE k = chunk
        BY <3>1, <3>2
      <3>3. CASE k # chunk
        <4>1. k \in 0 .. chunk - 1
          BY <1>1, <3>3 DEF SizingTypeOK
        <4>2. Charge(batch, k) <= perChunkMax
          BY <4>1, <1>2 DEF SizingInv, ChargeInv, ChargeChunk
        <4>3. k \in 0 .. batch.n - 1
          BY <1>1, <1>2, <4>1 DEF ChargeChunk, SizingTypeOK
        <4>4. batch.src[k] \in 0 .. SIZE_MAX /\ batch.cap[k] \in 0 .. SIZE_MAX
          BY <1>1, <4>3 DEF IsBatch
        <4>5. Charge(batch, k) \in 0 .. SIZE_MAX
          BY <4>4, WavePlanAssumption DEF Charge
        <4> QED BY <4>2, <4>5, <3>1, <2>2, <1>1, WavePlanAssumption DEF SizingTypeOK
      <3> QED BY <3>2, <3>3
    <2> QED BY <1>2, <2>2, <2>3
            DEF SizingInv, NoOverflowReject, SumInv, ChargeChunk
  <1>3. CASE PickWave
    <2>1. /\ waveChunks' \in 1 .. batch.n
          /\ waveChunks' = 1 \/ waveChunks' * perChunkMax <= kWaveStagingBudget
      BY <1>1, <1>3, WaveForFits DEF PickWave, SizingTypeOK
    <2>2. SizingTypeOK'
      BY <1>1, <1>3, <2>1 DEF PickWave, SizingTypeOK
    <2>3. SumInv'
      BY <1>1, <1>3, <2>1 DEF SizingInv, ChargeInv, SumInv, PickWave, SizingTypeOK, WaveEnd
    <2> QED BY <1>3, <2>2, <2>3 DEF SizingInv, NoOverflowReject, ChargeInv, PickWave
  <1>4. CASE SumChunk
    <2>1. loop = "sum" /\ chunk < WaveEnd
      BY <1>4 DEF SumChunk
    <2>2. ~SumOverflows /\ (waveChunks # 1 =>
              wsrc + wdst + batch.src[chunk] + (IF batch.hostOut THEN batch.cap[chunk] ELSE 0)
                <= (chunk + 1 - begin) * perChunkMax)
      BY <2>1, SumChunkFits
    <2>3. /\ wsrc' = wsrc + batch.src[chunk]
          /\ wdst' = IF batch.hostOut THEN wdst + batch.cap[chunk] ELSE wdst
          /\ chunk' = chunk + 1
          /\ UNCHANGED <<batch, loop, status, perChunkMax, waveChunks, begin, maxSrc, maxDst>>
      BY <1>4, <2>2 DEF SumChunk
    <2>4. /\ begin < batch.n /\ begin <= chunk /\ chunk < batch.n /\ chunk \in 0 .. batch.n - 1
      BY <2>1, <1>1 DEF SizingInv, SizingTypeOK, SumInv, WaveEnd
    <2>5. batch.src[chunk] \in 0 .. SIZE_MAX /\ batch.cap[chunk] \in 0 .. SIZE_MAX
          /\ batch.hostOut \in BOOLEAN
      BY <1>1, <2>4 DEF IsBatch
    <2>6. SizingTypeOK'
      BY <1>1, <2>2, <2>3, <2>4, <2>5, WavePlanAssumption DEF SizingTypeOK, SumOverflows
    <2>7. waveChunks # 1 => wsrc' + wdst' <= (chunk' - begin) * perChunkMax
      <3>1. wsrc \in Nat /\ wdst \in Nat
        BY <1>1, WavePlanAssumption DEF SizingTypeOK
      <3>2. wsrc' + wdst' = wsrc + wdst + batch.src[chunk]
              + (IF batch.hostOut THEN batch.cap[chunk] ELSE 0)
        BY <2>3, <2>5, <3>1, WavePlanAssumption
      <3>3. (chunk' - begin) * perChunkMax = (chunk + 1 - begin) * perChunkMax
        <4>1. chunk' - begin = chunk + 1 - begin
          BY <2>3, <1>1 DEF SizingTypeOK
        <4> QED BY <4>1, Zenon
      <3> QED BY <3>2, <3>3, <2>2, Zenon
    <2>8. SumInv'
      BY <1>1, <2>1, <2>3, <2>4, <2>7 DEF SizingInv, SumInv, SizingTypeOK, WaveEnd
    <2> QED BY <2>1, <2>3, <2>6, <2>8 DEF SizingInv, NoOverflowReject, ChargeInv
  <1>5. CASE CloseWave
    <2>1. SizingTypeOK'
      BY <1>1, <1>5, WavePlanAssumption DEF CloseWave, SizingTypeOK
    <2>2. /\ waveChunks \in 1 .. batch.n /\ begin < batch.n /\ chunk = WaveEnd
          /\ begin' = begin + waveChunks /\ wsrc' = 0 /\ wdst' = 0
          /\ UNCHANGED <<batch, loop, chunk, perChunkMax, waveChunks, status>>
      BY <1>5 DEF CloseWave, SizingInv, SumInv
    <2>3. begin' < batch.n => chunk = begin'
      BY <1>1, <2>2 DEF WaveEnd, SizingTypeOK
    <2>4. begin' >= batch.n => chunk = batch.n
      BY <1>1, <2>2 DEF WaveEnd, SizingTypeOK
    <2>5. begin' < batch.n => (chunk - begin') * perChunkMax = 0
      <3> SUFFICES ASSUME begin' < batch.n PROVE (chunk - begin') * perChunkMax = 0
        OBVIOUS
      <3>1. chunk - begin' = 0 /\ perChunkMax \in Int
        BY <1>1, <2>2, <2>3, WavePlanAssumption DEF SizingTypeOK
      <3>2. \A x, y : x = 0 /\ y \in Int => x * y = 0
        BY SMT
      <3> QED BY <3>1, <3>2, Zenon
    <2>6. begin' < batch.n => begin' <= chunk /\ chunk <= WaveEnd'
      BY <1>1, <2>2, <2>3 DEF WaveEnd, SizingTypeOK
    <2>7. SumInv'
      BY <2>2, <2>3, <2>4, <2>5, <2>6 DEF SizingInv, SumInv
    <2> QED BY <1>5, <2>1, <2>7 DEF SizingInv, NoOverflowReject, ChargeInv, CloseWave
  <1>6. CASE FinishSizing
    BY <1>1, <1>6, WavePlanAssumption
    DEF SizingInv, SizingTypeOK, NoOverflowReject, ChargeInv, SumInv, FinishSizing
  <1>7. CASE Sized \/ UNCHANGED sizingVars
    BY <1>7 DEF Sized, sizingVars, SizingInv, SizingTypeOK, NoOverflowReject, ChargeInv, SumInv, WaveEnd
  <1> QED BY <1>2, <1>3, <1>4, <1>5, <1>6, <1>7 DEF SizingNext

(* For every batch, budget and chunk ceiling, no call is refused for the   *)
(* sizes it names: the two CUDEC_ERR_CORRUPT_INPUT returns of the sizing   *)
(* loop are dead code.                                                      *)
THEOREM NoOverflowRejectHolds == SizingSpec => []NoOverflowReject
  <1>1. SizingInv => NoOverflowReject
    BY DEF SizingInv
  <1> QED BY <1>1, SizingInvInit, SizingInvStep, PTL DEF SizingSpec

(* A wave of several chunks stages at most the budget, whatever the mix.   *)
THEOREM WaveWithinBudgetHolds == SizingSpec => []WaveWithinBudget
  <1>1. SizingInv => WaveWithinBudget
    <2> SUFFICES ASSUME SizingInv, loop = "sum", waveChunks # 1
                 PROVE  wsrc + wdst <= kWaveStagingBudget
      BY DEF WaveWithinBudget
    <2>1. IsBatch(batch) /\ batch.n \in Nat \ {0} /\ SizingTypeOK
      BY BatchesAssumption DEF SizingInv, SizingTypeOK, IsBatch
    <2>2. waveChunks \in 1 .. batch.n /\ waveChunks * perChunkMax <= kWaveStagingBudget
      BY DEF SizingInv, SumInv
    <2>3. CASE begin >= batch.n
      <3>1. wsrc = 0 /\ wdst = 0
        BY <2>3 DEF SizingInv, SumInv
      <3> QED BY <3>1, WavePlanAssumption
    <2>4. CASE begin < batch.n
      <3>1. /\ chunk - begin \in Nat /\ waveChunks \in Nat /\ perChunkMax \in Nat
            /\ chunk - begin <= waveChunks
        BY <2>1, <2>2, <2>4, WavePlanAssumption DEF SizingInv, SumInv, SizingTypeOK, WaveEnd
      <3>2. (chunk - begin) * perChunkMax <= waveChunks * perChunkMax
        BY <3>1, MulMono
      <3>3. wsrc + wdst <= (chunk - begin) * perChunkMax
        BY <2>4 DEF SizingInv, SumInv
      <3> DEFINE worth == (chunk - begin) * perChunkMax
                 full  == waveChunks * perChunkMax
      <3>4. worth \in Int /\ full \in Int
        BY <3>1, SMT
      <3>5. wsrc \in Nat /\ wdst \in Nat
        BY <2>1, WavePlanAssumption DEF SizingTypeOK
      <3>6. worth <= full /\ full <= kWaveStagingBudget /\ wsrc + wdst <= worth
        BY <3>2, <3>3, <2>2
      <3> HIDE DEF worth, full
      <3> QED BY <3>4, <3>5, <3>6, WavePlanAssumption
    <2> QED BY <2>1, <2>2, <2>3, <2>4 DEF SizingTypeOK
  <1> QED BY <1>1, SizingInvInit, SizingInvStep, PTL DEF SizingSpec
=============================================================================
