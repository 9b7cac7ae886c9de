---------------------------- MODULE BenchTiming -----------------------------
(***************************************************************************)
(* How the benchmarks take a number on the device (bench/gpu_bench.cu).    *)
(* A batch is uploaded, decoded once and checked; then a kernel is         *)
(* launched runs times between two events recorded on its stream, or a     *)
(* streaming context decodes it runs times under a wall clock. The stream  *)
(* is a queue the device works off in order, at its own pace, one grid     *)
(* (GridStride) after the other. Any call of the runtime may fail. What a  *)
(* sample is worth depends on what was going on while it was taken, so     *)
(* that is what a sample is here.                                          *)
(***************************************************************************)
EXTENDS Integers, Sequences, FiniteSets

CONSTANTS
  Widths, BlockWarps, kZstdBlockThreads, MaxBlocks, Grids, Dims, Counts, IndexLimit,
  kCudaWaveSize,
  Jobs,        \* what a run of a harness may be asked for
  Batches,     \* the corpora it may find
  Residents,   \* blocks of the GDeflate kernel the device may hold at once
  MaxFaults,   \* runtime calls and kernels that may fail
  SelfcheckWarmup, SelfcheckRuns

VARIABLES
  shape, at, visits,   \* the grid the device is at
  job, batch,          \* what this run was asked for, and the corpus it has
  doing, trip,         \* place of the host and its loop counter
  todo,                \* the series left to measure, the first under way
  queue, busy, sick,   \* the stream, a grid on the device, a kernel has faulted
  log, event,          \* history: launches completed; log's length at each event
  context,             \* the streaming context under timing
  samples, numbers,    \* of the series under way, and of those measured
  walk,                \* a main that takes several corpora: [at, drifted, points]
  rows, exit,          \* printed, and the exit code
  faults

gridVars == <<shape, at, visits>>
hostVars == <<doing, trip, todo, samples, numbers>>
streamVars == <<queue, busy, sick, log, event>>
mainVars == <<job, batch, walk, rows, exit>>
benchVars == <<hostVars, streamVars, mainVars, context, faults>>

Grid == INSTANCE GridStride

Pages == Len(batch.chunks)
None == -1
Init ==
  /\ job = [bench |-> "none"] /\ batch = <<>> /\ doing = "idle" /\ trip = 0 /\ todo = <<>>
  /\ queue = <<>> /\ busy = <<>> /\ sick = FALSE /\ log = <<>>
  /\ event = [start |-> None, stop |-> None] /\ context = "none"
  /\ samples = <<>> /\ numbers = <<>>
  /\ walk = [at |-> 0, drifted |-> FALSE, points |-> <<>>] /\ rows = <<>> /\ exit = None /\ faults = MaxFaults

\* The series of an entry, by what its row is called; GDeflate has no parse-only.
FullShape == Grid!Shipped(job.kernel, kCudaWaveSize, Pages)
BatchSeries ==
  <<[row |-> "full", shape |-> FullShape]>>
  \o IF job.kernel = "chunk" THEN <<[row |-> "parse_only", shape |-> FullShape]>> ELSE <<>>
SweepSeries(points) == [i \in DOMAIN points |->
  LET p == points[i] IN
  [row |-> "grid",
   shape |-> [kernel |-> "gdeflate", width |-> kCudaWaveSize, count |-> p.pages,
              blocks |-> IF p.blocks = 0 THEN Grid!GridBlocks(p.pages) ELSE p.blocks,
              dim |-> Grid!BlockThreads(kCudaWaveSize)]]]
ContextSeries == <<[row |-> "device_steady"], [row |-> "host_steady"],
                   [row |-> "device_cold"], [row |-> "host_cold"]>>

-----------------------------------------------------------------------------
(* The device.                                                             *)

DeviceLaunch ==
  /\ ~sick /\ busy = <<>> /\ queue # <<>> /\ Head(queue).kind = "launch"
  /\ Grid!Launch(Head(queue).shape)
  /\ busy' = <<Head(queue).row>> /\ queue' = Tail(queue)
  /\ UNCHANGED <<sick, log, event>>
DeviceFinish ==
  /\ busy # <<>> /\ Grid!Ended
  /\ log' = Append(log, [row |-> Head(busy), pages |-> shape.count, blocks |-> shape.blocks,
                         once |-> \A v \in DOMAIN visits : visits[v] = 1])
  /\ busy' = <<>> /\ UNCHANGED <<queue, sick, event, gridVars>>
DeviceRecord ==
  /\ ~sick /\ busy = <<>> /\ queue # <<>> /\ Head(queue).kind = "record"
  /\ event' = [event EXCEPT ![Head(queue).event] = Len(log)]
  /\ queue' = Tail(queue) /\ UNCHANGED <<busy, sick, log, gridVars>>
\* A kernel faults: nothing behind it runs, and every call from now on says so.
DeviceFault ==
  /\ faults > 0 /\ faults' = faults - 1
  /\ busy # <<>> /\ Grid!Ended /\ busy' = <<>> /\ sick' = TRUE /\ queue' = <<>>
  /\ UNCHANGED <<log, event, gridVars>>
Device ==
  /\ \/ (DeviceLaunch \/ DeviceFinish \/ DeviceRecord) /\ UNCHANGED faults
     \/ DeviceFault
  /\ UNCHANGED <<hostVars, mainVars, context>>

Drained == queue = <<>> /\ busy = <<>>

-----------------------------------------------------------------------------
(* The host: one runtime call, or one loop of them, at each place.         *)

Call(place) == doing = place /\ ~sick
GoOn(place) == doing' = place
Enqueue(op) == queue' = Append(queue, op) /\ UNCHANGED <<busy, sick, log, event>>
LaunchOf(s) == [kind |-> "launch", row |-> s.row, shape |-> s.shape]
Record(e) == [kind |-> "record", event |-> e]
Series == Head(todo)

Upload ==
  /\ Call("upload") /\ GoOn("first_launch")
  /\ UNCHANGED <<trip, todo, samples, numbers, streamVars>>
FirstLaunch ==
  /\ Call("first_launch") /\ GoOn("first_result")
  /\ Enqueue([kind |-> "launch", row |-> "verify", shape |-> FullShape])
  /\ UNCHANGED <<trip, todo, samples, numbers>>
\* Every chunk decodes to its whole size, or nothing is timed.
IsVerified == \A i \in DOMAIN batch.chunks : batch.chunks[i].device = "whole"
FirstResult ==
  /\ Call("first_result") /\ Drained
  /\ GoOn(IF IsVerified THEN "series" ELSE "failed") /\ trip' = 0
  /\ UNCHANGED <<todo, samples, numbers, streamVars>>

\* A grid of more pages than there are, or of none, is refused.
NextSeries ==
  /\ doing = "series"
  /\ IF todo = <<>> THEN GoOn("measured")
     ELSE IF ~(Series.shape.count \in 1..Pages) \/ Series.shape.blocks = 0 THEN GoOn("failed")
     ELSE GoOn("warmup")
  /\ trip' = 0 /\ samples' = <<>> /\ UNCHANGED <<todo, numbers, streamVars>>
WarmUp ==
  /\ Call("warmup") /\ trip < job.warmup /\ trip' = trip + 1
  /\ Enqueue(LaunchOf(Series)) /\ UNCHANGED <<doing, todo, samples, numbers>>
Settle ==
  /\ Call("warmup") /\ trip = job.warmup /\ Drained
  /\ GoOn("start") /\ trip' = 0 /\ UNCHANGED <<todo, samples, numbers, streamVars>>
After(place) == IF place = "start" THEN "launch" ELSE IF place = "launch" THEN "stop" ELSE "await"
TimedCall ==
  /\ \E place \in {"start", "launch", "stop"} :
       /\ Call(place) /\ GoOn(After(place))
       /\ Enqueue(IF place = "launch" THEN LaunchOf(Series) ELSE Record(place))
  /\ UNCHANGED <<trip, todo, samples, numbers>>
\* The wait is for the last record of the event; the time between two events is
\* what the device did between them.
Await ==
  /\ Call("await") /\ \A i \in DOMAIN queue : queue[i] # Record("stop")
  /\ event.stop # None
  /\ samples' = Append(samples, SubSeq(log, event.start + 1, event.stop))
  /\ trip' = trip + 1 /\ GoOn(IF trip + 1 < job.runs THEN "start" ELSE "median")
  /\ UNCHANGED <<todo, numbers, streamVars>>
Median(next) ==
  /\ numbers' = Append(numbers, [row |-> Series.row, samples |-> samples, corpus |-> batch])
  /\ todo' = Tail(todo) /\ samples' = <<>> /\ trip' = 0 /\ GoOn(next)
KernelMedian == doing = "median" /\ Median("series") /\ UNCHANGED streamVars

KernelTiming ==
  /\ \/ Upload \/ FirstLaunch \/ FirstResult \/ NextSeries \/ WarmUp \/ Settle
     \/ TimedCall \/ Await \/ KernelMedian
  /\ UNCHANGED <<context, gridVars, mainVars, faults>>

-----------------------------------------------------------------------------
(* The streaming contexts: calls that return when they are done.           *)

\* The first call on a context grows its staging.
During == IF context = "fresh" THEN <<"grow", "decode">> ELSE <<"decode">>
Cold == Series.row \in {"device_cold", "host_cold"}
ContextVerify ==
  /\ doing = "context_verify" /\ GoOn(IF IsVerified THEN "create" ELSE "failed")
  /\ UNCHANGED <<trip, todo, samples, numbers, context>>
Create ==
  /\ doing = "create" /\ context' = "fresh" /\ GoOn(IF Cold THEN "timed" ELSE "untimed")
  /\ UNCHANGED <<trip, todo, samples, numbers>>
\* Mutant: no decode more than the warm-up asked for.
UntimedAsAsked == job.warmup
\* One decode more than the warm-up, so that the staging has grown.
Untimed == job.warmup + 1
UntimedDecode ==
  /\ doing = "untimed"
  /\ IF trip < Untimed THEN trip' = trip + 1 /\ context' = "grown" /\ UNCHANGED doing
     ELSE trip' = 0 /\ GoOn("timed") /\ UNCHANGED context
  /\ UNCHANGED <<todo, samples, numbers>>
TimedDecode ==
  /\ doing = "timed" /\ samples' = Append(samples, During) /\ trip' = trip + 1
  /\ LET last == trip + 1 = job.runs IN
     /\ context' = IF last \/ Cold THEN "none" ELSE "grown"
     /\ GoOn(IF last THEN "context_median" ELSE IF Cold THEN "create" ELSE "timed")
  /\ UNCHANGED <<todo, numbers>>
ContextMedian ==
  /\ doing = "context_median" /\ Median(IF Len(todo) = 1 THEN "measured" ELSE "create")
  /\ UNCHANGED context

ContextTiming ==
  /\ ContextVerify \/ Create \/ UntimedDecode \/ TimedDecode \/ ContextMedian
  /\ UNCHANGED <<streamVars, gridVars, mainVars, faults>>

\* A call fails. A context is destroyed before the failure is looked at.
RuntimePlaces ==
  {"upload", "first_launch", "first_result", "warmup", "start", "launch", "stop", "await",
   "context_verify", "create", "untimed", "timed", "residency",
   "frame_verify", "frame_warmup", "frame_run"}
CallFails ==
  /\ doing \in RuntimePlaces
  /\ \/ faults > 0 /\ faults' = faults - 1
     \/ sick /\ UNCHANGED faults
  /\ GoOn("failed") /\ context' = "none"
  /\ UNCHANGED <<trip, todo, samples, numbers, streamVars, gridVars, mainVars>>

-----------------------------------------------------------------------------
(* What the mains have in common.                                          *)

Exit(code) == exit' = code /\ doing' = "exited"
ExitUnless(ok, place) == IF ok THEN GoOn(place) /\ UNCHANGED exit ELSE Exit(1)
Rest == <<streamVars, gridVars, context, faults>>

\* A loop of untimed decodes on the host, and a loop of timed ones.
WarmUpLoop(place, next) ==
  /\ doing = place
  /\ IF trip < job.warmup THEN trip' = trip + 1 /\ UNCHANGED doing ELSE trip' = 0 /\ GoOn(next)
  /\ UNCHANGED <<mainVars, todo, samples, numbers, Rest>>
TimedLoop(place, next) ==
  /\ doing = place /\ samples' = Append(samples, <<"decode">>) /\ trip' = trip + 1
  /\ GoOn(IF trip + 1 < job.runs THEN place ELSE next)
  /\ UNCHANGED <<mainVars, todo, numbers, Rest>>
\* A row of the loop's samples is printed.
ReportRow(place, row, next) ==
  /\ doing = place /\ rows' = Append(rows, [row |-> row, samples |-> samples, corpus |-> batch])
  /\ samples' = <<>> /\ trip' = 0 /\ GoOn(next)
  /\ UNCHANGED <<job, batch, walk, exit, todo, numbers, Rest>>
\* Nothing but a place and what is said of it.
Quiet == UNCHANGED <<job, batch, walk, rows, trip, todo, samples, numbers, Rest>>
Failed == doing = "failed" /\ Exit(1) /\ Quiet
\* A measurement that was asked for: its series, then its rows or the exit.
Measure(place, wanted, series, first, otherwise) ==
  /\ doing = place
  /\ IF wanted THEN todo' = series /\ numbers' = <<>> /\ GoOn(first)
     ELSE GoOn(otherwise) /\ UNCHANGED <<todo, numbers>>
  /\ UNCHANGED <<mainVars, trip, samples, Rest>>
PrintNumbers(next) ==
  /\ doing = "measured" /\ rows' = rows \o numbers /\ GoOn(next)
  /\ UNCHANGED <<job, batch, walk, exit, trip, todo, samples, numbers, Rest>>
RoundTrips(b) == \A i \in DOMAIN b.chunks : b.chunks[i].round_trips
Decoded(b) == \A i \in DOMAIN b.chunks : b.chunks[i].parses
\* The options that name a corpus built in the harness.
Generated == job.generated # {}
\* The options stand; a selfcheck has its own counts.
Accept ==
  /\ job' = IF job.selfcheck
            THEN [job EXCEPT !.warmup = SelfcheckWarmup, !.runs = SelfcheckRuns] ELSE job
  /\ GoOn("build") /\ UNCHANGED exit
\* The literal distribution, over streams that the parser must all accept.
LiteralRow ==
  /\ doing = "literals"
  /\ IF job.literals /\ ~Decoded(batch) THEN Exit(1) /\ UNCHANGED rows
     ELSE /\ rows' = IF job.literals THEN Append(rows, [row |-> "literals", corpus |-> batch]) ELSE rows
          /\ GoOn("gpu") /\ UNCHANGED exit
  /\ UNCHANGED <<job, batch, walk, trip, todo, samples, numbers, Rest>>
=============================================================================
