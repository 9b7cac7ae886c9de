----------------------------- MODULE BenchStreams ----------------------------
(***************************************************************************)
(* The mains of three of the benchmarks. LZ4 (bench/bench_lz4.cpp): a      *)
(* corpus that is built or read, compressed and verified, the CPU rows,    *)
(* then the rows the options ask for, each taken by BenchTiming; or the    *)
(* frame sweep. Snappy (bench/bench_snappy.cpp): one constructed worst     *)
(* case, or the same source in one or both shapes, a stream for each file  *)
(* and a stream for each chunk; in a selfcheck each shape's digest is      *)
(* looked at after its rows, and one that has drifted ends the run there.  *)
(* Zstd (bench/bench_zstd.cpp): the oracle alone, over a grid of frame     *)
(* sizes and levels whose drifted cells are all named before the run       *)
(* fails; the census of literals over the same grid; the coverage of the   *)
(* forced modes; or the constructed worst case. The guards of the harness  *)
(* itself are tried last, after the rows are printed.                      *)
(* The corpus is what its chunks really are: whether the oracle decodes a  *)
(* chunk to its original, the parser accepts it, the device decodes it.    *)
(***************************************************************************)
EXTENDS BenchTiming

CONSTANT ZstdCells   \* frame sizes times levels

(* LZ4. *)

Refused ==
  \/ job.malformed \/ Cardinality(job.generated) > 1
  \/ job.frame /\ (Generated \/ job.gpu \/ job.context)
  \/ job.frame /\ ~job.files /\ ~job.selfcheck
  \/ ~job.frame /\ Generated /\ job.files
Options ==
  /\ doing = "options" /\ job.bench = "lz4"
  /\ IF Refused THEN Exit(2) /\ UNCHANGED job ELSE Accept
  /\ UNCHANGED <<batch, walk, rows, trip, todo, samples, numbers, Rest>>

\* A generated corpus must decode and have the shape it is named for; a file must
\* open, read to its end and add something; nothing is larger than the scratch buffer.
Built(b) ==
  /\ Generated => RoundTrips(b) /\ b.in_shape
  /\ job.files => b.readable
  /\ b.chunks # <<>> /\ (job.frame \/ b.chunks_fit)
Build ==
  /\ doing = "build" /\ job.bench = "lz4"
  /\ \E b \in Batches : batch' = b /\ ExitUnless(Built(b), IF job.frame THEN "rung" ELSE "verify")
  /\ UNCHANGED <<job, walk, rows, trip, todo, samples, numbers, Rest>>

\* Every chunk is decoded by the oracle and compared, generated or not.
Verified == RoundTrips(batch)
Verify ==
  /\ doing = "verify" /\ ExitUnless(Verified, "cpu_warmup") /\ Quiet
CpuWarmUp == job.bench = "lz4" /\ WarmUpLoop("cpu_warmup", "cpu_run")
CpuRun == job.bench = "lz4" /\ TimedLoop("cpu_run", "report")
Report == job.bench = "lz4" /\ ReportRow("report", "cpu", "literals")
Literals == job.bench = "lz4" /\ LiteralRow

Gpu == job.bench = "lz4" /\ Measure("gpu", job.gpu, BatchSeries, "upload", "context")
Context == Measure("context", job.context, ContextSeries, "context_verify", "finish")
PrintRows == job.bench = "lz4" /\ PrintNumbers(IF Head(numbers).row = "full" THEN "context" ELSE "finish")
Finish == doing = "finish" /\ job.bench = "lz4" /\ Exit(0) /\ Quiet

-----------------------------------------------------------------------------
(* The frame sweep: the public frame entry on the same bytes at each rung. *)

Rungs == Len(batch.rungs)
Rung == batch.rungs[Len(rows) + 1]
NextRung ==
  /\ doing = "rung"
  /\ IF Len(rows) = Rungs THEN GoOn("finish") /\ UNCHANGED exit
     ELSE ExitUnless(Rung.blocks > 0, "frame_verify")
  /\ Quiet
FrameVerify ==
  /\ doing = "frame_verify" /\ ExitUnless(Rung.decodes = "same", "frame_warmup") /\ Quiet
FrameWarmUp == WarmUpLoop("frame_warmup", "frame_run")
FrameRun == TimedLoop("frame_run", "frame_report")
FrameReport == ReportRow("frame_report", "frame", "rung")

Lz4Main ==
  \/ Options \/ Build \/ Verify \/ CpuWarmUp \/ CpuRun \/ Report \/ Literals
  \/ Gpu \/ Context \/ PrintRows \/ Finish
  \/ NextRung \/ FrameVerify \/ FrameWarmUp \/ FrameRun \/ FrameReport

-----------------------------------------------------------------------------
(* Snappy. *)

Shapes == IF job.shapes = {} THEN {"whole", "chunked"} ELSE job.shapes
SnappyCorpora == IF Generated THEN 1 ELSE Cardinality(Shapes)
SnappyRefused ==
  \/ job.malformed
  \/ job.gpu /\ job.selfcheck
  \/ Cardinality(job.generated) > 1
  \/ Generated /\ (job.files \/ job.shapes # {})
  \/ ~Generated /\ ~job.files /\ ~job.selfcheck
SnappyOptions ==
  /\ doing = "options" /\ job.bench = "snappy"
  /\ IF SnappyRefused THEN Exit(2) /\ UNCHANGED job ELSE Accept
  /\ UNCHANGED <<batch, walk, rows, trip, todo, samples, numbers, Rest>>

\* A constructed corpus must have the density it is named for; a file must open,
\* read to its end and add something. A selfcheck takes its own source over the files.
ShapeBuilt(b) ==
  /\ Generated => b.in_shape
  /\ ~Generated /\ ~job.selfcheck => b.readable
\* The corpus is not empty and every stream decodes to its original.
ShapeVerified(b) == b.chunks # <<>> /\ RoundTrips(b)
SnappyBuild ==
  /\ doing = "build" /\ job.bench = "snappy"
  /\ \E b \in Batches : batch' = b /\ ExitUnless(ShapeBuilt(b) /\ ShapeVerified(b), "cpu_warmup")
  /\ UNCHANGED <<job, walk, rows, trip, todo, samples, numbers, Rest>>

StreamWarmUp == job.bench = "snappy" /\ WarmUpLoop("cpu_warmup", "cpu_run")
StreamRun == job.bench = "snappy" /\ TimedLoop("cpu_run", "report")
StreamReport == job.bench = "snappy" /\ ReportRow("report", "cpu", "literals")
StreamLiterals == job.bench = "snappy" /\ LiteralRow
StreamGpu == job.bench = "snappy" /\ Measure("gpu", job.gpu, BatchSeries, "upload", "digest")
StreamPrint == job.bench = "snappy" /\ PrintNumbers("digest")

CheckDigest ==
  /\ doing = "digest"
  /\ walk' = [walk EXCEPT !.at = @ + 1]
  /\ ExitUnless(job.selfcheck /\ ~Generated => batch.pinned,
                IF walk.at + 1 < SnappyCorpora THEN "build" ELSE "finish")
  /\ UNCHANGED <<job, batch, rows, trip, todo, samples, numbers, Rest>>
SnappyFinish == doing = "finish" /\ job.bench = "snappy" /\ Exit(0) /\ Quiet

SnappyMain ==
  \/ SnappyOptions \/ SnappyBuild \/ StreamWarmUp \/ StreamRun \/ StreamReport
  \/ StreamLiterals \/ StreamGpu \/ StreamPrint \/ CheckDigest \/ SnappyFinish

-----------------------------------------------------------------------------
(* Zstd. *)

Counted == job.literals \/ "coverage" \in job.generated
ZstdCorpora == IF Generated THEN 1 ELSE ZstdCells
ZstdRefused ==
  \/ job.malformed
  \/ Cardinality(job.generated) > 1 \/ (job.literals /\ Generated)
  \/ job.literals /\ job.counts_given
  \/ Generated /\ job.files
  \/ ~Generated /\ ~job.files /\ ~job.selfcheck
\* A selfcheck takes its own source over the files; without, each must open.
ZstdOptions ==
  /\ doing = "options" /\ job.bench = "zstd"
  /\ IF ZstdRefused THEN Exit(2) /\ UNCHANGED job
     ELSE /\ job' = IF job.selfcheck THEN [job EXCEPT !.warmup = 0, !.runs = 1] ELSE job
          /\ \E readable \in IF Generated \/ job.selfcheck THEN {TRUE} ELSE BOOLEAN :
               ExitUnless(readable, "build")
  /\ UNCHANGED <<batch, walk, rows, trip, todo, samples, numbers, Rest>>

\* The frames, decoded and put together, are the source.
Reconstructs(b) == b.chunks # <<>> /\ RoundTrips(b)
\* The headers of every frame are walked to its end before they are counted.
Accounted(b) == Decoded(b)
\* A built corpus must have the shape asked of it as well.
ZstdAdmitted(b) == Reconstructs(b) /\ (Counted => Accounted(b)) /\ (Generated => b.in_shape)
ZstdBuild ==
  /\ doing = "build" /\ job.bench = "zstd"
  /\ \E b \in Batches :
       batch' = b /\ ExitUnless(ZstdAdmitted(b), IF Counted THEN "count" ELSE "cpu_warmup")
  /\ UNCHANGED <<job, walk, rows, trip, todo, samples, numbers, Rest>>

FramesWarmUp == job.bench = "zstd" /\ WarmUpLoop("cpu_warmup", "cpu_run")
FramesRun == job.bench = "zstd" /\ TimedLoop("cpu_run", "report")
FramesReport == job.bench = "zstd" /\ ReportRow("report", "cpu", "cell")
CountReport ==
  /\ doing = "count" /\ GoOn("cell")
  /\ rows' = Append(rows, [row |-> IF job.literals THEN "literals" ELSE "coverage", corpus |-> batch])
  /\ UNCHANGED <<job, batch, walk, exit, trip, todo, samples, numbers, Rest>>

NextCell ==
  /\ doing = "cell"
  /\ walk' = [walk EXCEPT !.at = @ + 1,
                          !.drifted = @ \/ (job.selfcheck /\ ~Generated /\ ~batch.pinned)]
  /\ GoOn(IF walk.at + 1 < ZstdCorpora THEN "build" ELSE "finish")
  /\ UNCHANGED <<job, batch, rows, exit, trip, todo, samples, numbers, Rest>>
\* The refusals that no corpus of the mode trips still bite on the forced modes.
Guards == job.selfcheck /\ (job.literals \/ "worst" \in job.generated)
ZstdFinish ==
  /\ doing = "finish" /\ job.bench = "zstd"
  /\ Exit(IF walk.drifted \/ (Guards /\ ~batch.guards_bite) THEN 1 ELSE 0) /\ Quiet

ZstdMain ==
  \/ ZstdOptions \/ ZstdBuild \/ FramesWarmUp \/ FramesRun \/ FramesReport
  \/ CountReport \/ NextCell \/ ZstdFinish
=============================================================================
