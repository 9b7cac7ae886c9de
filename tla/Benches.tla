------------------------------- MODULE Benches -------------------------------
(***************************************************************************)
(* The GDeflate benchmark's main (bench/bench_gdeflate.cpp), a run of one  *)
(* of the four harnesses, and what its report may claim.                   *)
(*                                                                         *)
(* A GDeflate run is of one mode: the levels, the forced block types, the  *)
(* census of blocks, one of the two worst-case corpora, or the sweep over  *)
(* the grid. A mode is a walk over corpora, each built and held against    *)
(* the gates of the mode before anything is timed or printed. A digest     *)
(* that has drifted fails the run, but the levels behind it are still      *)
(* walked.                                                                 *)
(***************************************************************************)
EXTENDS BenchStreams

CONSTANTS kLevelCount, kForcedFamilyCount, kTailwasteGridMultiples, StepShare

Worst == job.mode \in {"worstrounds", "worstheaders"}
Corpora == CASE job.mode \in {"levels", "blockmix"} -> kLevelCount
             [] job.mode = "blocktypes" -> kForcedFamilyCount
             [] OTHER -> 1
\* The flags that name a mode, and what each goes with.
Modes == job.generated \ {"assetlike"}
GDeflateRefused ==
  \/ job.malformed
  \/ "assetlike" \in job.generated /\ job.files
  \/ "blocktypes" \in Modes /\ ("assetlike" \in job.generated \/ job.files)
  \/ /\ Modes \cap {"worstrounds", "worstheaders"} # {}
     /\ Cardinality(job.generated \ {"tailwaste"}) > 1 \/ job.files
  \/ {"blockmix", "blocktypes"} \subseteq Modes
  \/ job.gpu /\ (job.selfcheck \/ "blockmix" \in Modes)
  \/ "tailwaste" \in Modes /\ Cardinality(Modes) > 1
ModeOf == IF Modes = {} THEN "levels" ELSE CHOOSE m \in Modes : TRUE
NeedsFiles == Modes \cap {"blocktypes", "worstrounds", "worstheaders"} = {}
              /\ "assetlike" \notin job.generated /\ ~job.selfcheck
GDeflateOptions ==
  /\ doing = "options" /\ job.bench = "gdeflate"
  /\ IF GDeflateRefused \/ (NeedsFiles /\ ~job.files) THEN Exit(2) /\ UNCHANGED job
     ELSE /\ job' = [job EXCEPT !.mode = ModeOf, !.warmup = IF job.selfcheck THEN 0 ELSE @,
                                !.runs = IF job.selfcheck THEN 1 ELSE @]
          /\ \E readable \in IF NeedsFiles THEN BOOLEAN ELSE {TRUE} : ExitUnless(readable, "build")
  /\ UNCHANGED <<batch, walk, rows, trip, todo, samples, numbers, Rest>>

\* What a corpus must be before it is timed. The shape is the block type of every
\* page, or the blocks of a page and its refills; the census needs only the decode.
Admitted(b) ==
  /\ b.chunks # <<>> /\ RoundTrips(b)
  /\ Worst \/ job.mode = "blocktypes" => b.in_shape
  /\ Worst \/ job.mode = "blockmix" => Decoded(b)
  /\ Worst \/ (job.mode = "tailwaste" /\ job.selfcheck) => b.pinned
GDeflateBuild ==
  /\ doing = "build" /\ job.bench = "gdeflate"
  /\ \E b \in Batches :
       /\ batch' = b
       /\ ExitUnless(Admitted(b), CASE job.mode = "blockmix" -> "census"
                                    [] job.mode = "tailwaste" -> "residency"
                                    [] OTHER -> "cpu_warmup")
  /\ UNCHANGED <<job, walk, rows, trip, todo, samples, numbers, Rest>>

PageWarmUp == job.bench = "gdeflate" /\ WarmUpLoop("cpu_warmup", "cpu_run")
PageRun == job.bench = "gdeflate" /\ TimedLoop("cpu_run", "report")
PageReport == job.bench = "gdeflate" /\ ReportRow("report", "cpu", "gpu")
PageGpu == job.bench = "gdeflate" /\ Measure("gpu", job.gpu, BatchSeries, "upload", "judge")
PagePrint == job.bench = "gdeflate"
             /\ PrintNumbers(IF job.mode = "tailwaste" THEN "finish" ELSE "judge")

\* The digest is judged after the rows, and the walk goes on.
Drift(b) ==
  /\ job.selfcheck
  /\ ~b.pinned \/ (job.mode = "blockmix" /\ walk.at = 0 /\ ~b.in_shape)
NextCorpus ==
  /\ walk' = [walk EXCEPT !.at = @ + 1, !.drifted = @ \/ Drift(batch)]
  /\ GoOn(IF walk.at + 1 < Corpora THEN "build" ELSE "finish")
Judge ==
  /\ doing = "judge" /\ NextCorpus
  /\ UNCHANGED <<job, batch, rows, exit, trip, todo, samples, numbers, Rest>>
Census ==
  /\ doing = "census" /\ NextCorpus /\ rows' = Append(rows, [row |-> "mix", corpus |-> batch])
  /\ UNCHANGED <<job, batch, exit, trip, todo, samples, numbers, Rest>>

\* Both sweeps in one call: the whole batch on grids of a multiple of what the device
\* holds, 0 naming the shipped one; then fewer pages, each on its shipped grid.
SweepPoints(resident) ==
  LET share == (resident * BlockWarps) \div StepShare
      step == IF share \in 1..Pages THEN share ELSE Pages
  IN  [i \in DOMAIN kTailwasteGridMultiples |->
         [pages |-> Pages, blocks |-> kTailwasteGridMultiples[i] * resident]]
      \o [i \in 1..(Pages \div step) |-> [pages |-> i * step, blocks |-> 0]]
Residency ==
  /\ doing = "residency" /\ numbers' = <<>> /\ GoOn("upload")
  /\ \E resident \in Residents :
       /\ walk' = [walk EXCEPT !.points = SweepPoints(resident)]
       /\ todo' = SweepSeries(SweepPoints(resident))
  /\ UNCHANGED <<job, batch, rows, exit, trip, samples, Rest>>

GDeflateFinish ==
  /\ doing = "finish" /\ job.bench = "gdeflate" /\ Exit(IF walk.drifted THEN 1 ELSE 0) /\ Quiet

GDeflateMain ==
  \/ GDeflateOptions \/ GDeflateBuild \/ PageWarmUp \/ PageRun \/ PageReport \/ PageGpu
  \/ PagePrint \/ Judge \/ Census \/ Residency \/ GDeflateFinish

-----------------------------------------------------------------------------
\* A run of one harness.
Begin ==
  /\ doing = "idle" /\ job' \in Jobs /\ GoOn("options")
  /\ UNCHANGED <<batch, walk, rows, exit, trip, todo, samples, numbers, Rest>>
Next ==
  \/ Lz4Main \/ SnappyMain \/ GDeflateMain \/ ZstdMain \/ Failed
  \/ KernelTiming \/ ContextTiming \/ CallFails \/ Device
Over == doing = "exited" /\ (Drained \/ sick)

-----------------------------------------------------------------------------
(* Properties. *)

\* What a sample of a row may have happened in.
OneRun(row, sample) ==
  CASE row \in {"cpu", "frame", "device_steady", "host_steady"} -> sample = <<"decode">>
    [] row \in {"device_cold", "host_cold"} -> sample = <<"grow", "decode">>
    [] row \in {"full", "parse_only", "grid"} ->
         Len(sample) = 1 /\ sample[1].row = row /\ sample[1].once
OnDevice == {"full", "parse_only", "grid", "device_steady", "host_steady", "device_cold", "host_cold"}

\* No number is printed that does not mean what its row says: every sample was
\* taken over exactly one decode of every page of the row - no warm-up, no growth of
\* the staging but in the cold rows, no empty launch - and the corpus is one that the
\* row's decoder decodes, of the shape its name claims (UploadAndVerify,
\* "the numbers are meaningless" otherwise).
RowsAreMeasured ==
  \A i \in DOMAIN rows :
    LET r == rows[i] IN
    /\ IF r.row \in {"literals", "mix", "coverage"} THEN Decoded(r.corpus)
       ELSE /\ Len(r.samples) = job.runs
            /\ \A k \in DOMAIN r.samples : OneRun(r.row, r.samples[k])
    /\ r.row = "grid" => \A k \in DOMAIN r.samples :
                           r.samples[k][1].pages = walk.points[i].pages
    /\ IF r.row = "frame" THEN r.corpus.rungs[i].decodes = "same"
       ELSE RoundTrips(r.corpus) /\ r.corpus.chunks # <<>>
    /\ (job.bench # "gdeflate" /\ Generated) \/ job.mode \in {"blocktypes", "worstrounds", "worstheaders"}
         => r.corpus.in_shape
    /\ r.row \in OnDevice =>
         \A c \in DOMAIN r.corpus.chunks : r.corpus.chunks[c].device = "whole"

IfAsked(asked, names) == IF asked THEN names ELSE <<>>
Repeated(n, each) == [i \in 1..(n * Len(each)) |-> each[1 + ((i - 1) % Len(each))]]
Wanted ==
  CASE job.bench = "lz4" ->
         IF job.frame THEN [i \in 1..Rungs |-> "frame"]
         ELSE <<"cpu">> \o IfAsked(job.literals, <<"literals">>)
              \o IfAsked(job.gpu, <<"full", "parse_only">>)
              \o IfAsked(job.context, [i \in DOMAIN ContextSeries |-> ContextSeries[i].row])
    [] job.bench = "snappy" ->
         Repeated(SnappyCorpora, <<"cpu">> \o IfAsked(job.literals, <<"literals">>)
                                 \o IfAsked(job.gpu, <<"full", "parse_only">>))
    [] job.bench = "zstd" ->
         Repeated(ZstdCorpora, <<IF job.literals THEN "literals"
                                 ELSE IF "coverage" \in job.generated THEN "coverage" ELSE "cpu">>)
    [] job.mode = "tailwaste" -> [i \in DOMAIN walk.points |-> "grid"]
    [] OTHER ->
         Repeated(Corpora, IF job.mode = "blockmix" THEN <<"mix">>
                           ELSE <<"cpu">> \o IfAsked(job.gpu, <<"full">>))
\* The exit code tells what the report is worth: 0 with every row that was asked for
\* and, in a selfcheck, every corpus the pinned one and every guard alive; 1 with some
\* missing, drifted or dead; 2 with none. No context outlives its timing, whichever call failed.
ExitTellsTruth ==
  exit # -1 =>
    /\ context = "none"
    /\ exit = 2 => rows = <<>>
    /\ exit # 2 =>
         LET printed == [i \in DOMAIN rows |-> rows[i].row]
             pinned == job.selfcheck /\ (job.bench = "gdeflate"
                                         \/ (job.bench \in {"snappy", "zstd"} /\ ~Generated))
                         => \A i \in DOMAIN rows : rows[i].corpus.pinned
             sound == pinned /\ (job.bench = "zstd" /\ Guards => batch.guards_bite)
         IN  /\ Len(printed) <= Len(Wanted) /\ printed = SubSeq(Wanted, 1, Len(printed))
             /\ exit = 0 => printed = Wanted /\ Wanted # <<>> /\ sound
             /\ exit = 1 => printed # Wanted \/ Wanted = <<>> \/ ~sound \/ job.mode = "blockmix"
=============================================================================
