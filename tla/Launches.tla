------------------------------ MODULE Launches ------------------------------
(***************************************************************************)
(* A launch of a decode kernel: by a batch entry point (BatchSubmit), by a *)
(* caller that shapes the grid itself, or all the launches of a run of a   *)
(* benchmark (Benches), which the device works off one after the other.    *)
(* GridStride says which threads come to which chunk; ChunkKernel what the *)
(* lanes of a wave do there, and ZstdThreads what the threads of a Zstd    *)
(* block do. Chunks do not interact, so only a launch of one whole wave    *)
(* over one chunk, and of one Zstd block over its frames, shows the loop   *)
(* body; in the others it is part of the step to the next chunk.           *)
(***************************************************************************)
EXTENDS ChunkKernel

CONSTANTS
  Widths, BlockWarps, kZstdBlockThreads, MaxBlocks, Grids, Dims, Counts, IndexLimit,
  kMaxBatchChunks, OtherWidth,
  BlockFrames, BlockFuel, DstSize, CopyLens, MoveGaps   \* of the Zstd block that is shown
VARIABLES
  shape, at, visits,
  call, pc, pending, width, status,
  place, phase, step, chunk, copy, moved, byte, frame, mem, results

gridVars == <<shape, at, visits>>
callVars == <<call, pc, pending, width, status>>
blockVars == <<place, phase, step, chunk, copy, moved, byte, frame, mem, results>>
launchVars == <<vars, gridVars, callVars, blockVars>>

Grid == INSTANCE GridStride
Submit == INSTANCE BatchSubmit
Block == INSTANCE ZstdThreads WITH at <- place, ChunkCount <- BlockFrames, Fuel <- BlockFuel

ASSUME LaunchAssumption ==
  Grid!GeometryConstants /\ Submit!SubmitConstants /\ Block!ThreadsConstants /\ WaveSize \in Widths

\* The launches whose loop body is shown.
ShownWave == shape = [kernel |-> "chunk", width |-> WaveSize, blocks |-> 1, dim |-> WaveSize, count |-> 1]
ShownBlock == shape = [kernel |-> "zstd", width |-> WaveSize, blocks |-> 1,
                       dim |-> kZstdBlockThreads, count |-> BlockFrames]
BlockLeft == \A t \in Block!Threads : place[t] = "exit"
Inside == (ShownWave /\ ~Left) \/ (ShownBlock /\ ~BlockLeft)

LaunchInit == Init /\ Grid!Init /\ Submit!Init /\ Block!Init

DirectLaunch ==
  /\ pc = "idle" /\ pc' = "direct"
  /\ \E s \in Grid!Shapes : Grid!Launch(s)
  /\ UNCHANGED <<call, pending, width, status, vars, blockVars>>
Submission == Submit!Next /\ UNCHANGED <<vars, blockVars>>

WaveBody(l) == ShownWave /\ ~Grid!Ended /\ Step(l) /\ UNCHANGED <<gridVars, callVars, blockVars>>
BlockBody == /\ ShownBlock /\ ~Grid!Ended
             /\ Block!Barrier \/ Block!Section
             /\ UNCHANGED <<gridVars, callVars, vars>>
ThreadBody(t) == ShownBlock /\ ~Grid!Ended /\ Block!Act(t) /\ UNCHANGED <<gridVars, callVars, vars>>
NextChunk == ~Inside /\ Grid!Pass /\ UNCHANGED <<callVars, vars, blockVars>>
Returned == Grid!Ended /\ pc \in {"direct", "returned"} /\ UNCHANGED launchVars

LaunchNext ==
  \/ DirectLaunch \/ Submission \/ NextChunk \/ Returned
  \/ \E l \in Lanes : WaveBody(l)
  \/ BlockBody \/ \E t \in Block!Threads : ThreadBody(t)
LaunchSpec ==
  /\ LaunchInit /\ [][LaunchNext]_launchVars
  /\ WF_launchVars(NextChunk) /\ \A l \in Lanes : WF_launchVars(WaveBody(l))
  /\ WF_launchVars(BlockBody) /\ \A t \in Block!Threads : WF_launchVars(ThreadBody(t))

-----------------------------------------------------------------------------
(* The benchmarks over the same grid. *)

CONSTANTS
  kCudaWaveSize, Jobs, Batches, Residents, MaxFaults,
  SelfcheckWarmup, SelfcheckRuns, kLevelCount, kForcedFamilyCount,
  kTailwasteGridMultiples, StepShare, ZstdCells
VARIABLES
  job, batch, doing, trip, todo, queue, busy, sick, log, event, context, samples,
  numbers, walk, rows, exit, faults

Bench == INSTANCE Benches
\* What a harness may be asked for. The kernel is the format's, the mode is what its main
\* makes of the options.
JobRecords ==
  [bench : {"lz4", "snappy", "gdeflate", "zstd"}, kernel : Grid!Kernels, mode : {""},
   malformed : BOOLEAN, generated : SUBSET STRING, shapes : SUBSET {"whole", "chunked"},
   files : BOOLEAN, warmup : Nat, runs : Nat \ {0}, counts_given : BOOLEAN, gpu : BOOLEAN,
   context : BOOLEAN, frame : BOOLEAN, literals : BOOLEAN, selfcheck : BOOLEAN]
GDeflateFlags == {"assetlike", "blocktypes", "blockmix", "worstrounds", "worstheaders", "tailwaste"}
ASSUME BenchAssumption ==
  /\ kCudaWaveSize \in Widths /\ {kLevelCount, kForcedFamilyCount, StepShare, ZstdCells} \subseteq Nat \ {0}
  /\ Residents \subseteq Nat /\ {MaxFaults, SelfcheckWarmup} \subseteq Nat /\ SelfcheckRuns \in Nat \ {0}
  /\ kTailwasteGridMultiples \in Seq(Nat)
  /\ Jobs \subseteq JobRecords
  /\ \A j \in Jobs : /\ j.bench \in {"lz4", "snappy"} => j.kernel = "chunk"
                     /\ j.bench = "gdeflate" => j.kernel = "gdeflate" /\ j.generated \subseteq GDeflateFlags
  /\ \A b \in Batches :
       /\ b.chunks \in Seq([round_trips : BOOLEAN, parses : BOOLEAN,
                            device : {"whole", "short", "refused"}])
       /\ b.rungs \in Seq([blocks : Nat, decodes : {"same", "other"}]) \ {<<>>}
\* The grids a benchmark chooses have fewer threads than the index counts.
ASSUME GridAssumption ==
  /\ MaxBlocks * (kCudaWaveSize * BlockWarps) <= IndexLimit
  /\ \A r \in Residents : \A i \in DOMAIN kTailwasteGridMultiples :
       (kTailwasteGridMultiples[i] * r) * (kCudaWaveSize * BlockWarps) <= IndexLimit
benchVars == <<job, batch, doing, trip, todo, queue, busy, sick, log, event, context,
               samples, numbers, walk, rows, exit, faults>>

LaunchesInit == LaunchInit /\ Bench!Init
\* The benchmarks have the device to themselves.
BenchBegin == pc = "idle" /\ pc' = "bench" /\ Bench!Begin
              /\ UNCHANGED <<call, pending, width, status, vars, blockVars>>
BenchStep == Bench!Next /\ UNCHANGED <<callVars, vars, blockVars>>
BenchOver == Bench!Over /\ UNCHANGED <<launchVars, benchVars>>

LaunchesNext ==
  \/ LaunchNext /\ UNCHANGED benchVars
  \/ BenchBegin \/ BenchStep \/ BenchOver
LaunchesVars == <<launchVars, benchVars>>
LaunchesSpec ==
  /\ LaunchesInit /\ [][LaunchesNext]_LaunchesVars
  /\ WF_LaunchesVars(NextChunk /\ UNCHANGED benchVars)
  /\ \A l \in Lanes : WF_LaunchesVars(WaveBody(l) /\ UNCHANGED benchVars)
  /\ WF_LaunchesVars(BlockBody /\ UNCHANGED benchVars)
  /\ \A t \in Block!Threads : WF_LaunchesVars(ThreadBody(t) /\ UNCHANGED benchVars)

-----------------------------------------------------------------------------
(* Properties. *)

\* A chunk is decoded by whole waves or not at all, so no slice of a destination
\* is written by nobody while the rest is, even when the index wraps; below the
\* index limit every admitted grid, the shipped ones among them, takes every chunk
\* exactly once (the comment on the geometry guards), with a table set of its own for
\* every team. And an entry point that answers OK has launched such a grid over the
\* whole batch; with any other answer it has launched none.
EachChunkOnce == Grid!EachChunkOnce /\ Submit!AnswerIsLaunch

\* All threads of a Zstd block meet at the same barriers.
BlockNeverSplits == Block!BlockNeverSplits
\* A copy by the threads of a Zstd block is what one thread would have made.
CopyComplete == Block!CopyComplete

\* No geometry spins; a chunk's wave ends with a record and every lane out of the
\* loop, and a Zstd block with an answer for each frame and every thread out: none
\* waits at a barrier the others have left.
LaunchEnds ==
  shape # Grid!NoLaunch ~>
    /\ Grid!Ended
    /\ ShownWave => Left /\ record # <<>>
    /\ ShownBlock => BlockLeft /\ Len(results) = BlockFrames

\* No number is printed that does not mean what its row says, and the exit code says
\* how much of what was asked for was printed (the harnesses' comments on honest
\* numbers), whichever call, kernel or corpus fails, over whichever grids.
ReportIsHonest == Bench!RowsAreMeasured /\ Bench!ExitTellsTruth
=============================================================================
