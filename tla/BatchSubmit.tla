---------------------------- MODULE BatchSubmit -----------------------------
(***************************************************************************)
(* submit_batch (src/batch.cu), behind the four batch entry points: from   *)
(* the arguments to a launch of the entry's kernel at the width the device *)
(* reports, and the answer. The runtime keeps one pending error for the    *)
(* thread; reading it clears it.                                           *)
(***************************************************************************)
EXTENDS Integers, FiniteSets

CONSTANTS
  Widths, BlockWarps, kZstdBlockThreads, MaxBlocks, Grids, Dims, Counts, IndexLimit,
  kMaxBatchChunks,   \* the ABI's ceiling on a batch
  OtherWidth         \* a width no kernel is emitted for

SubmitConstants ==
  /\ kMaxBatchChunks \in Nat /\ OtherWidth \in Nat \ Widths

VARIABLES
  shape, at, visits,   \* the grid (GridStride)
  call,                \* the entry's kernel and its arguments
  pc, pending,         \* place in submit_batch; an error is pending on the thread
  width,               \* reported_width
  status               \* the answer

gridVars == <<shape, at, visits>>
callVars == <<call, pc, pending, width, status>>

Grid == INSTANCE GridStride

\* An entry is called with or without its arrays, on a thread that may have an
\* error pending from earlier work.
Calls == [kernel : Grid!Kernels, arrays : BOOLEAN, count : Counts \cup {0}]
NoCall == [kernel |-> "chunk", arrays |-> FALSE, count |-> 0]
Init == call = NoCall /\ pc = "idle" /\ pending = "none" /\ width = 0 /\ status = "none"

Enter ==
  /\ pc = "idle" /\ pc' = "validate"
  /\ call' \in Calls /\ pending' \in {"none", "earlier"}
  /\ UNCHANGED <<width, status, gridVars>>

Answer(s) == pc' = "returned" /\ status' = s

ValidArgs == call.arrays /\ call.count # 0 /\ call.count <= kMaxBatchChunks
Validate ==
  /\ pc = "validate"
  /\ IF ValidArgs THEN pc' = "drain" /\ UNCHANGED status ELSE Answer("INVALID_ARGUMENT")
  /\ UNCHANGED <<call, pending, width, gridVars>>

Drain ==
  /\ pc = "drain" /\ pc' = "query" /\ pending' = "none"
  /\ UNCHANGED <<call, width, status, gridVars>>

\* The runtime answers, or fails and leaves its own error.
QueryWidth ==
  /\ pc = "query"
  /\ \/ /\ width' \in Widths \cup {OtherWidth} /\ pc' = "launch"
        /\ UNCHANGED <<pending, status>>
     \/ Answer("CUDA") /\ pending' = "own" /\ UNCHANGED width
  /\ UNCHANGED <<call, gridVars>>

\* The launch is accepted, or refused with an error that is read next; a width
\* no kernel is emitted for is refused before it.
Launch ==
  /\ pc = "launch"
  /\ \/ /\ width \in Widths /\ pc' = "check"
        /\ \/ Grid!Launch(Grid!Shipped(call.kernel, width, call.count)) /\ UNCHANGED pending
           \/ pending' = "own" /\ UNCHANGED gridVars
        /\ UNCHANGED status
     \/ width \notin Widths /\ Answer("UNSUPPORTED") /\ UNCHANGED <<pending, gridVars>>
  /\ UNCHANGED <<call, width>>

Check ==
  /\ pc = "check" /\ Answer(IF pending = "none" THEN "OK" ELSE "CUDA") /\ pending' = "none"
  /\ UNCHANGED <<call, width, gridVars>>

Next == Enter \/ Validate \/ Drain \/ QueryWidth \/ Launch \/ Check

-----------------------------------------------------------------------------
\* OK means the kernel has its grid, one the kernel decodes, of the batch asked for;
\* no other answer means a grid was left running, and an error that was pending before
\* the call is never reported as this submission's (batch.cu:97).
AnswerIsLaunch ==
  pc = "returned" =>
    /\ status = "OK" => /\ ~Grid!Refuses(shape) /\ shape.width = width
                        /\ shape.kernel = call.kernel /\ shape.count = call.count
    /\ status # "OK" => shape = Grid!NoLaunch
=============================================================================
