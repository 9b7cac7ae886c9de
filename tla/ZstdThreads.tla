---------------------------- MODULE ZstdThreads ----------------------------
(***************************************************************************)
(* The threads of a Zstd thread block (src/zstd_decode.cuh). Thread 0      *)
(* decodes, in sections between two barriers; the others follow the flags  *)
(* it leaves in shared memory, each reading them in its own time, and join *)
(* the copies. A barrier releases whoever waits once every thread still    *)
(* running waits at some barrier: nothing checks that it is the same one.  *)
(* What a section decides is ZstdFrame's; here it is any outcome it has.   *)
(***************************************************************************)
EXTENDS Integers, FiniteSets, SequencesExt

CONSTANTS
  kZstdBlockThreads,
  ChunkCount,   \* frames of this thread block
  Fuel,         \* block headers a frame can hold, plus one
  DstSize,      \* bytes of destination a copy may touch
  CopyLens,     \* lengths of a copy
  MoveGaps      \* how far a leftover moves down

ThreadsConstants ==
  /\ {kZstdBlockThreads, ChunkCount, Fuel} \subseteq Nat \ {0}
  /\ DstSize \in Nat /\ CopyLens \subseteq 0..DstSize /\ MoveGaps \subseteq Nat

Threads == 0..kZstdBlockThreads - 1

VARIABLES
  at, phase,   \* where each thread is
  step,        \* each thread's block loop counter
  chunk,       \* each thread's chunk
  copy,        \* each thread's arguments of the copy, read at its start
  moved,       \* each thread's steps of the move done
  byte,        \* each thread's register
  frame,       \* shared: status, compressed, last_block and the copy to make
  mem,         \* the destination
  results      \* one per chunk, in order

threadVars == <<at, phase, step, chunk>>
copying == <<copy, moved, byte>>
vars == <<threadVars, copying, frame, mem, results>>

NoCopy == [dst |-> 0, src |-> 0, count |-> 0, rle |-> FALSE]
Unwritten == -1
\* Byte i of the compressed frame's copy source; the destination's byte a,
\* as decoding left it, is a itself.
SourceByte(i, rle) == DstSize + IF rle THEN 0 ELSE i

Init ==
  /\ at = [t \in Threads |-> "setup"] /\ phase = [t \in Threads |-> "before"]
  /\ step = [t \in Threads |-> 0] /\ chunk = [t \in Threads |-> 1]
  /\ copy = [t \in Threads |-> NoCopy] /\ moved = [t \in Threads |-> 0]
  /\ byte = [t \in Threads |-> Unwritten]
  /\ frame = [status |-> "OK", compressed |-> FALSE, last_block |-> FALSE, copy |-> NoCopy]
  /\ mem = [a \in 0..DstSize - 1 |-> Unwritten]
  /\ results = <<>>

-----------------------------------------------------------------------------
(* Barriers: before and after a section, and two in each step of a move.   *)

Waiting == {"before", "after", "mid", "end"}
PastBarrier(t) == IF t = 0 THEN "in" ELSE "after"
\* Mutant: a section without the barrier before it.
EnterDecodeAtOnce(section, t) == IF section = "decode" THEN PastBarrier(t) ELSE "before"
Enter(section, t) == "before"

Released(t) == CASE phase[t] = "before" -> PastBarrier(t)
                 [] phase[t] = "after" -> "out"
                 [] phase[t] = "mid" -> "write"
                 [] phase[t] = "end" -> "read"
                 [] OTHER -> phase[t]

Barrier ==
  /\ \E t \in Threads : at[t] # "exit"
  /\ \A t \in Threads : at[t] = "exit" \/ phase[t] \in Waiting
  /\ phase' = [t \in Threads |-> Released(t)]
  /\ UNCHANGED <<at, step, chunk, copying, frame, mem, results>>

GoTo(t, place, p) == at' = [at EXCEPT ![t] = place] /\ phase' = [phase EXCEPT ![t] = p]
ToSection(t, section) == GoTo(t, section, Enter(section, t))

-----------------------------------------------------------------------------
(* Thread 0's sections. *)

In(section) == at[0] = section /\ phase[0] = "in" /\ phase' = [phase EXCEPT ![0] = "after"]
Frame(status, compressed, last, c) ==
  frame' = [status |-> status, compressed |-> compressed, last_block |-> last, copy |-> c]
Refused == frame' = [frame EXCEPT !.status = "CORRUPT_INPUT"]

Setup == /\ In("setup")
         /\ frame' = [frame EXCEPT !.compressed = FALSE, !.copy = NoCopy]
         /\ mem' = [a \in DOMAIN mem |-> Unwritten]
         /\ UNCHANGED results

FrameHeader == /\ In("header")
               /\ \E status \in {"OK", "CORRUPT_INPUT"} :
                    frame' = [frame EXCEPT !.status = status, !.last_block = FALSE]
               /\ UNCHANGED <<mem, results>>

\* The header of the last block a frame has room for is truncated.
BlockHeader ==
  /\ In("block")
  /\ \/ /\ step[0] + 1 < Fuel
        /\ \E last \in BOOLEAN :
             \/ Frame("OK", TRUE, last, NoCopy)
             \/ \E n \in CopyLens, rle \in BOOLEAN :
                  Frame("OK", FALSE, last, [dst |-> 0, src |-> 0, count |-> n, rle |-> rle])
     \/ \E last \in BOOLEAN : Frame("CORRUPT_INPUT", FALSE, last, NoCopy)
  /\ UNCHANGED <<mem, results>>

\* Decoding leaves the leftover literals above their place.
DecodeBlock ==
  /\ In("decode")
  /\ \/ Refused /\ UNCHANGED mem
     \/ \E gap \in MoveGaps, n \in CopyLens :
          /\ gap + n <= DstSize
          /\ frame' = [frame EXCEPT !.copy = [dst |-> 0, src |-> gap, count |-> n, rle |-> FALSE]]
          /\ mem' = [a \in DOMAIN mem |-> a]
  /\ UNCHANGED results

Advance == In("advance") /\ UNCHANGED <<frame, mem, results>>

FrameEnd == /\ In("tail")
            /\ \/ Refused
               \/ frame.last_block /\ UNCHANGED frame
            /\ UNCHANGED <<mem, results>>

Result == /\ In("result")
          /\ results' = Append(results, frame.status)
          /\ UNCHANGED <<frame, mem>>

Section ==
  /\ Setup \/ FrameHeader \/ BlockHeader \/ DecodeBlock \/ Advance \/ FrameEnd \/ Result
  /\ UNCHANGED <<at, step, chunk, copying>>

-----------------------------------------------------------------------------
(* What every thread does after a section: read the flags and follow.      *)

Out(t, section) == at[t] = section /\ phase[t] = "out"
OnStatus(t, section, then) ==
  /\ Out(t, section)
  /\ IF frame.status # "OK" THEN ToSection(t, "result") ELSE then

AfterSetup(t) == Out(t, "setup") /\ ToSection(t, "header") /\ UNCHANGED <<step, chunk>>
AfterHeader(t) ==
  /\ OnStatus(t, "header", ToSection(t, "block"))
  /\ step' = [step EXCEPT ![t] = 0] /\ UNCHANGED chunk
\* The status is read, then the flag.
AfterBlock(t) ==
  /\ OnStatus(t, "block", GoTo(t, "block", "branch"))
  /\ UNCHANGED <<step, chunk>>
BranchOnCompressed(t) ==
  /\ at[t] = "block" /\ phase[t] = "branch"
  /\ IF frame.compressed THEN ToSection(t, "decode") ELSE GoTo(t, "fill", "start")
  /\ UNCHANGED <<step, chunk>>
AfterDecode(t) ==
  /\ OnStatus(t, "decode", GoTo(t, "move", "start"))
  /\ UNCHANGED <<step, chunk>>
AfterAdvance(t) ==
  /\ Out(t, "advance")
  /\ step' = [step EXCEPT ![t] = @ + 1]
  /\ ToSection(t, IF ~frame.last_block /\ step[t] + 1 < Fuel THEN "block" ELSE "tail")
  /\ UNCHANGED chunk
AfterTail(t) == Out(t, "tail") /\ ToSection(t, "result") /\ UNCHANGED <<step, chunk>>
AfterResult(t) ==
  /\ Out(t, "result")
  /\ chunk' = [chunk EXCEPT ![t] = @ + 1] /\ step' = [step EXCEPT ![t] = 0]
  /\ IF chunk[t] < ChunkCount THEN ToSection(t, "setup") ELSE GoTo(t, "exit", "exit")

Follow(t) ==
  /\ \/ AfterSetup(t) \/ AfterHeader(t) \/ AfterBlock(t) \/ BranchOnCompressed(t)
     \/ AfterDecode(t) \/ AfterAdvance(t) \/ AfterTail(t) \/ AfterResult(t)
  /\ UNCHANGED <<copying, frame, mem, results>>

-----------------------------------------------------------------------------
(* The copies: thread t has bytes t, t + kZstdBlockThreads, ... *)

Fill(t) ==
  /\ at[t] = "fill"
  /\ LET c == frame.copy IN
     mem' = [a \in DOMAIN mem |->
               IF a - c.dst \in {i \in 0..c.count - 1 : i % kZstdBlockThreads = t}
               THEN SourceByte(a - c.dst, c.rle) ELSE mem[a]]
  /\ ToSection(t, "advance")
  /\ UNCHANGED <<step, chunk, copying, frame, results>>

StartMove(t) ==
  /\ at[t] = "move" /\ phase[t] = "start"
  /\ copy' = [copy EXCEPT ![t] = frame.copy] /\ moved' = [moved EXCEPT ![t] = 0]
  /\ GoTo(t, "move", "read")
  /\ UNCHANGED <<step, chunk, byte, frame, mem, results>>

Index(t) == moved[t] * kZstdBlockThreads + t
MoveSteps(t) == (copy[t].count + kZstdBlockThreads - 1) \div kZstdBlockThreads
Live(t) == Index(t) < copy[t].count
\* Mutant: no barrier between reading a step's bytes and writing them.
WriteAtOnce == "write"
BetweenReadAndWrite == "mid"

MoveRead(t) ==
  /\ at[t] = "move" /\ phase[t] = "read"
  /\ IF moved[t] = MoveSteps(t)
     THEN ToSection(t, "advance") /\ UNCHANGED byte
     ELSE /\ byte' = [byte EXCEPT ![t] = IF Live(t) THEN mem[copy[t].src + Index(t)] ELSE Unwritten]
          /\ GoTo(t, "move", BetweenReadAndWrite)
  /\ UNCHANGED <<step, chunk, copy, moved, frame, mem, results>>

MoveWrite(t) ==
  /\ at[t] = "move" /\ phase[t] = "write"
  /\ mem' = IF Live(t) THEN [mem EXCEPT ![copy[t].dst + Index(t)] = byte[t]] ELSE mem
  /\ moved' = [moved EXCEPT ![t] = @ + 1] /\ byte' = [byte EXCEPT ![t] = Unwritten]
  /\ GoTo(t, "move", "end")
  /\ UNCHANGED <<step, chunk, copy, frame, results>>

Act(t) == Follow(t) \/ Fill(t) \/ StartMove(t) \/ MoveRead(t) \/ MoveWrite(t)

-----------------------------------------------------------------------------
\* Every barrier is met by all threads at one place of the program: none has
\* left on a flag another read differently (zstd_decode.cuh:47). So while thread 0
\* writes the flags and the destination no other thread reads them: all are past
\* the section.
BlockNeverSplits ==
  /\ (\A v \in Threads : at[v] = "exit" \/ phase[v] \in Waiting)
       => \A t, u \in Threads : at[t] = at[u] /\ phase[t] = phase[u] /\ chunk[t] = chunk[u]
  /\ phase[0] = "in" => \A t \in Threads \ {0} : at[t] = at[0] /\ phase[t] = "after"

\* When the walk steps past a block, the copy it asked for is complete and
\* right, overlap included.
CopyComplete ==
  at[0] = "advance" /\ phase[0] = "in" =>
    \A i \in 0..frame.copy.count - 1 :
      mem[frame.copy.dst + i] = IF frame.compressed THEN frame.copy.src + i
                                ELSE SourceByte(i, frame.copy.rle)
=============================================================================
