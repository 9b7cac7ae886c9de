------------------------------ MODULE Lz4Frame ------------------------------
(***************************************************************************)
(* cudec_lz4f_decompress (src/frame.cpp) over the envelope parse of        *)
(* src/lz4_frame.h: descriptor, block table, one device batch for the      *)
(* compressed blocks, assembly by merged asynchronous copies, tail checks. *)
(* Bytes are chosen as they are read; checksums match or do not. The       *)
(* device runs the batch and the copies behind the host's back, and every  *)
(* runtime call may fail.                                                  *)
(***************************************************************************)
EXTENDS Integers, Sequences, FiniteSets

CONSTANTS
  FrameSizes,    \* sizes of the frame handed in
  DstCap,        \* the caller's capacity
  BlockMax,      \* the descriptor's block maximum
  MagicBytes,    \* 4
  FlagBytes,     \* FLG and BD: 2
  SizeBytes,     \* the declared content size: 8
  WordBytes,     \* a block header, a checksum: 4
  MetaBytes,     \* metadata of a chunk: four pointers
  SizeMax        \* SIZE_MAX

ASSUME FrameAssumption ==
  /\ FrameSizes \subseteq 0..SizeMax /\ SizeMax \in Nat /\ DstCap \in 0..SizeMax
  /\ {BlockMax, MagicBytes, FlagBytes, SizeBytes, WordBytes, MetaBytes} \subseteq Nat \ {0}

VARIABLES
  pc, status, bytes_written,
  frame_size, desc, tail_off,   \* the envelope
  pos, fuel, blocks,            \* the walk, and the table it fills
  call,                         \* runtime calls of the staging made so far
  held,                         \* device buffers held
  decoded,                      \* bytes each compressed block decoded to
  i, k, off, run,               \* assembly: block, slot, prefix, the open run
  out,                          \* the caller's destination: where a byte came from
  work,                         \* device: the batch or copies, not yet performed
  faulted,                      \* device: a sticky fault
  highest                       \* history: the highest frame index read

envelope == <<frame_size, desc, tail_off>>
walk == <<pos, fuel, blocks, highest>>
staging == <<call, held, decoded>>
assembly == <<i, k, off, run>>
device == <<work, faulted>>
answer == <<status, bytes_written>>
vars == <<pc, answer, envelope, walk, staging, assembly, out, device>>

NoRun == [dev |-> 0, out |-> 0, len |-> 0]
Batch == NoRun   \* work that writes none of the caller's bytes
NoDesc == [block_checksum |-> FALSE, content_size |-> FALSE, content_checksum |-> FALSE]
Caller == <<"caller", 0>>
Fuel(size) == size \div WordBytes + 1

Init ==
  /\ pc = "descriptor" /\ status = "OK" /\ bytes_written = 0
  /\ frame_size \in FrameSizes /\ desc = NoDesc /\ tail_off = 0
  /\ pos = 0 /\ fuel = 0 /\ blocks = <<>> /\ highest = -1
  /\ call = 0 /\ held = {} /\ decoded = <<>>
  /\ i = 1 /\ k = 0 /\ off = 0 /\ run = NoRun
  /\ out = [b \in 0..DstCap - 1 |-> Caller]
  /\ work = <<>> /\ faulted = FALSE

\* Every early return runs the destructors on its way out.
Return(st) == pc' = "exit" /\ status' = st /\ UNCHANGED bytes_written
Continue(next) == pc' = next /\ UNCHANGED answer
Read(index) == highest' = IF index > highest THEN index ELSE highest

-----------------------------------------------------------------------------
(* The envelope (src/lz4_frame.h). *)

FlagsEnd == MagicBytes + FlagBytes

DescriptorVerdict(magic, malformed, declined, d, checked) ==
  LET end == FlagsEnd + (IF d.content_size THEN SizeBytes ELSE 0) IN
  IF frame_size < MagicBytes THEN "CORRUPT_INPUT"
  ELSE IF magic = "skippable" THEN "UNSUPPORTED"
  ELSE IF frame_size < FlagsEnd + 1 \/ magic = "other" \/ malformed THEN "CORRUPT_INPUT"
  ELSE IF declined THEN "UNSUPPORTED"
  ELSE IF frame_size < end + 1 \/ ~checked THEN "CORRUPT_INPUT" ELSE "OK"

\* Lz4ParseFrameDescriptor.
Descriptor ==
  /\ pc = "descriptor"
  /\ \E magic \in {"lz4", "skippable", "other"}, malformed, declined, checked \in BOOLEAN,
        d \in [block_checksum : BOOLEAN, content_size : BOOLEAN, content_checksum : BOOLEAN] :
       LET verdict == DescriptorVerdict(magic, malformed, declined, d, checked)
           end == FlagsEnd + (IF d.content_size THEN SizeBytes ELSE 0)
       IN
       IF verdict # "OK" THEN Return(verdict) /\ UNCHANGED <<envelope, walk>>
       ELSE /\ Continue("walk")
            /\ desc' = d /\ pos' = end + 1 /\ fuel' = Fuel(frame_size) /\ Read(end)
            /\ UNCHANGED <<frame_size, tail_off, blocks>>
  /\ UNCHANGED <<staging, assembly, out, device>>

Checksum == IF desc.block_checksum THEN WordBytes ELSE 0
BlockFits(data, len) == data + len + Checksum <= frame_size

Refuse(at) ==
  /\ Return("CORRUPT_INPUT") /\ tail_off' = at
  /\ UNCHANGED <<frame_size, desc, blocks>>

\* One turn of Lz4WalkFrameBlocks.
Walk ==
  /\ pc = "walk"
  /\ LET data == pos + WordBytes IN
     \/ fuel = 0 /\ Refuse(pos) /\ UNCHANGED walk
     \/ fuel # 0 /\ frame_size < data /\ Refuse(pos) /\ UNCHANGED walk
     \/ /\ fuel # 0 /\ frame_size >= data
        /\ fuel' = fuel - 1
        /\ \/ \* the end mark
              /\ Continue("stage") /\ tail_off' = data /\ pos' = data /\ Read(data - 1)
              /\ UNCHANGED <<frame_size, desc, blocks>>
           \/ \E len \in 0..BlockMax + 1, uncompressed \in BOOLEAN, checked \in BOOLEAN :
                IF len = 0 /\ ~uncompressed THEN FALSE   \* that word is the end mark
                ELSE IF len = 0 \/ len > BlockMax \/ frame_size < data + len
                        \/ ~BlockFits(data, len)
                THEN Refuse(pos) /\ pos' = data /\ Read(data - 1)
                ELSE IF desc.block_checksum /\ ~checked
                THEN Refuse(pos) /\ pos' = data /\ Read(data + len + Checksum - 1)
                ELSE /\ blocks' = Append(blocks, [src_off |-> data, src_len |-> len,
                                                  uncompressed |-> uncompressed])
                     /\ pos' = data + len + Checksum
                     /\ Read(data + len + Checksum - 1)
                     /\ UNCHANGED <<pc, answer, envelope>>
  /\ UNCHANGED <<staging, assembly, out, device>>

-----------------------------------------------------------------------------
(* DecodeAndAssemble: the batch. *)

Compressed == {b \in DOMAIN blocks : ~blocks[b].uncompressed}
n == Cardinality(Compressed)
Slot(b) == Cardinality({c \in Compressed : c < b})

\* A runtime call: it succeeds, on a device without a fault, or the decode ends.
Calls == <<"d_src", "d_dst", "upload", "dd_meta", "dd_res", "upload_meta">>
Buffers == {"d_src", "d_dst", "dd_meta", "dd_res"}
CallFails == Return("CUDA") /\ UNCHANGED <<staging, device>>

Overflows ==
  \/ call = 0 /\ n > SizeMax \div BlockMax
  \/ Calls[call + 1] = "dd_meta" /\ n > SizeMax \div MetaBytes

\* The owners grow and the two uploads run, one call after the other.
Stage ==
  /\ pc = "stage" /\ call < Len(Calls)
  /\ \/ n = 0 /\ Continue("measure") /\ UNCHANGED <<staging, device>>
     \/ n # 0 /\ Overflows /\ Return("CORRUPT_INPUT") /\ UNCHANGED <<staging, device>>
     \/ n # 0 /\ ~Overflows /\ CallFails
     \/ /\ n # 0 /\ ~Overflows /\ ~faulted
        /\ call' = call + 1
        /\ held' = held \cup ({Calls[call + 1]} \cap Buffers)
        /\ UNCHANGED <<pc, answer, decoded, device>>
  /\ UNCHANGED <<envelope, walk, assembly, out>>

\* cudec_lz4_decompress_batch: a launch, or the status of its refusal.
Launch ==
  /\ pc = "stage" /\ call = Len(Calls)
  /\ \/ Continue("sync") /\ ~faulted /\ work' = Append(work, Batch) /\ UNCHANGED faulted
     \/ \E st \in {"UNSUPPORTED", "CUDA"} : Return(st) /\ UNCHANGED device
  /\ UNCHANGED <<envelope, walk, staging, assembly, out>>

\* device_synchronize, then the records: every block decoded, or the frame is
\* corrupt. A record is -1 for a rejected block, else the bytes written.
Records ==
  /\ pc = "sync" /\ work = <<>>
  /\ \/ CallFails
     \/ /\ ~faulted
        /\ \E res \in [Compressed -> -1..BlockMax] :
             IF \E b \in Compressed : res[b] = -1
             THEN Return("CORRUPT_INPUT") /\ UNCHANGED decoded
             ELSE Continue("measure") /\ decoded' = res
        /\ UNCHANGED <<call, held, device>>
  /\ UNCHANGED <<envelope, walk, assembly, out>>

\* A host allocation fails: the catch of the entry point.
HostAllocFails ==
  /\ \/ pc \in {"walk", "stage"}
     \/ pc = "sync" /\ work = <<>>
  /\ Return("CUDA")
  /\ UNCHANGED <<envelope, walk, staging, assembly, out, device>>

-----------------------------------------------------------------------------
(* DecodeAndAssemble: the output. *)

LenOf(b) == IF blocks[b].uncompressed THEN blocks[b].src_len ELSE decoded[b]
Offset(b) == LET o[c \in 0..b] == IF c = 0 THEN 0 ELSE o[c - 1] + LenOf(c) IN o[b - 1]
Total == Offset(Len(blocks) + 1)

\* The capacity is compared before the first byte is written; then the stream for
\* the copies is made.
Measure ==
  /\ pc = "measure"
  /\ \/ Total > DstCap /\ Return("OUTPUT_TOO_SMALL")
     \/ Total <= DstCap /\ n # 0 /\ Return("CUDA")
     \/ Total <= DstCap /\ (n = 0 \/ ~faulted) /\ Continue("assemble")
  /\ UNCHANGED <<envelope, walk, staging, assembly, out, device>>

CopyStored ==
  /\ pc = "assemble" /\ i <= Len(blocks) /\ blocks[i].uncompressed
  /\ out' = [b \in DOMAIN out |->
               IF b \in off..off + blocks[i].src_len - 1
               THEN <<"frame", blocks[i].src_off + b - off>> ELSE out[b]]
  /\ off' = off + blocks[i].src_len /\ i' = i + 1
  /\ UNCHANGED <<pc, answer, envelope, walk, staging, k, run, device>>

\* Mutant: the run is continued on the output alone.
ContiguousOnOutput(dev) == run.len # 0 /\ run.out + run.len = off
Contiguous(dev) == run.len # 0 /\ run.dev + run.len = dev /\ run.out + run.len = off

\* memcpy_async of the open run, if any.
Flushed == work' = IF run.len = 0 THEN work ELSE Append(work, run)

\* A compressed block joins the open run or closes it and opens its own.
CopyDecoded ==
  /\ pc = "assemble" /\ i <= Len(blocks) /\ ~blocks[i].uncompressed
  /\ LET dev == k * BlockMax IN
     \/ ~Contiguous(dev) /\ run.len # 0 /\ Return("CUDA") /\ UNCHANGED <<assembly, device>>
     \/ /\ IF Contiguous(dev)
             THEN run' = [run EXCEPT !.len = @ + decoded[i]] /\ UNCHANGED work
             ELSE /\ run.len = 0 \/ ~faulted
                  /\ Flushed
                  /\ run' = [dev |-> dev, out |-> off, len |-> decoded[i]]
        /\ off' = off + decoded[i] /\ k' = k + 1 /\ i' = i + 1
        /\ UNCHANGED <<pc, answer, faulted>>
  /\ UNCHANGED <<envelope, walk, staging, out>>

\* The last run, and the drain of the ordinary path.
FlushLast ==
  /\ pc = "assemble" /\ i > Len(blocks)
  /\ \/ run.len # 0 /\ Return("CUDA") /\ UNCHANGED device
     \/ /\ run.len = 0 \/ ~faulted
        /\ Flushed /\ Continue("drain") /\ UNCHANGED faulted
  /\ UNCHANGED <<envelope, walk, staging, assembly, out>>

DrainCopies ==
  /\ pc = "drain" /\ (n = 0 \/ work = <<>>)
  /\ \/ n # 0 /\ Return("CUDA")
     \/ (n = 0 \/ ~faulted) /\ Continue("tail")
  /\ UNCHANGED <<envelope, walk, staging, assembly, out, device>>

\* Lz4VerifyFrameTail, and the size handed back.
VerifyTail ==
  /\ pc = "tail"
  /\ \E sized, checked \in BOOLEAN :
       IF \/ desc.content_size /\ ~sized
          \/ desc.content_checksum /\ (frame_size < tail_off + WordBytes \/ ~checked)
       THEN Return("CORRUPT_INPUT")
       ELSE pc' = "exit" /\ bytes_written' = Total /\ UNCHANGED status
  /\ UNCHANGED <<envelope, walk, staging, assembly, out, device>>

\* The guard that drains the copies before their buffers go, on every path.
\* Mutants: only on success; again until it succeeds.
DrainedOnSuccess == status # "OK" \/ work = <<>>
DrainedWithoutFault == work = <<>> /\ ~faulted
Drained == work = <<>>

Exit ==
  /\ pc = "exit" /\ Drained
  /\ pc' = "returned" /\ held' = {}
  /\ UNCHANGED <<answer, envelope, walk, call, decoded, assembly, out, device>>

-----------------------------------------------------------------------------
(* The device: work in order, and a fault that ends it. *)

DeviceStep ==
  /\ work # <<>>
  /\ out' = LET c == Head(work) IN
            [b \in DOMAIN out |-> IF b \in c.out..c.out + c.len - 1
                                  THEN <<"device", c.dev + b - c.out>> ELSE out[b]]
  /\ work' = SubSeq(work, 2, Len(work))
  /\ UNCHANGED <<pc, answer, envelope, walk, staging, assembly, faulted>>

DeviceFault ==
  /\ work # <<>> /\ faulted' = TRUE /\ work' = <<>>
  /\ UNCHANGED <<pc, answer, envelope, walk, staging, assembly, out>>

Returned == pc = "returned" /\ UNCHANGED vars

Host == \/ Descriptor \/ Walk \/ Stage \/ Launch \/ Records \/ HostAllocFails \/ Measure
        \/ CopyStored \/ CopyDecoded \/ FlushLast \/ DrainCopies \/ VerifyTail \/ Exit
Device == DeviceStep \/ DeviceFault
Next == Host \/ Device \/ Returned
Spec == Init /\ [][Next]_vars /\ WF_vars(Host) /\ WF_vars(Device)

-----------------------------------------------------------------------------
(* Properties. *)

Refused == pc \in {"exit", "returned"} /\ status # "OK"

TableInFrame ==
  /\ highest < frame_size
  /\ \A b \in DOMAIN blocks :
       /\ blocks[b].src_len \in 1..BlockMax
       /\ blocks[b].src_off + blocks[b].src_len <= pos
       /\ b > 1 => blocks[b].src_off >= blocks[b - 1].src_off + blocks[b - 1].src_len + WordBytes
  /\ pc = "walk" => fuel > 0
DecodedBytes ==
  UNION {Slot(b) * BlockMax .. Slot(b) * BlockMax + decoded[b] - 1 : b \in Compressed}
StoredBytes ==
  UNION {Offset(b) .. Offset(b) + LenOf(b) - 1 : b \in DOMAIN blocks \ Compressed}
OutOf(c) == c.out .. c.out + c.len - 1
CopiesAreDecoded ==
  pc \in {"assemble", "drain"} =>
    /\ \A c \in DOMAIN work :
         /\ work[c].dev .. work[c].dev + work[c].len - 1 \subseteq DecodedBytes
         /\ OutOf(work[c]) \subseteq DOMAIN out \ StoredBytes
    /\ \A c, e \in DOMAIN work : c # e => OutOf(work[c]) \cap OutOf(work[e]) = {}

\* What is assembled is what the table names. The walk reads nothing past the frame
\* and is never stopped by its fuel; the accepted entries are disjoint, in order, no
\* larger than the block maximum and end before the walk does. A merged copy takes
\* bytes the batch decoded, none of the gap behind a short block, into the caller's
\* capacity; and no two copies, and no copy and stored block, touch the same byte,
\* so their order is free (the comment on the merge). When the tail is verified the
\* destination holds the blocks one after the other, every byte from its own block,
\* and the size handed back is theirs.
OutputIsFrame ==
  /\ TableInFrame /\ CopiesAreDecoded
  /\ pc = "tail" =>
       \A b \in DOMAIN blocks : \A j \in 0..LenOf(b) - 1 :
         out[Offset(b) + j] =
           IF blocks[b].uncompressed THEN <<"frame", blocks[b].src_off + j>>
           ELSE <<"device", Slot(b) * BlockMax + j>>
  /\ bytes_written # 0 => status = "OK" /\ bytes_written = Total

\* No device work is left when the buffers it uses are freed and the call
\* returns, whichever call failed; and a refusal for want of capacity leaves the
\* destination as the caller had it.
NothingOutlivesDecode ==
  /\ pc = "returned" => work = <<>>
  /\ Refused /\ status = "OUTPUT_TOO_SMALL" => \A b \in DOMAIN out : out[b] = Caller

\* The decode returns, also on a device that faulted.
DecodeReturns == <>(pc = "returned")
=============================================================================
