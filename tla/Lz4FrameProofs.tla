--------------------------- MODULE Lz4FrameProofs ---------------------------
(***************************************************************************)
(* What is proved of the LZ4 frame decode for every frame, block maximum,  *)
(* capacity and interleaving with the device: the walk stays in the frame  *)
(* and its table names disjoint blocks, no device work outlives the call,  *)
(* and a destination whose tail is verified holds the blocks one after the *)
(* other.                                                                  *)
(***************************************************************************)
EXTENDS Lz4Frame, FiniteSetTheorems, WellFoundedInduction, TLAPS

Before == {"descriptor", "walk", "stage", "sync", "measure"}
Assembling == {"assemble", "drain", "tail"}
Ended == {"exit", "returned"}

Entries == [src_off : Nat, src_len : Nat, uncompressed : BOOLEAN]
Runs == [dev : Nat, out : Nat, len : Nat]
DecodedInBounds == \A b \in Compressed : decoded[b] \in 0..BlockMax

Typed ==
  /\ pc \in Before \cup Assembling \cup Ended
  /\ frame_size \in Nat /\ pos \in Nat /\ fuel \in Nat /\ highest \in Int
  /\ blocks \in Seq(Entries)
  /\ call \in 0..Len(Calls)
  /\ i \in Nat \ {0} /\ k \in Nat /\ off \in Nat /\ run \in Runs
  /\ work \in Seq(Runs)
  /\ out = [b \in 0..DstCap - 1 |-> out[b]]
  /\ faulted \in BOOLEAN
  /\ pc \in Assembling \cup {"measure"} => DecodedInBounds

\* The constants are naturals, all but the sizes of the destination positive.
LEMMA Sizes ==
  /\ BlockMax \in Nat \ {0} /\ WordBytes \in Nat \ {0} /\ DstCap \in Nat
  /\ MagicBytes \in Nat \ {0} /\ FlagBytes \in Nat \ {0} /\ SizeBytes \in Nat \ {0}
  /\ FrameSizes \subseteq Nat
BY FrameAssumption

\* A decode begins with nothing in the table and nothing on the device.
LEMMA TypedInit == Init => Typed
<1> SUFFICES ASSUME Init PROVE Typed
  OBVIOUS
<1>1. frame_size \in Nat /\ Len(Calls) = 6
  BY Sizes DEF Init, Calls
<1>2. out = [b \in 0..DstCap - 1 |-> out[b]]
  BY DEF Init
<1>3. NoRun \in Runs /\ blocks \in Seq(Entries) /\ work \in Seq(Runs)
  BY DEF NoRun, Runs, Init
<1>4. pos \in Nat /\ fuel \in Nat /\ highest \in Int /\ i \in Nat \ {0} /\ k \in Nat /\ off \in Nat
  BY DEF Init
<1>5. pc = "descriptor" /\ run \in Runs /\ faulted \in BOOLEAN
  BY <1>3 DEF Init
<1>6. call \in 0..Len(Calls)
  BY <1>1 DEF Init
<1> QED BY <1>1, <1>2, <1>3, <1>4, <1>5, <1>6 DEF Typed, Before, Assembling

\* The host's steps, by what they leave alone.
EnvelopeStep == Descriptor \/ Walk
StagingStep == Stage \/ Launch \/ Records \/ HostAllocFails \/ Measure
AssemblyStep == CopyStored \/ CopyDecoded \/ FlushLast \/ DrainCopies \/ VerifyTail

\* The turns of the walk: it stops where it stands, after the header it read, or after
\* a block that does not match its checksum; or it takes one entry more.
Stops == pc' \in {"stage", "exit"} /\ UNCHANGED blocks
Takes(len, uncompressed) ==
  /\ pc' = pc
  /\ blocks' = Append(blocks, [src_off |-> pos + WordBytes, src_len |-> len,
                               uncompressed |-> uncompressed])
  /\ pos' = pos + WordBytes + len + Checksum
ReadsBlock(len) == BlockFits(pos + WordBytes, len) /\ Read(pos + WordBytes + len + Checksum - 1)
StopsAtHeader == Stops /\ pos' = pos + WordBytes /\ Read((pos + WordBytes) - 1)
StopsAtBlock(len) == Stops /\ pos' = pos + WordBytes /\ ReadsBlock(len)
HeaderTurn(len, uncompressed, checked) ==
  IF len = 0 /\ ~uncompressed THEN FALSE
  ELSE IF len = 0 \/ len > BlockMax \/ frame_size < pos + WordBytes + len
          \/ ~BlockFits(pos + WordBytes, len)
  THEN Refuse(pos) /\ pos' = pos + WordBytes /\ Read((pos + WordBytes) - 1)
  ELSE IF desc.block_checksum /\ ~checked
  THEN Refuse(pos) /\ pos' = pos + WordBytes /\ Read(pos + WordBytes + len + Checksum - 1)
  ELSE /\ blocks' = Append(blocks, [src_off |-> pos + WordBytes, src_len |-> len,
                                    uncompressed |-> uncompressed])
       /\ pos' = pos + WordBytes + len + Checksum
       /\ Read(pos + WordBytes + len + Checksum - 1)
       /\ UNCHANGED <<pc, answer, envelope>>

LEMMA HeaderTurns ==
  ASSUME NEW len \in 0..BlockMax + 1, NEW uncompressed \in BOOLEAN, NEW checked \in BOOLEAN,
         HeaderTurn(len, uncompressed, checked)
  PROVE  \/ StopsAtHeader
         \/ len \in 1..BlockMax /\ StopsAtBlock(len)
         \/ len \in 1..BlockMax /\ Takes(len, uncompressed) /\ ReadsBlock(len)
<1> DEFINE bad == \/ len = 0 \/ len > BlockMax \/ frame_size < pos + WordBytes + len
                  \/ ~BlockFits(pos + WordBytes, len)
<1>1. ASSUME Refuse(pos) PROVE Stops
  BY <1>1 DEF Refuse, Return, Stops
<1>2. CASE bad
  BY <1>1, <1>2 DEF HeaderTurn, StopsAtHeader
<1>3. CASE ~bad
  <2>1. len \in 1..BlockMax /\ BlockFits(pos + WordBytes, len)
    BY <1>3, Sizes
  <2>2. CASE desc.block_checksum /\ ~checked
    BY <1>1, <1>3, <2>1, <2>2 DEF HeaderTurn, StopsAtBlock, ReadsBlock
  <2>3. CASE ~(desc.block_checksum /\ ~checked)
    BY <1>3, <2>1, <2>3 DEF HeaderTurn, Takes, ReadsBlock
  <2> QED BY <2>2, <2>3
<1> QED BY <1>2, <1>3

LEMMA WalkTurns ==
  ASSUME Walk
  PROVE  \/ Stops /\ UNCHANGED <<pos, fuel, highest>>
         \/ /\ fuel # 0 /\ fuel' = fuel - 1 /\ frame_size >= pos + WordBytes
            /\ \/ StopsAtHeader
               \/ \E len \in 1..BlockMax : StopsAtBlock(len)
               \/ \E len \in 1..BlockMax, uncompressed \in BOOLEAN :
                    Takes(len, uncompressed) /\ ReadsBlock(len)
<1>1. CASE (fuel = 0 \/ frame_size < pos + WordBytes) /\ Refuse(pos) /\ UNCHANGED walk
  BY <1>1 DEF Refuse, Return, Stops, walk
<1>2. \/ (fuel = 0 \/ frame_size < pos + WordBytes) /\ Refuse(pos) /\ UNCHANGED walk
      \/ /\ fuel # 0 /\ frame_size >= pos + WordBytes /\ fuel' = fuel - 1
         /\ \/ /\ Continue("stage") /\ pos' = pos + WordBytes /\ Read((pos + WordBytes) - 1)
               /\ UNCHANGED <<frame_size, desc, blocks>>
            \/ \E len \in 0..BlockMax + 1, uncompressed \in BOOLEAN, checked \in BOOLEAN :
                 HeaderTurn(len, uncompressed, checked)
  BY Zenon DEF Walk, HeaderTurn
<1>3. CASE /\ \E len \in 0..BlockMax + 1, uncompressed \in BOOLEAN, checked \in BOOLEAN :
                  HeaderTurn(len, uncompressed, checked)
           /\ fuel # 0 /\ fuel' = fuel - 1 /\ frame_size >= pos + WordBytes
  BY <1>3, HeaderTurns
<1>4. CASE Continue("stage") /\ pos' = pos + WordBytes /\ Read((pos + WordBytes) - 1) /\ UNCHANGED <<frame_size, desc, blocks>>
           /\ fuel # 0 /\ fuel' = fuel - 1 /\ frame_size >= pos + WordBytes
  BY <1>4 DEF Continue, Stops, StopsAtHeader
<1> QED BY <1>1, <1>2, <1>3, <1>4

\* The descriptor is read and the walk begins after it, inside the frame.
LEMMA DescriptorTurns ==
  ASSUME Typed, Descriptor
  PROVE  /\ blocks' = blocks
         /\ \/ pc' = "exit" /\ UNCHANGED <<pos, fuel, highest>>
            \/ /\ pc' = "walk"
               /\ \E end \in Nat : end + 1 <= frame_size /\ pos' = end + 1
                                   /\ fuel' = Fuel(frame_size) /\ Read(end)
<1>1. PICK magic \in {"lz4", "skippable", "other"}, malformed \in BOOLEAN, declined \in BOOLEAN, checked \in BOOLEAN,
           d \in [block_checksum : BOOLEAN, content_size : BOOLEAN, content_checksum : BOOLEAN] :
        LET verdict == DescriptorVerdict(magic, malformed, declined, d, checked)
            end == FlagsEnd + (IF d.content_size THEN SizeBytes ELSE 0)
        IN
        IF verdict # "OK" THEN Return(verdict) /\ UNCHANGED <<envelope, walk>>
        ELSE /\ Continue("walk")
             /\ desc' = d /\ pos' = end + 1 /\ fuel' = Fuel(frame_size) /\ Read(end)
             /\ UNCHANGED <<frame_size, tail_off, blocks>>
  BY DEF Descriptor
<1> DEFINE end == FlagsEnd + (IF d.content_size THEN SizeBytes ELSE 0)
<1>2. CASE DescriptorVerdict(magic, malformed, declined, d, checked) # "OK"
  BY <1>1, <1>2 DEF Return, walk
<1>3. CASE DescriptorVerdict(magic, malformed, declined, d, checked) = "OK"
  <2>1. end \in Nat
    BY Sizes DEF FlagsEnd
  <2>2. ~(frame_size < end + 1)
    BY <1>3 DEF DescriptorVerdict
  <2>3. end + 1 <= frame_size
    BY <2>1, <2>2 DEF Typed
  <2>4. pc' = "walk" /\ pos' = end + 1 /\ fuel' = Fuel(frame_size) /\ Read(end) /\ blocks' = blocks
    BY <1>1, <1>3 DEF Continue
  <2> HIDE DEF end
  <2> QED BY <2>1, <2>3, <2>4
<1> QED BY <1>2, <1>3

\* The highest index read so far.
LEMMA ReadHighest ==
  ASSUME Typed, NEW index \in Int, Read(index)
  PROVE  highest' \in Int /\ highest' >= index /\ highest' >= highest /\ highest' \in {index, highest}
BY DEF Read, Typed

LEMMA FuelNat == Typed => Fuel(frame_size) \in Nat
<1>1. \A a \in Nat, b \in Nat \ {0} : a \div b \in Nat
  OBVIOUS
<1> QED BY <1>1, Sizes DEF Fuel, Typed

\* A turn of the walk appends an entry or leaves the table.
LEMMA TypedEnvelope == Typed /\ EnvelopeStep => Typed'
<1> SUFFICES ASSUME Typed, EnvelopeStep PROVE Typed'
  OBVIOUS
<1> USE DEF staging, assembly, device, walk, envelope, answer
<1>1. UNCHANGED <<call, held, decoded, i, k, off, run, out, work, faulted, frame_size>>
  BY DEF EnvelopeStep, Descriptor, Walk, Return, Continue, Refuse
<1>2. pc' \in {"walk", "stage", "exit"}
  BY DEF EnvelopeStep, Descriptor, Walk, Return, Continue, Refuse
<1>3. pos' \in Nat /\ fuel' \in Nat /\ highest' \in Int /\ blocks' \in Seq(Entries)
  <2>1. CASE Descriptor
    BY <2>1, DescriptorTurns, FuelNat DEF Read, Typed
  <2>2. CASE Walk
    <3>1. Checksum \in Nat
      BY Sizes DEF Checksum
    <3>2. CASE Stops /\ UNCHANGED <<pos, fuel, highest>>
      BY <3>2 DEF Stops, Typed
    <3> DEFINE data == pos + WordBytes
    <3>5. data - 1 \in Int /\ data \in Nat
      <4>1. pos \in Nat /\ WordBytes \in Nat
        BY Sizes DEF Typed
      <4> QED BY <4>1
    <3>8. \A len \in 1..BlockMax : data + len + Checksum \in Nat /\ data + len + Checksum - 1 \in Int
      BY <3>1, <3>5, Sizes
    <3>6. fuel # 0 /\ fuel' = fuel - 1 => fuel' \in Nat
      BY DEF Typed
    <3>7. ASSUME NEW len \in 1..BlockMax, ReadsBlock(len) PROVE highest' \in Int
      BY <3>7, <3>8, ReadHighest DEF ReadsBlock
    <3>3. CASE fuel # 0 /\ fuel' = fuel - 1 /\ (StopsAtHeader \/ \E len \in 1..BlockMax : StopsAtBlock(len))
      <4>1. blocks' \in Seq(Entries) /\ pos' \in Nat /\ fuel' \in Nat
        BY <3>3, <3>5, <3>6 DEF StopsAtHeader, StopsAtBlock, Stops, Typed
      <4>2. CASE StopsAtHeader
        <5>1. Read(data - 1)
          BY <4>2 DEF StopsAtHeader
        <5> QED BY <3>5, <4>1, <5>1, ReadHighest
      <4>3. CASE \E len \in 1..BlockMax : StopsAtBlock(len)
        BY <3>7, <4>1, <4>3 DEF StopsAtBlock
      <4> QED BY <3>3, <4>2, <4>3
    <3>4. CASE fuel # 0 /\ fuel' = fuel - 1 /\ \E len \in 1..BlockMax, uncompressed \in BOOLEAN :
                 Takes(len, uncompressed) /\ ReadsBlock(len)
      <4>1. PICK len \in 1..BlockMax, uncompressed \in BOOLEAN :
              Takes(len, uncompressed) /\ ReadsBlock(len)
        BY <3>4
      <4>2. pos' \in Nat /\ fuel' \in Nat /\ highest' \in Int
        BY <3>4, <3>6, <3>7, <3>8, <4>1 DEF Takes
      <4>3. [src_off |-> pos + WordBytes, src_len |-> len, uncompressed |-> uncompressed] \in Entries
        BY SMTT(20), Sizes DEF Typed, Entries
      <4> QED BY <4>1, <4>2, <4>3 DEF Takes, Typed
    <3> QED BY <2>2, <3>2, <3>3, <3>4, WalkTurns
  <2> QED BY <2>1, <2>2 DEF EnvelopeStep
<1>4. out' = [b \in 0..DstCap - 1 |-> out'[b]]
  BY <1>1 DEF Typed
<1> QED BY <1>1, <1>2, <1>3, <1>4 DEF Typed, Before, Assembling, Ended

\* The compressed blocks are finitely many.
LEMMA CompressedFinite ==
  ASSUME Typed
  PROVE  IsFiniteSet(Compressed) /\ n \in Nat /\ (n = 0 <=> Compressed = {})
<1>1. DOMAIN blocks = 1..Len(blocks) /\ Len(blocks) \in Nat
  BY DEF Typed
<1>2. IsFiniteSet(1..Len(blocks))
  BY <1>1, FS_Interval
<1>3. Compressed \subseteq 1..Len(blocks)
  BY <1>1 DEF Compressed
<1>4. IsFiniteSet(Compressed)
  BY <1>2, <1>3, FS_Subset
<1> QED BY <1>4, FS_CardinalityType, FS_EmptySet DEF n

\* The batch, with a record for every block of it.
LEMMA TypedStaging == Typed /\ StagingStep => Typed'
<1> SUFFICES ASSUME Typed, StagingStep PROVE Typed'
  OBVIOUS
<1> USE DEF staging, assembly, device, walk, envelope, answer
<1>1. UNCHANGED <<frame_size, pos, fuel, highest, blocks, i, k, off, run, out, faulted>>
  BY DEF StagingStep, Stage, Launch, Records, HostAllocFails, Measure, Return, Continue, CallFails
<1>2. pc' \in {"stage", "sync", "measure", "assemble", "exit"}
  BY DEF StagingStep, Stage, Launch, Records, HostAllocFails, Measure, Return, Continue, CallFails
<1>3. call' \in 0..Len(Calls)
  BY DEF StagingStep, Stage, Launch, Records, HostAllocFails, Measure, Return, Continue, CallFails,
         Typed, Calls
<1>4. work' \in Seq(Runs)
  <2>1. Batch \in Runs
    BY DEF Batch, NoRun, Runs
  <2>2. work' = work \/ work' = Append(work, Batch)
    BY DEF StagingStep, Stage, Launch, Records, HostAllocFails, Measure, Return, Continue, CallFails
  <2>3. work \in Seq(Runs)
    BY DEF Typed
  <2> HIDE DEF Batch
  <2> QED BY <2>1, <2>2, <2>3
<1>5. pc' \in Assembling \cup {"measure"} => DecodedInBounds'
  <2>1. Compressed' = Compressed
    BY <1>1 DEF Compressed
  <2>2. CASE Stage
    <3>1. pc' = "measure" => n = 0
      BY <2>2 DEF Stage, Return, Continue, CallFails
    <3> QED BY <2>1, <2>2, <3>1, CompressedFinite
            DEF Stage, DecodedInBounds, Return, Continue, CallFails, Assembling
  <2>3. CASE Records
    <3>1. CASE pc' = "exit"
      BY <3>1 DEF Assembling
    <3>2. CASE pc' # "exit"
      <4>1. PICK res \in [Compressed -> -1..BlockMax] :
              ~(\E b \in Compressed : res[b] = -1) /\ decoded' = res
        BY <2>3, <3>2 DEF Records, Return, CallFails
      <4>2. ASSUME NEW b \in Compressed PROVE decoded'[b] \in 0..BlockMax
        <5>1. res[b] \in -1..BlockMax /\ res[b] # -1
          BY <4>1
        <5> QED BY <4>1, <5>1, Sizes
      <4> QED BY <2>1, <4>2 DEF DecodedInBounds
    <3> QED BY <3>1, <3>2
  <2>4. CASE Measure
    BY <2>1, <2>4 DEF Measure, Typed, DecodedInBounds
  <2>5. CASE Launch \/ HostAllocFails
    BY <2>5 DEF Launch, HostAllocFails, Return, Continue, Assembling
  <2> QED BY <2>2, <2>3, <2>4, <2>5 DEF StagingStep
<1>6. out' = [b \in 0..DstCap - 1 |-> out'[b]]
  BY <1>1 DEF Typed
<1> QED BY <1>1, <1>2, <1>3, <1>4, <1>5, <1>6 DEF Typed, Before, Assembling, Ended

\* A place on the device.
LEMMA Products == \A a, b \in Nat : a * b \in Nat
OBVIOUS

\* The assembly, and the two ends of the call.
LEMMA TypedAssembly == Typed /\ (AssemblyStep \/ Exit) => Typed'
<1> SUFFICES ASSUME Typed, AssemblyStep \/ Exit PROVE Typed'
  OBVIOUS
<1> USE DEF staging, assembly, device, walk, envelope, answer
<1>1. UNCHANGED <<frame_size, pos, fuel, highest, blocks, call, decoded, faulted>>
  BY DEF AssemblyStep, CopyStored, CopyDecoded, FlushLast, DrainCopies, VerifyTail, Exit,
         Return, Continue
<1>2. pc' \in Assembling \cup Ended /\ (pc' \in Assembling => pc \in Assembling)
  BY DEF AssemblyStep, CopyStored, CopyDecoded, FlushLast, DrainCopies, VerifyTail, Exit,
         Return, Continue, Assembling, Ended
<1>3. pc' \in Assembling \cup {"measure"} => DecodedInBounds'
  <2>1. DecodedInBounds => DecodedInBounds'
    BY <1>1 DEF DecodedInBounds, Compressed
  <2> QED BY <1>2, <2>1 DEF Typed, Assembling, Ended
<1>4. i' \in Nat \ {0} /\ k' \in Nat /\ off' \in Nat /\ run' \in Runs /\ work' \in Seq(Runs)
      /\ out' = [b \in 0..DstCap - 1 |-> out'[b]]
  <2>5. i \in Nat \ {0} /\ k \in Nat /\ off \in Nat /\ run \in Runs /\ work \in Seq(Runs)
    BY DEF Typed
  <2>6. out' = out => out' = [b \in 0..DstCap - 1 |-> out'[b]]
    BY DEF Typed
  <2>1. CASE CopyStored
    <3>1. blocks[i] \in Entries
      BY <2>1 DEF CopyStored, Typed
    <3>2. blocks[i].src_len \in Nat
      BY <3>1 DEF Entries
    <3>3. i' = i + 1 /\ off' = off + blocks[i].src_len /\ UNCHANGED <<k, run, work>>
      BY <2>1 DEF CopyStored
    <3>4. out' = [b \in 0..DstCap - 1 |-> out'[b]]
      BY <2>1 DEF CopyStored, Typed
    <3> QED BY <2>5, <3>2, <3>3, <3>4
  <2>2. CASE CopyDecoded
    <3>1. decoded[i] \in Nat /\ k * BlockMax \in Nat
      <4>1. i \in Compressed
        BY <2>2 DEF CopyDecoded, Typed, Compressed
      <4>2. DecodedInBounds
        BY <2>2 DEF CopyDecoded, Typed, Assembling
      <4>3. decoded[i] \in Nat
        BY <4>1, <4>2, Sizes DEF DecodedInBounds
      <4> QED BY <2>5, <4>3, Products, Sizes
    <3>2. [run EXCEPT !.len = @ + decoded[i]] \in Runs
          /\ [dev |-> k * BlockMax, out |-> off, len |-> decoded[i]] \in Runs
      <4>1. run \in Runs /\ run.len \in Nat /\ off \in Nat
        BY DEF Typed, Runs
      <4>2. run.len + decoded[i] \in Nat
        BY <3>1, <4>1
      <4> QED BY <3>1, <4>1, <4>2 DEF Runs
    <3>3. i' \in {i, i + 1} /\ k' \in {k, k + 1} /\ off' \in {off, off + decoded[i]} /\ out' = out
          /\ run' \in {run, [run EXCEPT !.len = @ + decoded[i]],
                       [dev |-> k * BlockMax, out |-> off, len |-> decoded[i]]}
          /\ work' \in {work, Append(work, run)}
      BY <2>2 DEF CopyDecoded, Return, Flushed
    <3>4. Append(work, run) \in Seq(Runs) /\ off + decoded[i] \in Nat
      BY <2>5, <3>1
    <3>5. work' \in Seq(Runs) /\ run' \in Runs
      BY <2>5, <3>2, <3>3, <3>4
    <3>6. i' \in Nat \ {0} /\ k' \in Nat /\ off' \in Nat
      BY <2>5, <3>3, <3>4
    <3> QED BY <2>6, <3>3, <3>5, <3>6
  <2>3. CASE FlushLast
    <3>1. UNCHANGED <<i, k, off, run, out>> /\ work' \in {work, Append(work, run)}
      BY <2>3 DEF FlushLast, Return, Continue, Flushed
    <3> QED BY <2>5, <2>6, <3>1
  <2>4. CASE DrainCopies \/ VerifyTail \/ Exit
    <3>1. UNCHANGED <<i, k, off, run, out, work>>
      BY <2>4 DEF DrainCopies, VerifyTail, Exit, Return, Continue
    <3> QED BY <2>5, <2>6, <3>1
  <2> QED BY <2>1, <2>2, <2>3, <2>4 DEF AssemblyStep
<1> QED BY <1>1, <1>2, <1>3, <1>4 DEF Typed, Before

\* The device takes the oldest copy, or drops them all.
LEMMA TypedDevice == Typed /\ Device => Typed'
<1> SUFFICES ASSUME Typed, Device PROVE Typed'
  OBVIOUS
<1> USE DEF staging, assembly, device, walk, envelope, answer
<1>1. UNCHANGED <<pc, frame_size, pos, fuel, highest, blocks, call, decoded, i, k, off, run>>
  BY DEF Device, DeviceStep, DeviceFault
<1>2. work' \in Seq(Runs) /\ faulted' \in BOOLEAN
  <2>1. CASE DeviceStep
    <3>1. SubSeq(work, 2, Len(work)) \in Seq(Runs)
      BY DEF Typed
    <3> QED BY <2>1, <3>1 DEF DeviceStep, Typed
  <2>2. CASE DeviceFault
    BY <2>2 DEF DeviceFault
  <2> QED BY <2>1, <2>2 DEF Device
<1>3. out' = [b \in 0..DstCap - 1 |-> out'[b]]
  BY DEF Device, DeviceStep, DeviceFault, Typed
<1>4. DecodedInBounds => DecodedInBounds'
  BY <1>1 DEF DecodedInBounds, Compressed
<1> QED BY <1>1, <1>2, <1>3, <1>4 DEF Typed

\* Every step is one of these.
LEMMA Steps ==
  [Next]_vars =>
    EnvelopeStep \/ StagingStep \/ AssemblyStep \/ Exit \/ Device \/ UNCHANGED vars
BY DEF Next, Host, Returned, EnvelopeStep, StagingStep, AssemblyStep

LEMMA TypedStep == Typed /\ [Next]_vars => Typed'
<1> SUFFICES ASSUME Typed, [Next]_vars PROVE Typed'
  OBVIOUS
<1>1. CASE UNCHANGED vars
  <2>1. UNCHANGED <<pc, frame_size, pos, fuel, highest, blocks, call, decoded, i, k, off, run, out, work, faulted>>
    BY <1>1 DEF vars, staging, assembly, device, walk, envelope, answer
  <2> QED BY <2>1 DEF Typed, DecodedInBounds, Compressed
<1> QED BY <1>1, Steps, TypedEnvelope, TypedStaging, TypedAssembly, TypedDevice

-----------------------------------------------------------------------------
(* The walk. Every turn costs a header, so fuel for every header that fits  *)
(* in the rest of the frame, and one more, is never used up.                *)

EntryInFrame(b) ==
  /\ blocks[b].src_len \in 1..BlockMax
  /\ blocks[b].src_off + blocks[b].src_len <= pos
  /\ b > 1 => blocks[b].src_off >= blocks[b - 1].src_off + blocks[b - 1].src_len + WordBytes
FrameInv ==
  /\ highest < frame_size
  /\ \A b \in DOMAIN blocks : EntryInFrame(b)
  /\ pc = "descriptor" => blocks = <<>>
  /\ pc = "walk" => pos <= frame_size /\ fuel * WordBytes > frame_size - pos

\* Nothing has been read.
LEMMA FrameInit == Init => FrameInv
BY Sizes DEF Init, FrameInv

\* The fuel covers the whole frame.
LEMMA FuelCovers == Typed => Fuel(frame_size) * WordBytes > frame_size
<1>1. \A a \in Nat, b \in Nat \ {0} : (a \div b + 1) * b > a
  OBVIOUS
<1> QED BY <1>1, Sizes DEF Fuel, Typed

\* An entry is taken where the walk stands, behind the one before.
LEMMA EntryTaken ==
  ASSUME Typed, FrameInv, pc = "walk", fuel # 0, fuel' = fuel - 1,
         NEW len \in 1..BlockMax, NEW uncompressed \in BOOLEAN,
         Takes(len, uncompressed), ReadsBlock(len), UNCHANGED frame_size
  PROVE  FrameInv'
<1> DEFINE entry == [src_off |-> pos + WordBytes, src_len |-> len, uncompressed |-> uncompressed]
<1>1. /\ pos \in Nat /\ frame_size \in Nat /\ fuel \in Nat /\ WordBytes \in Nat /\ len \in Nat
      /\ Checksum \in Nat /\ Len(blocks) \in Nat /\ DOMAIN blocks = 1..Len(blocks) /\ highest \in Int
  <2>1. WordBytes \in Nat /\ len \in Nat /\ Checksum \in Nat
    BY Sizes DEF Checksum
  <2>2. Len(blocks) \in Nat /\ DOMAIN blocks = 1..Len(blocks)
    BY DEF Typed
  <2>3. pos \in Nat /\ frame_size \in Nat /\ fuel \in Nat /\ highest \in Int
    BY DEF Typed
  <2> QED BY <2>1, <2>2, <2>3
<1>2. /\ pos' = pos + WordBytes + len + Checksum /\ pos' <= frame_size /\ pos' \in Nat
  BY <1>1 DEF Takes, ReadsBlock, BlockFits
<1>3. highest' < frame_size
  <2>1. pos + WordBytes + len + Checksum - 1 \in Int
    BY <1>1
  <2>2. pos + WordBytes + len + Checksum - 1 < frame_size
    BY <1>1, <1>2
  <2> QED BY <2>1, <2>2, ReadHighest DEF ReadsBlock, FrameInv
<1>4. /\ blocks' = Append(blocks, entry) /\ Len(blocks') = Len(blocks) + 1
      /\ DOMAIN blocks' = 1..Len(blocks) + 1
      /\ blocks'[Len(blocks) + 1] = entry /\ \A b \in 1..Len(blocks) : blocks'[b] = blocks[b]
  BY <1>1 DEF Takes, Typed
<1>5. \A b \in 1..Len(blocks) + 1 : EntryInFrame(b)'
  <2> SUFFICES ASSUME NEW b \in 1..Len(blocks) + 1 PROVE EntryInFrame(b)'
    OBVIOUS
  <2>1. ASSUME NEW c \in 1..Len(blocks)
        PROVE  /\ blocks[c].src_len \in 1..BlockMax /\ blocks[c].src_off \in Nat
               /\ blocks[c].src_off + blocks[c].src_len <= pos
    <3>1. blocks[c] \in Entries
      BY SMTT(20), <1>1 DEF Typed
    <3>2. blocks[c].src_off \in Nat
      BY <3>1 DEF Entries
    <3> QED BY <1>1, <3>2 DEF FrameInv, EntryInFrame
  <2>2. CASE b \in 1..Len(blocks)
    <3>1. b > 1 => b - 1 \in 1..Len(blocks)
      BY <1>1, <2>2
    <3>2. blocks[b].src_off + blocks[b].src_len <= pos'
      BY <1>1, <1>2, <2>1, <2>2, Sizes
    <3>3. EntryInFrame(b) /\ blocks'[b] = blocks[b]
      BY <1>1, <1>4, <2>2 DEF FrameInv
    <3>4. ASSUME b > 1 PROVE blocks'[b - 1] = blocks[b - 1]
      <4>1. PICK c \in 1..Len(blocks) : c = b - 1
        BY <3>1, <3>4
      <4> QED BY <1>4, <4>1
    <3> QED BY <3>2, <3>3, <3>4 DEF EntryInFrame
  <2>3. CASE b = Len(blocks) + 1
    <3>1. entry.src_off + entry.src_len <= pos' /\ entry.src_len = len
      BY <1>1, <1>2
    <3>2. b > 1 => b - 1 \in 1..Len(blocks) /\ blocks'[b - 1] = blocks[b - 1] /\ b - 1 = Len(blocks)
      <4>1. b > 1 => b - 1 \in 1..Len(blocks) /\ b - 1 = Len(blocks)
        BY <1>1, <2>3
      <4> QED BY <1>4, <4>1, Zenon
    <3>3. ASSUME b > 1 PROVE entry.src_off >= blocks[b - 1].src_off + blocks[b - 1].src_len + WordBytes
      <4>1. PICK c \in 1..Len(blocks) : c = b - 1
        BY <3>2, <3>3
      <4>2. /\ blocks[c].src_len \in Nat /\ blocks[c].src_off \in Nat
            /\ blocks[c].src_off + blocks[c].src_len <= pos
        BY <2>1, Sizes
      <4>3. pos + WordBytes >= blocks[c].src_off + blocks[c].src_len + WordBytes
        BY <1>1, <4>2
      <4>4. entry.src_off >= blocks[c].src_off + blocks[c].src_len + WordBytes
        BY <4>3
      <4> HIDE DEF entry
      <4> QED BY <4>1, <4>4
    <3> QED BY <1>4, <2>3, <3>1, <3>2, <3>3 DEF EntryInFrame
  <2> QED BY <1>1, <2>2, <2>3
<1>7. pc' = "walk" /\ pos' <= frame_size'
  BY <1>2 DEF Takes
<1>6. fuel' * WordBytes > frame_size - pos'
  <2>1. (fuel - 1) * WordBytes = fuel * WordBytes - WordBytes
    BY <1>1
  <2>2. fuel * WordBytes \in Nat
    BY <1>1, Products
  <2> QED BY <1>1, <1>2, <2>1, <2>2 DEF FrameInv
<1> QED BY <1>3, <1>4, <1>5, <1>6, <1>7 DEF FrameInv

\* Stopping, the walk has read no further than the frame.
LEMMA WalkStops ==
  ASSUME Typed, FrameInv, UNCHANGED frame_size, frame_size >= pos + WordBytes,
         StopsAtHeader \/ \E len \in 1..BlockMax : StopsAtBlock(len)
  PROVE  FrameInv'
<1>1. /\ pos \in Nat /\ frame_size \in Nat /\ WordBytes \in Nat /\ Checksum \in Nat
      /\ highest \in Int /\ BlockMax \in Nat
  BY Sizes DEF Typed, Checksum
<1>2. Stops /\ pos' = pos + WordBytes
  BY DEF StopsAtHeader, StopsAtBlock
<1>3. highest' < frame_size
  <2>1. CASE StopsAtHeader
    <3>1. (pos + WordBytes) - 1 \in Int /\ (pos + WordBytes) - 1 < frame_size
      BY <1>1
    <3> QED BY <2>1, <3>1, ReadHighest DEF StopsAtHeader, FrameInv
  <2>2. ASSUME NEW len \in 1..BlockMax, StopsAtBlock(len) PROVE highest' < frame_size
    <3>1. pos + WordBytes + len + Checksum - 1 \in Int
      BY <1>1
    <3>2. pos + WordBytes + len + Checksum - 1 < frame_size
      BY <1>1, <2>2 DEF StopsAtBlock, ReadsBlock, BlockFits
    <3> QED BY <2>2, <3>1, <3>2, ReadHighest DEF StopsAtBlock, ReadsBlock, FrameInv
  <2> QED BY <2>1, <2>2
<1>4. \A b \in DOMAIN blocks : EntryInFrame(b)'
  <2> SUFFICES ASSUME NEW b \in DOMAIN blocks PROVE EntryInFrame(b)'
    OBVIOUS
  <2>3. blocks[b] \in Entries
    BY DEF Typed
  <2>4. blocks[b].src_off \in Nat
    BY <2>3 DEF Entries
  <2>1. blocks[b].src_off \in Nat /\ blocks[b].src_len \in 1..BlockMax
        /\ blocks[b].src_off + blocks[b].src_len <= pos
    BY <2>4 DEF FrameInv, EntryInFrame
  <2>2. blocks[b].src_off + blocks[b].src_len <= pos'
    BY <1>1, <1>2, <2>1
  <2> QED BY <1>2, <2>2 DEF FrameInv, EntryInFrame, Stops
<1> QED BY <1>2, <1>3, <1>4 DEF FrameInv, Stops

\* Every step keeps it.
LEMMA FrameStep == Typed /\ FrameInv /\ [Next]_vars => FrameInv'
<1> SUFFICES ASSUME Typed, FrameInv, [Next]_vars PROVE FrameInv'
  OBVIOUS
<1> USE DEF staging, assembly, device, walk, envelope, answer
<1>1. CASE Descriptor
  <2>1. frame_size' = frame_size
    BY <1>1 DEF Descriptor
  <2>2. CASE pc' = "exit" /\ UNCHANGED <<pos, fuel, highest>>
    BY <1>1, <2>1, <2>2, DescriptorTurns DEF FrameInv, EntryInFrame
  <2>3. CASE pc' = "walk" /\ \E end \in Nat : end + 1 <= frame_size /\ pos' = end + 1
                                   /\ fuel' = Fuel(frame_size) /\ Read(end)
    <3>1. PICK end \in Nat : end + 1 <= frame_size /\ pos' = end + 1
                             /\ fuel' = Fuel(frame_size) /\ Read(end)
      BY <2>3
    <3>2. highest' < frame_size
      <4>1. end < frame_size /\ end \in Int
        BY <3>1 DEF Typed
      <4> QED BY <3>1, <4>1, ReadHighest DEF FrameInv
    <3>3. blocks = <<>>
      BY <1>1 DEF Descriptor, FrameInv
    <3>4. pos' <= frame_size /\ fuel' * WordBytes > frame_size - pos'
      <4>1. Fuel(frame_size) * WordBytes \in Nat /\ frame_size \in Nat
        BY Products, FuelNat, Sizes DEF Typed
      <4> QED BY <3>1, <4>1, FuelCovers
    <3> QED BY <1>1, <2>1, <2>3, <3>2, <3>3, <3>4, DescriptorTurns DEF FrameInv
  <2> QED BY <1>1, <2>2, <2>3, DescriptorTurns
<1>2. CASE Walk
  <2>1. frame_size' = frame_size /\ pc = "walk"
    BY <1>2 DEF Walk, Refuse
  <2>2. CASE Stops /\ UNCHANGED <<pos, fuel, highest>>
    BY <2>1, <2>2 DEF Stops, FrameInv, EntryInFrame
  <2> QED BY <1>2, <2>1, <2>2, WalkTurns, WalkStops, EntryTaken
<1>3. ASSUME UNCHANGED <<frame_size, pos, fuel, highest, blocks>>,
             pc' \notin {"descriptor", "walk"} \/ pc' = pc
      PROVE  FrameInv'
  BY <1>3 DEF FrameInv, EntryInFrame
<1>4. CASE StagingStep
  <2>1. pc' \notin {"descriptor", "walk"} \/ pc' = pc
    BY <1>4 DEF StagingStep, Stage, Launch, Records, HostAllocFails, Measure, Return, Continue, CallFails
  <2>2. UNCHANGED <<frame_size, pos, fuel, highest, blocks>>
    BY <1>4 DEF StagingStep, Stage, Launch, Records, HostAllocFails, Measure
  <2> QED BY <1>3, <2>1, <2>2
<1>5. CASE AssemblyStep \/ Exit
  <2>1. UNCHANGED <<frame_size, pos, fuel, highest, blocks>>
    BY <1>5 DEF AssemblyStep, CopyStored, CopyDecoded, FlushLast, DrainCopies, VerifyTail, Exit
  <2>2. pc' \notin {"descriptor", "walk"} \/ pc' = pc
    BY <1>5 DEF AssemblyStep, CopyStored, CopyDecoded, FlushLast, DrainCopies, VerifyTail, Exit,
                Return, Continue
  <2> QED BY <1>3, <2>1, <2>2
<1>6. CASE Device
  BY <1>3, <1>6 DEF Device, DeviceStep, DeviceFault
<1>7. CASE UNCHANGED vars
  BY <1>3, <1>7 DEF vars
<1> QED BY <1>1, <1>2, <1>4, <1>5, <1>6, <1>7, Steps DEF EnvelopeStep

\* What the walk promises the assembly.
LEMMA TableHolds == Typed /\ FrameInv => TableInFrame
<1> SUFFICES ASSUME Typed, FrameInv PROVE TableInFrame
  OBVIOUS
<1>1. ASSUME pc = "walk" PROVE fuel > 0
  <2>3. fuel \in Nat /\ pos \in Nat /\ frame_size \in Nat /\ fuel * WordBytes \in Nat
    BY Products, Sizes DEF Typed
  <2>4. pos <= frame_size /\ fuel * WordBytes > frame_size - pos
    BY <1>1 DEF FrameInv
  <2>1. fuel * WordBytes > 0
    BY <2>3, <2>4
  <2>2. fuel = 0 => fuel * WordBytes = 0
    BY Sizes
  <2> QED BY <2>1, <2>2 DEF Typed
<1> QED BY <1>1 DEF TableInFrame, FrameInv, EntryInFrame

-----------------------------------------------------------------------------
(* Nothing but the batch is on the device before the assembly, and nothing  *)
(* at all where its answer is measured.                                     *)

Untouched == \A b \in DOMAIN out : out[b] = Caller
Nothing == i = 1 /\ k = 0 /\ off = 0 /\ run = NoRun
QuietInv ==
  /\ pc \notin Ended => status = "OK" /\ bytes_written = 0
  /\ pc \in Before => Untouched /\ Nothing /\ \A c \in DOMAIN work : work[c].len = 0
  /\ pc \in Before \ {"sync"} => work = <<>>
  /\ status = "OUTPUT_TOO_SMALL" => Untouched /\ work = <<>>
  /\ pc = "returned" => work = <<>>

LEMMA QuietInit == Init => QuietInv
BY DEF Init, QuietInv, Untouched, Nothing, Ended, Before

\* The host alone changes the answer, and only where it leaves the decode.
LEMMA Answers ==
  ASSUME QuietInv, EnvelopeStep \/ StagingStep \/ AssemblyStep \/ Exit
  PROVE  /\ pc' \notin Ended => status' = "OK" /\ bytes_written' = 0
         /\ status' = "OUTPUT_TOO_SMALL" => status = status' \/ Measure
<1> USE DEF answer
<1>1. CASE EnvelopeStep
  <2>1. pc \in Before
    BY <1>1 DEF EnvelopeStep, Descriptor, Walk, Before
  <2>2. status = "OK" /\ bytes_written = 0
    BY <2>1 DEF QuietInv, Before, Ended
  <2>3. CASE Descriptor
    <3>1. \/ status' = status /\ bytes_written' = bytes_written
          \/ pc' = "exit" /\ status' \in {"CORRUPT_INPUT", "UNSUPPORTED"}
      <4>2. PICK magic \in {"lz4", "skippable", "other"}, malformed \in BOOLEAN, declined \in BOOLEAN,
                 checked \in BOOLEAN,
                 d \in [block_checksum : BOOLEAN, content_size : BOOLEAN, content_checksum : BOOLEAN] :
              LET verdict == DescriptorVerdict(magic, malformed, declined, d, checked)
              IN IF verdict # "OK" THEN Return(verdict) ELSE Continue("walk")
        BY <2>3 DEF Descriptor
      <4>3. DescriptorVerdict(magic, malformed, declined, d, checked)
              \in {"OK", "CORRUPT_INPUT", "UNSUPPORTED"}
        BY DEF DescriptorVerdict
      <4> DEFINE verdict == DescriptorVerdict(magic, malformed, declined, d, checked)
      <4>4. IF verdict # "OK" THEN Return(verdict) ELSE Continue("walk")
        BY <4>2
      <4> HIDE DEF verdict
      <4>5. CASE verdict = "OK"
        BY <4>4, <4>5 DEF Continue
      <4>6. CASE verdict # "OK"
        <5>1. verdict \in {"CORRUPT_INPUT", "UNSUPPORTED"}
          BY <4>3, <4>6 DEF verdict
        <5> QED BY <4>4, <4>6, <5>1 DEF Return
      <4> QED BY <4>5, <4>6
    <3> QED BY <2>2, <3>1 DEF Ended
  <2>4. CASE Walk
    BY <2>2, <2>4 DEF Walk, Refuse, Return, Continue, Ended
  <2> QED BY <1>1, <2>3, <2>4 DEF EnvelopeStep
<1>2. CASE StagingStep
  <2>1. pc \in Before
    BY <1>2 DEF StagingStep, Stage, Launch, Records, HostAllocFails, Measure, Before
  <2>2. status = "OK" /\ bytes_written = 0
    BY <2>1 DEF QuietInv, Before, Ended
  <2> QED BY <1>2, <2>2 DEF StagingStep, Stage, Launch, Records, HostAllocFails, Measure, Ended,
            Return, Continue, CallFails
<1>3. CASE AssemblyStep
  <2>1. pc \in Assembling
    BY <1>3 DEF AssemblyStep, CopyStored, CopyDecoded, FlushLast, DrainCopies, VerifyTail, Assembling
  <2>2. status = "OK" /\ bytes_written = 0
    BY <2>1 DEF QuietInv, Assembling, Ended
  <2> QED BY <1>3, <2>2 DEF AssemblyStep, CopyStored, CopyDecoded, FlushLast, DrainCopies,
            VerifyTail, Ended, Return, Continue
<1>4. CASE Exit
  BY <1>4 DEF Exit, Ended
<1> QED BY <1>1, <1>2, <1>3, <1>4

\* Until the assembly the destination is the caller's and the device has no copy.
LEMMA BeforeStaysQuiet ==
  ASSUME Typed, QuietInv, EnvelopeStep \/ StagingStep
  PROVE  QuietInv'
<1> USE DEF staging, assembly, device, walk, envelope, answer
<1>1. pc \in Before /\ UNCHANGED <<out, i, k, off, run>>
  BY DEF EnvelopeStep, Descriptor, Walk, StagingStep, Stage, Launch, Records, HostAllocFails,
         Measure, Before
<1>2. Untouched /\ Nothing /\ \A c \in DOMAIN work : work[c].len = 0
  BY <1>1 DEF QuietInv
<1>3. Untouched' /\ Nothing'
  BY <1>1, <1>2 DEF Untouched, Nothing
<1>4. CASE Launch
  <2>1. work = <<>>
    BY <1>4 DEF QuietInv, Launch, Before
  <2>2. (pc' = "sync" /\ work' = Append(work, Batch)) \/ (pc' = "exit" /\ work' = work)
    <3>1. \/ Continue("sync") /\ work' = Append(work, Batch)
          \/ \E st \in {"UNSUPPORTED", "CUDA"} : Return(st) /\ UNCHANGED device
      BY <1>4, Zenon DEF Launch
    <3>2. UNCHANGED device => work' = work
      OBVIOUS
    <3> QED BY <3>1, <3>2, Zenon DEF Return, Continue
  <2>4. Batch \in Runs /\ Batch.len = 0
    BY DEF Batch, NoRun, Runs
  <2>3. \A c \in DOMAIN work' : work'[c].len = 0
    <3>1. work \in Seq(Runs) /\ Len(work) = 0
      BY <2>1 DEF Typed
    <3> HIDE DEF Batch
    <3>2. work' = Append(work, Batch) => DOMAIN work' = {1} /\ work'[1] = Batch
      BY <2>4, <3>1
    <3> QED BY <2>1, <2>2, <2>4, <3>2
  <2>5. status = "OK" /\ pc = "stage"
    BY <1>4 DEF QuietInv, Launch, Ended
  <2>6. status' # "OUTPUT_TOO_SMALL" /\ (pc' \notin Ended => status' = "OK" /\ bytes_written' = 0)
    BY <2>5, Answers DEF Measure
  <2> QED BY <1>3, <2>1, <2>2, <2>3, <2>6 DEF QuietInv, Before
<1>5. CASE ~Launch
  <2>1. work' = work
    BY <1>5 DEF EnvelopeStep, Descriptor, Walk, StagingStep, Stage, Records, HostAllocFails,
           Measure, CallFails
  <2>2. pc # "sync" => work = <<>>
    BY <1>1 DEF QuietInv
  <2>3. pc' \in Before \ {"sync"} => work = <<>>
    <3>1. pc = "sync" /\ pc' \in Before \ {"sync"} => work = <<>>
      BY <1>5 DEF EnvelopeStep, Descriptor, Walk, StagingStep, Stage, Records, HostAllocFails,
             Measure
    <3> QED BY <2>2, <3>1
  <2>4. pc' # "returned"
    BY <1>5 DEF EnvelopeStep, Descriptor, Walk, Refuse, StagingStep, Stage, Records, HostAllocFails,
           Measure, Return, Continue, CallFails
  <2>5. status' = "OUTPUT_TOO_SMALL" => work = <<>>
    BY <2>2, Answers DEF QuietInv, Measure
  <2> QED BY <1>2, <1>3, <2>1, <2>3, <2>4, <2>5, Answers DEF QuietInv
<1> QED BY <1>4, <1>5

\* The assembly answers nothing but a copy's failure; the guard drains the device.
LEMMA AssemblyStaysQuiet ==
  ASSUME QuietInv, AssemblyStep \/ Exit
  PROVE  QuietInv'
<1>1. CASE AssemblyStep
  <2>1. pc \in Assembling /\ pc' \notin Before \cup {"returned"}
    BY <1>1 DEF AssemblyStep, CopyStored, CopyDecoded, FlushLast, DrainCopies, VerifyTail,
                Assembling, Before, Return, Continue
  <2>2. status # "OUTPUT_TOO_SMALL"
    BY <2>1 DEF QuietInv, Assembling, Ended
  <2>3. status' # "OUTPUT_TOO_SMALL"
    BY <1>1, <2>1, <2>2, Answers DEF Measure, Assembling
  <2> QED BY <1>1, <2>1, <2>3, Answers DEF QuietInv
<1>2. CASE Exit
  <2>1. work = <<>> /\ pc' = "returned" /\ UNCHANGED <<status, out, work>>
    BY <1>2 DEF Exit, Drained, answer, device
  <2> QED BY <1>2, <2>1, Answers DEF QuietInv, Untouched, Before, Ended
<1> QED BY <1>1, <1>2

\* The device has work only where the invariant allows it.
LEMMA DeviceStaysQuiet ==
  ASSUME Typed, QuietInv, Device
  PROVE  QuietInv'
<1>1. UNCHANGED <<pc, status, bytes_written, i, k, off, run>> /\ work # <<>>
  BY DEF Device, DeviceStep, DeviceFault, answer, assembly
<1>2. pc \notin Before \ {"sync"} /\ status # "OUTPUT_TOO_SMALL" /\ pc # "returned"
  BY <1>1 DEF QuietInv
<1>3. ASSUME pc = "sync" PROVE Untouched' /\ \A c \in DOMAIN work' : work'[c].len = 0
  <2>1. Untouched /\ \A c \in DOMAIN work : work[c].len = 0
    BY <1>3 DEF QuietInv, Before
  <2>2. CASE DeviceFault
    BY <2>1, <2>2 DEF DeviceFault, Untouched
  <2>3. CASE DeviceStep
    <3>1. 1 \in DOMAIN work /\ Head(work) = work[1] /\ work[1] \in Runs /\ Len(work) \in Nat
      BY <1>1 DEF Typed
    <3>2. work[1].len = 0 /\ work[1].out \in Nat
      BY <2>1, <3>1 DEF Runs
    <3>3. DOMAIN out' = DOMAIN out /\ \A b \in DOMAIN out : out'[b] = out[b]
      BY SMTT(20), <2>3, <3>1, <3>2 DEF DeviceStep, Typed
    <3>4. \A c \in DOMAIN work' : c + 1 \in DOMAIN work /\ work'[c] = work[c + 1]
      BY SMTT(20), <2>3, <3>1 DEF DeviceStep, Typed
    <3> QED BY <2>1, <3>3, <3>4 DEF Untouched
  <2> QED BY <2>2, <2>3 DEF Device
<1>4. Nothing => Nothing'
  BY <1>1 DEF Nothing
<1>5. pc = "sync" => Nothing
  BY DEF QuietInv, Before
<1> QED BY <1>1, <1>2, <1>3, <1>4, <1>5 DEF QuietInv

LEMMA QuietStep == Typed /\ QuietInv /\ [Next]_vars => QuietInv'
<1> SUFFICES ASSUME Typed, QuietInv, [Next]_vars PROVE QuietInv'
  OBVIOUS
<1>1. CASE UNCHANGED vars
  <2>1. UNCHANGED <<pc, status, bytes_written, out, i, k, off, run, work>>
    BY <1>1 DEF vars, answer, assembly, device
  <2> QED BY <2>1 DEF QuietInv, Untouched, Nothing
<1> QED BY <1>1, Steps, BeforeStaysQuiet, AssemblyStaysQuiet, DeviceStaysQuiet

-----------------------------------------------------------------------------
(* Where the blocks lie. Offset and Slot add up over the table; the         *)
(* invariant speaks of the sums as two functions, since those stay where    *)
(* they are while the assembly runs.                                        *)

LEMMA Induction ==
  ASSUME NEW S, S \subseteq Nat, 0 \in S, \A m \in S : m + 1 \in S
  PROVE  Nat \subseteq S
<1> SUFFICES ASSUME Nat \ S # {} PROVE FALSE
  OBVIOUS
<1> DEFINE R == OpToRel(<, Nat)
<1>1. IsWellFoundedOn(R, Nat)
  BY NatLessThanWellFounded
<1>2. \A a, b \in Nat : a < b => <<a, b>> \in R
  BY DEF OpToRel
<1> HIDE DEF R
<1>3. PICK m \in Nat \ S : \A a \in Nat \ S : <<a, m>> \notin R
  BY <1>1, WFMin
<1>4. m # 0 /\ m - 1 \in Nat /\ m - 1 < m
  BY <1>3
<1>5. m - 1 \in S
  BY <1>2, <1>3, <1>4
<1>6. (m - 1) + 1 = m
  BY <1>4
<1> QED BY <1>3, <1>5, <1>6

\* The sums of a sequence of naturals: o[b] is what lies in front of b.
Sums(o, B, len) ==
  /\ o \in [1..B + 1 -> Nat] /\ o[1] = 0
  /\ \A b \in 1..B : o[b + 1] = o[b] + len[b]
  /\ \A b \in 1..B : \A c \in 1..B + 1 : b < c => o[b] + len[b] <= o[c]

LEMMA SumsGrow ==
  ASSUME NEW B \in Nat, NEW len, len[B + 1] \in Nat, NEW o, Sums(o, B, len)
  PROVE  Sums([c \in 1..B + 2 |-> IF c = B + 2 THEN o[B + 1] + len[B + 1] ELSE o[c]], B + 1, len)
<1> DEFINE h == [c \in 1..B + 2 |-> IF c = B + 2 THEN o[B + 1] + len[B + 1] ELSE o[c]]
<1>1. \A c \in 1..B + 1 : o[c] \in Nat /\ h[c] = o[c]
  BY DEF Sums
<1>2. h[B + 2] = o[B + 1] + len[B + 1] /\ h[B + 2] \in Nat
  <2>1. h[B + 2] = o[B + 1] + len[B + 1]
    OBVIOUS
  <2>2. o[B + 1] \in Nat
    <3>1. B + 1 \in 1..B + 1
      OBVIOUS
    <3> QED BY <3>1 DEF Sums
  <2> QED BY <2>1, <2>2
<1>3. h \in [1..B + 2 -> Nat] /\ h[1] = 0
  <2>1. \A c \in 1..B + 2 : c = B + 2 \/ c \in 1..B + 1
    OBVIOUS
  <2>2. \A c \in 1..B + 2 : h[c] \in Nat
    BY <1>1, <1>2, <2>1
  <2>3. h[1] = o[1] /\ o[1] = 0
    BY <1>1 DEF Sums
  <2> QED BY <2>2, <2>3
<1> HIDE DEF h
<1>4. ASSUME NEW b \in 1..B + 1 PROVE h[b + 1] = h[b] + len[b]
  <2>1. CASE b = B + 1
    <3>1. b + 1 = B + 2 /\ h[b] = o[B + 1]
      BY <1>1, <2>1
    <3> QED BY <1>2, <2>1, <3>1
  <2>2. CASE b \in 1..B
    <3>1. h[b] = o[b] /\ h[b + 1] = o[b + 1]
      BY <1>1, <2>2
    <3> QED BY <2>2, <3>1 DEF Sums
  <2> QED BY <2>1, <2>2
<1>5. ASSUME NEW b \in 1..B + 1, NEW c \in 1..B + 2, b < c PROVE h[b] + len[b] <= h[c]
  <2>1. CASE c \in 1..B + 1
    <3>1. b \in 1..B /\ h[b] = o[b] /\ h[c] = o[c]
      BY <1>1, <1>5, <2>1
    <3> QED BY <1>5, <2>1, <3>1 DEF Sums
  <2>2. CASE c = B + 2 /\ b \in 1..B
    <3>1. o[b] + len[b] <= o[B + 1] /\ h[b] = o[b] /\ o[B + 1] \in Nat
      BY <1>1, <2>2 DEF Sums
    <3>2. o[b] \in Nat /\ o[b + 1] = o[b] + len[b] /\ o[b + 1] \in Nat
      BY <1>1, <2>2 DEF Sums
    <3> QED BY <1>2, <2>2, <3>1, <3>2
  <2>3. CASE c = B + 2 /\ b = B + 1
    <3>1. h[b] = o[B + 1] /\ h[c] = o[B + 1] + len[B + 1] /\ h[c] \in Nat
      BY <1>1, <1>2, <2>3
    <3> QED BY <2>3, <3>1
  <2>4. b = B + 1 \/ b \in 1..B
    OBVIOUS
  <2> QED BY <2>1, <2>2, <2>3, <2>4
<1> QED BY <1>3, <1>4, <1>5 DEF Sums, h

LEMMA SumsExist ==
  ASSUME NEW B \in Nat, NEW len, \A b \in 1..B : len[b] \in Nat
  PROVE  \E o : Sums(o, B, len)
<1> DEFINE S == {m \in Nat : m <= B => \E o : Sums(o, m, len)}
<1>1. 0 \in S
  <2> DEFINE o == [c \in 1..1 |-> 0]
  <2>1. Sums(o, 0, len)
    BY DEF Sums
  <2> HIDE DEF o
  <2> QED BY <2>1
<1>2. ASSUME NEW m \in S PROVE m + 1 \in S
  <2> SUFFICES ASSUME m + 1 <= B PROVE \E o : Sums(o, m + 1, len)
    OBVIOUS
  <2>1. PICK o : Sums(o, m, len)
    OBVIOUS
  <2>2. len[m + 1] \in Nat
    OBVIOUS
  <2> QED BY <2>1, <2>2, SumsGrow
<1>3. S \subseteq Nat
  OBVIOUS
<1> HIDE DEF S
<1>4. B \in S
  BY <1>1, <1>2, <1>3, Induction
<1> QED BY <1>4 DEF S

SlotsOf(b) == IF blocks[b].uncompressed THEN 0 ELSE 1
Lens == [b \in 1..Len(blocks) |-> LenOf(b)]
SlotLens == [b \in 1..Len(blocks) |-> SlotsOf(b)]
Laid(o, s) ==
  /\ \A b \in DOMAIN blocks : LenOf(b) \in Nat
  /\ Sums(o, Len(blocks), Lens) /\ Sums(s, Len(blocks), SlotLens)

\* There is one layout of a decoded table.
LEMMA LaidExists ==
  ASSUME Typed, DecodedInBounds
  PROVE  \E o, s : Laid(o, s)
<1>1. Len(blocks) \in Nat /\ DOMAIN blocks = 1..Len(blocks)
  BY DEF Typed
<1>2. \A b \in DOMAIN blocks : LenOf(b) \in Nat
  <2> SUFFICES ASSUME NEW b \in DOMAIN blocks PROVE LenOf(b) \in Nat
    OBVIOUS
  <2>1. blocks[b] \in Entries
    BY DEF Typed
  <2>2. blocks[b].src_len \in Nat
    BY <2>1 DEF Entries
  <2>3. ~blocks[b].uncompressed => decoded[b] \in Nat
    BY Sizes DEF DecodedInBounds, Compressed
  <2> QED BY <2>2, <2>3 DEF LenOf
<1>3. \A b \in 1..Len(blocks) : Lens[b] \in Nat
  BY <1>1, <1>2 DEF Lens
<1>4. \A b \in 1..Len(blocks) : SlotLens[b] \in Nat
  BY DEF SlotLens, SlotsOf
<1>5. \E o : Sums(o, Len(blocks), Lens)
  BY <1>1, <1>3, SumsExist
<1>6. \E s : Sums(s, Len(blocks), SlotLens)
  BY <1>1, <1>4, SumsExist
<1> QED BY <1>2, <1>5, <1>6 DEF Laid

\* What it says of a block and of two.
LEMMA LaidFacts ==
  ASSUME Typed, NEW o, NEW s, Laid(o, s)
  PROVE  /\ Len(blocks) \in Nat /\ DOMAIN blocks = 1..Len(blocks)
         /\ o[1] = 0 /\ s[1] = 0
         /\ \A b \in 1..Len(blocks) + 1 : o[b] \in Nat /\ s[b] \in Nat
         /\ \A b \in 1..Len(blocks) :
              /\ LenOf(b) \in Nat
              /\ o[b + 1] = o[b] + LenOf(b) /\ s[b + 1] = s[b] + SlotsOf(b)
              /\ \A c \in 1..Len(blocks) + 1 : b < c => o[b] + LenOf(b) <= o[c]
<1>1. Len(blocks) \in Nat /\ DOMAIN blocks = 1..Len(blocks)
  BY DEF Typed
<1>2. Sums(o, Len(blocks), Lens) /\ Sums(s, Len(blocks), SlotLens)
      /\ \A b \in 1..Len(blocks) : LenOf(b) \in Nat
  BY <1>1 DEF Laid
<1>3. o[1] = 0 /\ s[1] = 0 /\ \A b \in 1..Len(blocks) + 1 : o[b] \in Nat /\ s[b] \in Nat
  BY <1>2 DEF Sums
<1>4. \A b \in 1..Len(blocks) : Lens[b] = LenOf(b) /\ SlotLens[b] = SlotsOf(b)
  BY DEF Lens, SlotLens
<1>5. ASSUME NEW b \in 1..Len(blocks)
      PROVE  /\ o[b + 1] = o[b] + LenOf(b) /\ s[b + 1] = s[b] + SlotsOf(b)
             /\ \A c \in 1..Len(blocks) + 1 : b < c => o[b] + LenOf(b) <= o[c]
  BY <1>2, <1>4 DEF Sums
<1> QED BY <1>1, <1>2, <1>3, <1>5

\* The recursive function of Offset computes it.
LEMMA OffsetIs ==
  ASSUME Typed, NEW o, NEW s, Laid(o, s), NEW b \in 1..Len(blocks) + 1
  PROVE  Offset(b) = o[b]
<1> DEFINE p[c \in 0..b] == IF c = 0 THEN 0 ELSE p[c - 1] + LenOf(c)
           g == [c \in 0..b |-> IF c = b THEN o[b] + LenOf(b) ELSE o[c + 1]]
<1>0. Len(blocks) \in Nat /\ b \in Nat
  BY LaidFacts
<1>1. ASSUME NEW c \in 0..b PROVE g[c] = IF c = 0 THEN 0 ELSE g[c - 1] + LenOf(c)
  <2>1. CASE c = 0
    BY <1>0, <2>1, LaidFacts
  <2>2. CASE c # 0 /\ c # b
    <3>1. c \in 1..Len(blocks) /\ g[c] = o[c + 1] /\ g[c - 1] = o[(c - 1) + 1] /\ (c - 1) + 1 = c
      BY <1>0, <2>2
    <3> QED BY <2>2, <3>1, LaidFacts
  <2>3. CASE c = b
    <3>1. g[c] = o[b] + LenOf(b) /\ g[c - 1] = o[(c - 1) + 1] /\ (c - 1) + 1 = b
      BY <1>0, <2>3
    <3> QED BY <2>3, <3>1
  <2> QED BY <2>1, <2>2, <2>3
<1>2. g = [c \in 0..b |-> IF c = 0 THEN 0 ELSE g[c - 1] + LenOf(c)]
  BY <1>1
<1>3. p = [c \in 0..b |-> IF c = 0 THEN 0 ELSE p[c - 1] + LenOf(c)]
  <2> HIDE DEF g
  <2>1. \E f : f = [c \in 0..b |-> IF c = 0 THEN 0 ELSE f[c - 1] + LenOf(c)]
    BY <1>2
  <2> QED BY <2>1
<1>4. Offset(b) = p[b - 1]
  BY DEF Offset, p
<1> HIDE DEF p, g
<1> DEFINE S == {m \in Nat : m < b => p[m] = o[m + 1]}
<1>5. 0 \in S
  BY <1>0, <1>3, LaidFacts
<1>6. ASSUME NEW m \in S PROVE m + 1 \in S
  <2> SUFFICES ASSUME m + 1 < b PROVE p[m + 1] = o[m + 2]
    OBVIOUS
  <2>1. m + 1 \in 1..Len(blocks) /\ m + 1 \in 0..b /\ (m + 1) - 1 = m /\ (m + 1) + 1 = m + 2
    BY <1>0
  <2>2. p[m] = o[m + 1] /\ m \in Nat
    BY <1>0
  <2>3. p[m + 1] = p[m] + LenOf(m + 1)
    BY <1>3, <2>1, <2>2
  <2> QED BY <2>1, <2>2, <2>3, LaidFacts
<1>7. S \subseteq Nat
  OBVIOUS
<1> HIDE DEF S
<1>8. Nat \subseteq S
  BY <1>5, <1>6, <1>7, Induction
<1>9. b - 1 \in Nat /\ b - 1 < b /\ (b - 1) + 1 = b
  BY <1>0
<1> QED BY <1>4, <1>8, <1>9 DEF S

\* A compressed block's slot is the number of those before it.
LEMMA SlotGrows ==
  ASSUME Typed, NEW b \in 1..Len(blocks)
  PROVE  Slot(b) \in Nat /\ Slot(b + 1) = Slot(b) + SlotsOf(b)
<1> DEFINE before == {c \in Compressed : c < b}
           upto == {c \in Compressed : c < b + 1}
<1>1. Len(blocks) \in Nat /\ DOMAIN blocks = 1..Len(blocks) /\ Compressed \subseteq 1..Len(blocks)
  BY DEF Typed, Compressed
<1>2. IsFiniteSet(before) /\ Cardinality(before) \in Nat
  BY CompressedFinite, FS_Subset, FS_CardinalityType
<1>5. Slot(b) = Cardinality(before) /\ Slot(b + 1) = Cardinality(upto)
  BY DEF Slot
<1>6. \A c \in Compressed : c < b + 1 <=> c < b \/ c = b
  <2>1. \A x, y \in Int : x < y + 1 <=> x < y \/ x = y
    OBVIOUS
  <2>2. b \in Int /\ \A c \in Compressed : c \in Int
    BY <1>1
  <2> QED BY <2>1, <2>2
<1>7. b \notin before
  BY <1>1
<1>3. CASE blocks[b].uncompressed
  <2>1. b \notin Compressed
    BY <1>3 DEF Compressed
  <2>2. upto = before
    BY <1>6, <2>1, Zenon
  <2> HIDE DEF before, upto
  <2> QED BY <1>2, <1>3, <1>5, <2>2 DEF SlotsOf
<1>4. CASE ~blocks[b].uncompressed
  <2>1. b \in Compressed
    BY <1>1, <1>4 DEF Compressed
  <2>2. upto = before \cup {b}
    BY <1>6, <2>1, Zenon
  <2> HIDE DEF before, upto
  <2>3. Cardinality(upto) = Cardinality(before) + 1
    BY <1>2, <1>7, <2>2, FS_AddElement
  <2> QED BY <1>2, <1>4, <1>5, <2>3 DEF SlotsOf
<1> QED BY <1>3, <1>4

LEMMA SlotIs ==
  ASSUME Typed, NEW o, NEW s, Laid(o, s), NEW b \in 1..Len(blocks) + 1
  PROVE  Slot(b) = s[b]
<1> DEFINE S == {m \in Nat : m <= Len(blocks) => Slot(m + 1) = s[m + 1]}
<1>0. Len(blocks) \in Nat
  BY LaidFacts
<1>1. 0 \in S
  <2>1. \A c \in Compressed : ~(c < 1)
    BY DEF Typed, Compressed
  <2>2. {c \in Compressed : c < 1} = {}
    BY <2>1
  <2>3. Slot(1) = 0
    BY <2>2, FS_EmptySet DEF Slot
  <2> QED BY <2>3, LaidFacts
<1>2. ASSUME NEW m \in S PROVE m + 1 \in S
  <2> SUFFICES ASSUME m + 1 <= Len(blocks) PROVE Slot((m + 1) + 1) = s[(m + 1) + 1]
    OBVIOUS
  <2>1. m + 1 \in 1..Len(blocks) /\ m <= Len(blocks)
    BY <1>0
  <2>2. Slot(m + 1) = s[m + 1]
    BY <2>1
  <2> QED BY <2>1, <2>2, SlotGrows, LaidFacts
<1>3. S \subseteq Nat
  OBVIOUS
<1> HIDE DEF S
<1>4. Nat \subseteq S
  BY <1>1, <1>2, <1>3, Induction
<1>5. b - 1 \in Nat /\ b - 1 <= Len(blocks) /\ (b - 1) + 1 = b
  BY <1>0
<1> QED BY <1>4, <1>5 DEF S

-----------------------------------------------------------------------------
(* The assembly. A byte in front of off is in the destination, or in a copy *)
(* that has yet to run, or the device is lost; and every copy takes, byte   *)
(* for byte, what the batch decoded for the block the byte lies in.         *)

BytesOf(o, b) == o[b] .. o[b] + LenOf(b) - 1
From(o, s, b, x) ==
  IF blocks[b].uncompressed THEN <<"frame", blocks[b].src_off + (x - o[b])>>
  ELSE <<"device", s[b] * BlockMax + (x - o[b])>>
Right(o, s, p) ==
  \A x \in OutOf(p) : \E b \in Compressed :
    x \in BytesOf(o, b) /\ p.dev + (x - p.out) = s[b] * BlockMax + (x - o[b])
EndOf(p) == p.out + p.len

Placed(o, s) ==
  /\ i \in 1..Len(blocks) + 1 /\ off = o[i] /\ k = s[i]
  /\ pc # "assemble" => i = Len(blocks) + 1
  /\ o[Len(blocks) + 1] <= DstCap
Queued(o, s) ==
  /\ \A c, e \in DOMAIN work : c < e => EndOf(work[c]) <= work[e].out
  /\ \A c \in DOMAIN work : Right(o, s, work[c])
Opened(o, s) ==
  /\ Right(o, s, run) /\ EndOf(run) <= off
  /\ \A c \in DOMAIN work : EndOf(work[c]) <= run.out
Due(x) ==
  \/ faulted
  \/ pc = "assemble" /\ x \in OutOf(run)
  \/ \E c \in DOMAIN work : x \in OutOf(work[c])
Brought(o, s) ==
  \A b \in 1..i - 1 : \A x \in BytesOf(o, b) :
    out[x] = From(o, s, b, x) \/ (b \in Compressed /\ Due(x))
Settled == pc = "tail" => Compressed = {} \/ (work = <<>> /\ ~faulted)
Assembled(o, s) ==
  /\ Placed(o, s) /\ Queued(o, s) /\ Brought(o, s) /\ Settled
  /\ pc = "assemble" => Opened(o, s)
AssemblyInv ==
  /\ pc \in Assembling => \E o, s : Laid(o, s) /\ Assembled(o, s)
  /\ bytes_written # 0 =>
       /\ pc \in Ended /\ status = "OK"
       /\ \E o, s : Laid(o, s) /\ bytes_written = o[Len(blocks) + 1]

\* A byte of a block lies behind the blocks before it and in front of those after.
LEMMA InBytes ==
  ASSUME Typed, NEW o, NEW s, Laid(o, s), NEW b \in 1..Len(blocks), NEW x \in BytesOf(o, b)
  PROVE  /\ x \in Nat /\ o[b] <= x /\ x < o[b] + LenOf(b)
         /\ \A c \in 1..Len(blocks) + 1 : b < c => x < o[c]
<1>1. o[b] \in Nat /\ LenOf(b) \in Nat
  BY LaidFacts
<1>2. x \in Nat /\ o[b] <= x /\ x < o[b] + LenOf(b)
  BY <1>1 DEF BytesOf
<1>3. ASSUME NEW c \in 1..Len(blocks) + 1, b < c PROVE x < o[c]
  <2>1. o[b] + LenOf(b) <= o[c] /\ o[c] \in Nat
    BY <1>3, LaidFacts
  <2> QED BY <1>1, <1>2, <2>1
<1> QED BY <1>2, <1>3

LEMMA BlocksApart ==
  ASSUME Typed, NEW o, NEW s, Laid(o, s), NEW b \in 1..Len(blocks), NEW c \in 1..Len(blocks),
         NEW x, x \in BytesOf(o, b), x \in BytesOf(o, c)
  PROVE  b = c
<1>1. ASSUME NEW d \in 1..Len(blocks), NEW e \in 1..Len(blocks), x \in BytesOf(o, d), x \in BytesOf(o, e)
      PROVE  ~(d < e)
  <2>1. d < e => x < o[e]
    BY <1>1, InBytes, LaidFacts
  <2>2. o[e] <= x /\ x \in Nat /\ o[e] \in Nat
    BY <1>1, InBytes, LaidFacts
  <2> QED BY <2>1, <2>2
<1>2. ~(b < c) /\ ~(c < b)
  BY <1>1
<1> QED BY <1>2

\* The table and the records do not change once the assembly has begun.
LEMMA LaidStays ==
  ASSUME NEW o, NEW s, UNCHANGED <<blocks, decoded>>
  PROVE  /\ Laid(o, s) => Laid(o, s)'
         /\ Compressed' = Compressed
         /\ \A b : LenOf(b)' = LenOf(b) /\ BytesOf(o, b)' = BytesOf(o, b)
         /\ \A b, x : From(o, s, b, x)' = From(o, s, b, x)
         /\ \A p : Right(o, s, p)' <=> Right(o, s, p)
<1>1. blocks' = blocks /\ decoded' = decoded
  OBVIOUS
<1>2. Compressed' = Compressed
  BY <1>1 DEF Compressed
<1>3. \A b : LenOf(b)' = LenOf(b)
  BY <1>1 DEF LenOf
<1>4. \A b : BytesOf(o, b)' = BytesOf(o, b)
  BY <1>3 DEF BytesOf
<1>5. \A b, x : From(o, s, b, x)' = From(o, s, b, x)
  BY <1>1 DEF From
<1>6. Lens' = Lens /\ SlotLens' = SlotLens
  BY <1>1 DEF Lens, SlotLens, LenOf, SlotsOf
<1>7. Laid(o, s) => Laid(o, s)'
  BY <1>1, <1>3, <1>6, Zenon DEF Laid
<1>8. \A p : Right(o, s, p)' <=> Right(o, s, p)
  BY <1>2, <1>4 DEF Right
<1> QED BY <1>2, <1>3, <1>4, <1>5, <1>7, <1>8

\* The assembly begins with nothing in front of it.
LEMMA AssemblyBegins ==
  ASSUME Typed, QuietInv, EnvelopeStep \/ StagingStep
  PROVE  AssemblyInv'
<1> USE DEF staging, assembly, device, walk, envelope, answer
<1>1. pc \in Before
  BY DEF EnvelopeStep, Descriptor, Walk, StagingStep, Stage, Launch, Records, HostAllocFails,
         Measure, Before
<1>2. bytes_written = 0
  BY <1>1 DEF QuietInv, Before, Ended
<1>3. bytes_written' = bytes_written
  BY DEF EnvelopeStep, Descriptor, Walk, Refuse, StagingStep, Stage, Launch, Records,
         HostAllocFails, Measure, CallFails, Return, Continue
<1>4. ASSUME pc' \in Assembling PROVE \E o, s : Laid(o, s)' /\ Assembled(o, s)'
  <2>1. /\ Measure /\ Total <= DstCap /\ pc' = "assemble"
        /\ UNCHANGED <<blocks, decoded, i, k, off, run, out, work, faulted>>
    BY <1>4 DEF EnvelopeStep, Descriptor, Walk, Refuse, StagingStep, Stage, Launch, Records,
         HostAllocFails, Measure, CallFails, Return, Continue, Assembling
  <2>2. DecodedInBounds /\ work = <<>> /\ i = 1 /\ k = 0 /\ off = 0 /\ run = NoRun
    BY <2>1 DEF Typed, Measure, QuietInv, Before, Nothing
  <2>3. PICK o, s : Laid(o, s)
    BY <2>2, LaidExists
  <2>4. Laid(o, s)'
    BY <2>1, <2>3, LaidStays
  <2>5. Placed(o, s)'
    <3>1. o[1] = 0 /\ s[1] = 0 /\ Len(blocks) \in Nat
      BY <2>3, LaidFacts
    <3>2. o[Len(blocks) + 1] <= DstCap
      <4>1. Len(blocks) + 1 \in 1..Len(blocks) + 1
        BY <3>1
      <4> QED BY <2>1, <2>3, <4>1, OffsetIs DEF Total
    <3> QED BY <2>1, <2>2, <3>1, <3>2 DEF Placed
  <2>6. Queued(o, s)'
    BY <2>1, <2>2 DEF Queued
  <2>7. Opened(o, s)'
    <3>1. OutOf(run) = {} /\ EndOf(run) = 0
      BY <2>2 DEF OutOf, NoRun, EndOf
    <3>2. OutOf(run') = {} /\ EndOf(run') = 0 /\ work' = <<>> /\ off' = 0
      BY <2>1, <2>2, <3>1
    <3>3. Right(o, s, run)'
      BY <3>2 DEF Right
    <3> QED BY <3>2, <3>3 DEF Opened
  <2>8. Brought(o, s)' /\ Settled'
    BY <2>1, <2>2 DEF Brought, Settled
  <2> QED BY <2>4, <2>5, <2>6, <2>7, <2>8 DEF Assembled
<1> QED BY <1>2, <1>3, <1>4 DEF AssemblyInv

\* A stored block is copied by the host, behind everything in front of it.
LEMMA StoredCopied ==
  ASSUME Typed, NEW o, NEW s, Laid(o, s), Assembled(o, s), CopyStored
  PROVE  Laid(o, s)' /\ Assembled(o, s)'
<1> USE DEF staging, assembly, device, walk, envelope, answer
<1>1. /\ pc = "assemble" /\ i <= Len(blocks) /\ blocks[i].uncompressed /\ pc' = pc
      /\ off' = off + blocks[i].src_len /\ i' = i + 1
      /\ UNCHANGED <<blocks, decoded, k, run, work, faulted>>
  BY DEF CopyStored
<1>2. i \in 1..Len(blocks) /\ Len(blocks) \in Nat /\ i' - 1 = i
  BY <1>1, LaidFacts DEF Typed
<1>3. LenOf(i) = blocks[i].src_len /\ SlotsOf(i) = 0
  BY <1>1 DEF LenOf, SlotsOf
<1>4. off = o[i] /\ k = s[i] /\ o[i] \in Nat /\ s[i] \in Nat /\ LenOf(i) \in Nat
      /\ o[Len(blocks) + 1] <= DstCap
  BY <1>2, LaidFacts DEF Assembled, Placed
<1>5. Placed(o, s)'
  <2>1. o[i + 1] = o[i] + LenOf(i) /\ s[i + 1] = s[i]
    BY <1>2, <1>3, <1>4, LaidFacts
  <2> QED BY <1>1, <1>2, <1>3, <1>4, <2>1 DEF Placed
<1>6. Laid(o, s)' /\ \A p : Right(o, s, p)' <=> Right(o, s, p)
  BY <1>1, LaidStays
<1>7. Queued(o, s)'
  BY <1>1, <1>6 DEF Assembled, Queued
<1>8. Opened(o, s)'
  <2>1. EndOf(run) <= off /\ EndOf(run) \in Nat
    BY SMTT(20), <1>1 DEF Assembled, Opened, Typed, Runs, EndOf
  <2>2. EndOf(run) <= off'
    BY <1>1, <1>3, <1>4, <2>1
  <2>3. Right(o, s, run)'
    BY <1>1, <1>6 DEF Assembled, Opened
  <2> QED BY <1>1, <2>2, <2>3 DEF Assembled, Opened
<1>9. \A x : Due(x) => Due(x)'
  BY <1>1 DEF Due
<1>10. Brought(o, s)'
  <2> SUFFICES ASSUME NEW b \in 1..i, NEW x \in BytesOf(o, b)
               PROVE  out'[x] = From(o, s, b, x) \/ (b \in Compressed /\ Due(x)')
    BY <1>1, <1>2, LaidStays DEF Brought
  <2>1. b \in 1..Len(blocks) /\ Len(blocks) + 1 \in 1..Len(blocks) + 1 /\ b < Len(blocks) + 1
    BY <1>2
  <2>2. x \in Nat /\ o[b] <= x /\ x < o[b] + LenOf(b) /\ x < o[Len(blocks) + 1]
    BY <2>1, InBytes
  <2>3. x \in 0..DstCap - 1
    BY SMTT(20), <1>4, <2>1, <2>2, Sizes, LaidFacts
  <2>4. out'[x] = IF x \in off..off + blocks[i].src_len - 1
                  THEN <<"frame", blocks[i].src_off + (x - off)>> ELSE out[x]
    BY <2>3 DEF CopyStored, Typed
  <2>5. CASE b = i
    <3>1. x \in off..off + blocks[i].src_len - 1
      BY <1>3, <1>4, <2>2, <2>5
    <3> QED BY <1>1, <1>4, <2>4, <2>5, <3>1 DEF From
  <2>6. CASE b # i
    <3>1. b \in 1..i - 1 /\ b < i /\ i \in 1..Len(blocks) + 1
      BY <1>2, <2>6
    <3>2. x < off
      BY <1>4, <2>1, <3>1, InBytes
    <3>3. out'[x] = out[x]
      BY <1>3, <1>4, <2>2, <2>4, <3>2
    <3> QED BY <1>9, <3>1, <3>3 DEF Assembled, Brought
  <2> QED BY <2>5, <2>6
<1> QED BY <1>1, <1>5, <1>6, <1>7, <1>8, <1>10 DEF Assembled, Settled

\* The queue takes the open run, behind the copies it holds; a run without a byte
\* needs no copy.
LEMMA RunFlushed ==
  ASSUME Typed, NEW o, NEW s, Assembled(o, s), pc = "assemble", Flushed,
         UNCHANGED <<blocks, decoded>>
  PROVE  /\ Queued(o, s)'
         /\ \A c \in DOMAIN work' : EndOf(work'[c]) <= EndOf(run)
         /\ \A x : x \in OutOf(run) \/ (\E c \in DOMAIN work : x \in OutOf(work[c]))
                     => \E c \in DOMAIN work' : x \in OutOf(work'[c])
<1>1. /\ work \in Seq(Runs) /\ run \in Runs /\ Len(work) \in Nat /\ DOMAIN work = 1..Len(work)
  BY DEF Typed
<1>2. run.len \in Nat /\ run.out \in Nat /\ EndOf(run) \in Nat /\ run.out <= EndOf(run)
  BY <1>1 DEF Runs, EndOf
<1>3. \A c \in DOMAIN work : EndOf(work[c]) \in Nat /\ EndOf(work[c]) <= run.out
  <2> SUFFICES ASSUME NEW c \in DOMAIN work PROVE EndOf(work[c]) \in Nat /\ EndOf(work[c]) <= run.out
    OBVIOUS
  <2>1. work[c] \in Runs
    BY <1>1
  <2> QED BY <2>1 DEF Assembled, Opened, Runs, EndOf
<1>4. \A p : Right(o, s, p)' <=> Right(o, s, p)
  BY LaidStays
<1>5. CASE run.len = 0
  <2>1. work' = work
    BY <1>5 DEF Flushed
  <2>2. \A x : x \notin OutOf(run)
    BY <1>2, <1>5 DEF OutOf
  <2>3. \A c \in DOMAIN work : EndOf(work[c]) <= EndOf(run)
    BY <1>2, <1>3
  <2> QED BY <1>4, <2>1, <2>2, <2>3 DEF Assembled, Queued
<1>6. CASE run.len # 0
  <2>1. work' = Append(work, run)
    BY <1>6 DEF Flushed
  <2>2. /\ DOMAIN work' = 1..Len(work) + 1 /\ work'[Len(work) + 1] = run
        /\ \A c \in DOMAIN work : work'[c] = work[c]
    BY <1>1, <2>1
  <2>3. \A c \in DOMAIN work' : c \in DOMAIN work \/ c = Len(work) + 1
    BY <1>1, <2>2
  <2>4. \A c \in DOMAIN work' : EndOf(work'[c]) <= EndOf(run)
    BY <1>2, <1>3, <2>2, <2>3
  <2>5. (\A c \in DOMAIN work : Right(o, s, work[c]))'
    <3> SUFFICES ASSUME NEW c \in DOMAIN work' PROVE Right(o, s, work[c])'
      OBVIOUS
    <3>1. PICK p : p = work'[c]
      OBVIOUS
    <3>2. Right(o, s, p)
      BY <2>2, <2>3, <3>1 DEF Assembled, Queued, Opened
    <3>3. Right(o, s, p)'
      BY <1>4, <3>2
    <3> QED BY <3>1, <3>3 DEF Right
  <2>6. ASSUME NEW c \in DOMAIN work', NEW e \in DOMAIN work', c < e
        PROVE  EndOf(work'[c]) <= work'[e].out
    <3>1. c \in DOMAIN work
      BY <1>1, <2>2, <2>6
    <3>2. CASE e \in DOMAIN work
      BY <2>2, <2>6, <3>1, <3>2 DEF Assembled, Queued
    <3>3. CASE e = Len(work) + 1
      BY <1>3, <2>2, <3>1, <3>3
    <3> QED BY <2>3, <3>2, <3>3
  <2>7. Queued(o, s)'
    BY <2>5, <2>6 DEF Queued, EndOf
  <2>8. Len(work) + 1 \in DOMAIN work' /\ \A c \in DOMAIN work : c \in DOMAIN work'
    BY <1>1, <2>2
  <2>9. \A x : x \in OutOf(run) \/ (\E c \in DOMAIN work : x \in OutOf(work[c]))
                 => \E c \in DOMAIN work' : x \in OutOf(work'[c])
    BY <2>2, <2>8
  <2> QED BY <2>4, <2>7, <2>9
<1> QED BY <1>5, <1>6

\* A compressed block joins the run behind it, or leaves it to the queue.
LEMMA DecodedTurns ==
  ASSUME CopyDecoded, pc' # "exit"
  PROVE  /\ pc = "assemble" /\ i <= Len(blocks) /\ ~blocks[i].uncompressed /\ pc' = pc
         /\ off' = off + decoded[i] /\ k' = k + 1 /\ i' = i + 1
         /\ UNCHANGED <<blocks, decoded, out, faulted>>
         /\ \/ /\ Contiguous(k * BlockMax) /\ work' = work
               /\ run' = [run EXCEPT !.len = @ + decoded[i]]
            \/ /\ Flushed
               /\ run' = [dev |-> k * BlockMax, out |-> off, len |-> decoded[i]]
<1>1. /\ pc = "assemble" /\ i <= Len(blocks) /\ ~blocks[i].uncompressed
      /\ UNCHANGED <<blocks, decoded, out>>
  BY DEF CopyDecoded, walk, staging
<1>2. /\ \/ /\ Contiguous(k * BlockMax) /\ UNCHANGED work
            /\ run' = [run EXCEPT !.len = @ + decoded[i]]
         \/ /\ Flushed
            /\ run' = [dev |-> k * BlockMax, out |-> off, len |-> decoded[i]]
      /\ off' = off + decoded[i] /\ k' = k + 1 /\ i' = i + 1
      /\ UNCHANGED <<pc, answer, faulted>>
  BY Zenon DEF CopyDecoded, Return
<1>3. pc' = pc /\ faulted' = faulted /\ (UNCHANGED work => work' = work)
  BY <1>2
<1> QED BY <1>1, <1>2, <1>3, Zenon

\* The run that holds the block behind it: its bytes are those it had and the block's.
LEMMA RunGrows ==
  ASSUME Typed, NEW o, NEW s, Laid(o, s), Assembled(o, s), CopyDecoded, pc' # "exit"
  PROVE  /\ Right(o, s, run)' /\ EndOf(run') = off'
         /\ \A x \in BytesOf(o, i) : x \in OutOf(run')
         /\ \/ work' = work /\ run'.out = run.out /\ \A x \in OutOf(run) : x \in OutOf(run')
            \/ Flushed /\ run'.out = off
<1> DEFINE dev == k * BlockMax
<1>1. i \in 1..Len(blocks) /\ Len(blocks) \in Nat /\ DOMAIN blocks = 1..Len(blocks)
  BY DecodedTurns, LaidFacts DEF Typed
<1>2. i \in Compressed /\ LenOf(i) = decoded[i]
  BY <1>1, DecodedTurns DEF Compressed, LenOf
<1>3. off = o[i] /\ k = s[i] /\ o[i] \in Nat /\ s[i] \in Nat /\ decoded[i] \in Nat /\ dev \in Nat
  BY <1>1, <1>2, LaidFacts, Products, Sizes DEF Assembled, Placed
<1>4. \A p : Right(o, s, p)' <=> Right(o, s, p)
  BY DecodedTurns, LaidStays
<1>5. off' = off + decoded[i]
  BY DecodedTurns
<1>6. \A x : x \in BytesOf(o, i) <=> x \in off..off + decoded[i] - 1
  BY <1>2, <1>3 DEF BytesOf
<1> HIDE DEF dev
<1>7. CASE Contiguous(dev) /\ work' = work /\ run' = [run EXCEPT !.len = @ + decoded[i]]
  <2>1. run \in Runs /\ run.dev \in Nat /\ run.out \in Nat /\ run.len \in Nat
    BY DEF Typed, Runs
  <2>2. run'.dev = run.dev /\ run'.out = run.out /\ run'.len = run.len + decoded[i]
    BY <1>7, <2>1 DEF Runs
  <2>3. run.dev + run.len = dev /\ run.out + run.len = off
    BY <1>7 DEF Contiguous
  <2>4. EndOf(run') = off'
    BY <1>3, <1>5, <2>1, <2>2, <2>3 DEF EndOf
  <2>5. \A x : x \in OutOf(run') <=> x \in OutOf(run) \/ x \in off..off + decoded[i] - 1
    <3>1. \A x : x \in OutOf(run') <=> x \in run.out..run.out + (run.len + decoded[i]) - 1
      BY <2>2 DEF OutOf
    <3>2. \A x : x \in OutOf(run) <=> x \in run.out..run.out + run.len - 1
      BY DEF OutOf
    <3>3. \A x : x \in run.out..run.out + (run.len + decoded[i]) - 1
                   <=> \/ x \in run.out..run.out + run.len - 1
                       \/ x \in off..off + decoded[i] - 1
      BY <1>3, <2>1, <2>3
    <3> QED BY <3>1, <3>2, <3>3
  <2>6. Right(o, s, run)'
    <3> SUFFICES ASSUME NEW x \in OutOf(run')
                 PROVE  \E b \in Compressed :
                          x \in BytesOf(o, b) /\ run.dev + (x - run.out) = s[b] * BlockMax + (x - o[b])
      BY <2>2, DecodedTurns, LaidStays DEF Right
    <3>1. CASE x \in OutOf(run)
      BY <3>1, DecodedTurns DEF Assembled, Opened, Right
    <3>2. CASE x \in off..off + decoded[i] - 1
      <4>1. x \in Int /\ run.dev + (x - run.out) = dev + (x - off)
        BY <1>3, <2>1, <2>3, <3>2
      <4>2. dev = s[i] * BlockMax
        BY <1>3 DEF dev
      <4>3. run.dev + (x - run.out) = s[i] * BlockMax + (x - o[i])
        BY <1>3, <4>1, <4>2, Zenon
      <4>4. x \in BytesOf(o, i)
        BY <1>6, <3>2
      <4> QED BY <1>2, <4>3, <4>4
    <3> QED BY <2>5, <3>1, <3>2
  <2> QED BY <1>6, <1>7, <2>2, <2>4, <2>5, <2>6
<1>8. CASE Flushed /\ run' = [dev |-> dev, out |-> off, len |-> decoded[i]]
  <2>1. run'.dev = dev /\ run'.out = off /\ run'.len = decoded[i]
    BY <1>8
  <2>2. \A x : x \in OutOf(run') <=> x \in off..off + decoded[i] - 1
    BY <2>1 DEF OutOf
  <2>3. Right(o, s, run)'
    <3> SUFFICES ASSUME NEW x \in OutOf(run')
                 PROVE  \E b \in Compressed :
                          x \in BytesOf(o, b) /\ dev + (x - off) = s[b] * BlockMax + (x - o[b])
      BY <2>1, DecodedTurns, LaidStays DEF Right
    <3>1. dev = s[i] * BlockMax
      BY <1>3 DEF dev
    <3> QED BY <1>2, <1>3, <1>6, <2>2, <3>1
  <2>4. EndOf(run') = off'
    BY <1>5, <2>1 DEF EndOf
  <2> QED BY <1>6, <1>8, <2>1, <2>2, <2>3, <2>4
<1> QED BY <1>7, <1>8, DecodedTurns DEF dev

LEMMA DecodedCopied ==
  ASSUME Typed, NEW o, NEW s, Laid(o, s), Assembled(o, s), CopyDecoded, pc' # "exit"
  PROVE  Laid(o, s)' /\ Assembled(o, s)'
<1>1. /\ pc = "assemble" /\ pc' = pc /\ off' = off + decoded[i] /\ k' = k + 1 /\ i' = i + 1
      /\ i \in 1..Len(blocks) /\ Len(blocks) \in Nat /\ ~blocks[i].uncompressed
      /\ UNCHANGED <<blocks, decoded, out, faulted>>
  BY DecodedTurns, LaidFacts DEF Typed
<1>2. i \in Compressed /\ LenOf(i) = decoded[i] /\ SlotsOf(i) = 1
  BY <1>1, LaidFacts DEF Compressed, LenOf, SlotsOf
<1>3. off = o[i] /\ k = s[i] /\ o[Len(blocks) + 1] <= DstCap
  BY <1>1 DEF Assembled, Placed
<1>4. Placed(o, s)'
  <2>1. o[i + 1] = o[i] + LenOf(i) /\ s[i + 1] = s[i] + 1
    BY <1>1, <1>2, LaidFacts
  <2> QED BY <1>1, <1>2, <1>3, <2>1 DEF Placed
<1>5. Laid(o, s)'
  BY <1>1, LaidStays
<1>6. /\ Queued(o, s)'
      /\ \A c \in DOMAIN work' : EndOf(work'[c]) <= run'.out
      /\ \A x : Due(x) => Due(x)'
  <2>1. CASE work' = work /\ run'.out = run.out /\ \A x \in OutOf(run) : x \in OutOf(run')
    <3>1. Queued(o, s)'
      <4>1. \A p : Right(o, s, p)' <=> Right(o, s, p)
        BY <1>1, LaidStays
      <4> QED BY <2>1, <4>1 DEF Assembled, Queued
    <3> QED BY <1>1, <2>1, <3>1 DEF Assembled, Opened, Due
  <2>2. CASE Flushed /\ run'.out = off
    <3>1. EndOf(run) <= off /\ EndOf(run) \in Nat /\ off \in Nat
      BY SMTT(20), <1>1 DEF Assembled, Opened, Typed, Runs, EndOf
    <3>2. \A c \in DOMAIN work' : EndOf(work'[c]) <= run'.out
      <4>1. \A c \in DOMAIN work' : EndOf(work'[c]) <= EndOf(run) /\ EndOf(work'[c]) \in Int
        <5>1. work' \in Seq(Runs)
          BY <2>2 DEF Flushed, Typed
        <5>2. \A p \in Runs : EndOf(p) \in Int
          BY DEF Runs, EndOf
        <5>3. \A c \in DOMAIN work' : work'[c] \in Runs
          BY <5>1
        <5> QED BY <1>1, <2>2, <5>2, <5>3, RunFlushed
      <4> QED BY <2>2, <3>1, <4>1
    <3>3. \A x : Due(x) => Due(x)'
      BY <1>1, <2>2, RunFlushed DEF Due
    <3> QED BY <1>1, <2>2, <3>2, <3>3, RunFlushed
  <2> QED BY <2>1, <2>2, RunGrows
<1>7. Opened(o, s)'
  <2>1. EndOf(run') = off' /\ off' \in Int
    BY <1>1, <1>2, <1>3, LaidFacts, RunGrows
  <2> QED BY <1>6, <2>1, RunGrows DEF Opened
<1>8. Brought(o, s)'
  <2> SUFFICES ASSUME NEW b \in 1..i, NEW x \in BytesOf(o, b)
               PROVE  out[x] = From(o, s, b, x) \/ (b \in Compressed /\ Due(x)')
    <3>1. i' - 1 = i
      BY <1>1
    <3> QED BY <1>1, <3>1, LaidStays DEF Brought
  <2>1. CASE b = i
    BY <1>1, <1>2, <2>1, RunGrows DEF Due
  <2>2. CASE b # i
    <3>1. b \in 1..i - 1
      BY <1>1, <2>2
    <3> QED BY <1>6, <3>1 DEF Assembled, Brought
  <2> QED BY <2>1, <2>2
<1> QED BY <1>1, <1>4, <1>5, <1>6, <1>7, <1>8 DEF Assembled, Settled

\* The last run is queued; the drain waits for the copies, or for nothing where no
\* block was compressed.
LEMMA LastFlushed ==
  ASSUME Typed, NEW o, NEW s, Laid(o, s), Assembled(o, s), FlushLast, pc' # "exit"
  PROVE  Laid(o, s)' /\ Assembled(o, s)'
<1>1. /\ pc = "assemble" /\ i > Len(blocks) /\ pc' = "drain" /\ Flushed
      /\ UNCHANGED <<blocks, decoded, i, k, off, out, faulted>>
  BY DEF FlushLast, Return, Continue, walk, staging, assembly
<1>2. Len(blocks) \in Nat /\ i \in Nat
  BY DEF Typed
<1>3. Placed(o, s)'
  BY <1>1, <1>2 DEF Assembled, Placed
<1>4. Laid(o, s)' /\ Queued(o, s)' /\ \A x : Due(x) => Due(x)'
  BY <1>1, LaidStays, RunFlushed DEF Due
<1>5. Brought(o, s)'
  BY <1>1, <1>4, LaidStays DEF Assembled, Brought
<1> QED BY <1>1, <1>3, <1>4, <1>5 DEF Assembled, Settled

LEMMA CopiesDrained ==
  ASSUME Typed, NEW o, NEW s, Laid(o, s), Assembled(o, s), DrainCopies, pc' # "exit"
  PROVE  Laid(o, s)' /\ Assembled(o, s)'
<1>1. /\ pc = "drain" /\ pc' = "tail" /\ (n = 0 \/ work = <<>>) /\ (n = 0 \/ ~faulted)
      /\ UNCHANGED <<blocks, decoded, i, k, off, run, out, work, faulted>>
  BY DEF DrainCopies, Return, Continue, walk, staging, assembly, device
<1>2. Laid(o, s)' /\ Placed(o, s)'
  BY <1>1, LaidStays DEF Assembled, Placed
<1>3. Queued(o, s)'
  <2>1. \A p : Right(o, s, p)' <=> Right(o, s, p)
    BY <1>1, LaidStays
  <2> QED BY <1>1, <2>1 DEF Assembled, Queued
<1>4. Brought(o, s)'
  BY <1>1, LaidStays DEF Assembled, Brought, Due
<1>5. Settled'
  <2>1. n = 0 => Compressed = {}
    BY CompressedFinite
  <2>2. Compressed' = Compressed
    BY <1>1, LaidStays
  <2> QED BY <1>1, <2>1, <2>2 DEF Settled
<1> QED BY <1>1, <1>2, <1>3, <1>4, <1>5 DEF Assembled

\* A copy puts the bytes of its blocks, and no other, where they belong.
LEMMA CopyPerformed ==
  ASSUME Typed, NEW o, NEW s, Laid(o, s), Assembled(o, s), DeviceStep
  PROVE  Laid(o, s)' /\ Assembled(o, s)'
<1> DEFINE p == work[1]
<1>1. /\ work # <<>> /\ work' = SubSeq(work, 2, Len(work))
      /\ UNCHANGED <<pc, blocks, decoded, i, k, off, run, faulted>>
  BY DEF DeviceStep, walk, staging, assembly
<1>2. /\ 1 \in DOMAIN work /\ Head(work) = p /\ p \in Runs /\ Len(work) \in Nat
      /\ DOMAIN work = 1..Len(work)
  BY <1>1 DEF Typed
<1>3. /\ DOMAIN work' = 1..Len(work) - 1
      /\ \A c \in DOMAIN work' : c + 1 \in DOMAIN work /\ work'[c] = work[c + 1]
  BY SMTT(20), <1>1, <1>2 DEF Typed
<1>4. Laid(o, s)' /\ Placed(o, s)'
  BY <1>1, LaidStays DEF Assembled, Placed
<1>5. Queued(o, s)'
  <2>1. ASSUME NEW c \in DOMAIN work', NEW e \in DOMAIN work', c < e
        PROVE  EndOf(work'[c]) <= work'[e].out
    <3>1. c + 1 < e + 1 /\ c + 1 \in DOMAIN work /\ e + 1 \in DOMAIN work
      BY <1>2, <1>3, <2>1
    <3>2. EndOf(work[c + 1]) <= work[e + 1].out
      BY <3>1 DEF Assembled, Queued
    <3> QED BY <1>3, <3>2
  <2>2. ASSUME NEW c \in DOMAIN work' PROVE Right(o, s, work[c])'
    <3>1. PICK q : q = work'[c]
      OBVIOUS
    <3>2. Right(o, s, q)
      BY <1>3, <3>1 DEF Assembled, Queued
    <3>3. Right(o, s, q)'
      BY <1>1, <3>2, LaidStays
    <3> QED BY <3>1, <3>3 DEF Right
  <2> QED BY <2>1, <2>2 DEF Queued, EndOf
<1>6. pc = "assemble" => Opened(o, s)'
  <2> SUFFICES ASSUME pc = "assemble" PROVE Opened(o, s)'
    OBVIOUS
  <2>1. Right(o, s, run)'
    BY <1>1, LaidStays DEF Assembled, Opened, Right
  <2> QED BY <1>1, <1>3, <2>1 DEF Assembled, Opened, EndOf
<1>7. Brought(o, s)'
  <2> SUFFICES ASSUME NEW b \in 1..i - 1, NEW x \in BytesOf(o, b)
               PROVE  out'[x] = From(o, s, b, x) \/ (b \in Compressed /\ Due(x)')
    BY <1>1, LaidStays DEF Brought
  <2>1. /\ b \in 1..Len(blocks) /\ DOMAIN blocks = 1..Len(blocks) /\ Len(blocks) + 1 \in 1..Len(blocks) + 1
        /\ b < Len(blocks) + 1
    BY LaidFacts DEF Assembled, Placed
  <2>2. x \in 0..DstCap - 1
    <3>1. x \in Nat /\ x < o[Len(blocks) + 1]
      BY <2>1, InBytes
    <3>2. o[Len(blocks) + 1] \in Nat /\ o[Len(blocks) + 1] <= DstCap
      BY <2>1, LaidFacts DEF Assembled, Placed
    <3> QED BY <3>1, <3>2, Sizes
  <2>3. out'[x] = IF x \in OutOf(p) THEN <<"device", p.dev + (x - p.out)>> ELSE out[x]
    BY <1>2, <2>2 DEF DeviceStep, Typed, OutOf
  <2>4. CASE x \in OutOf(p)
    <3>1. PICK c \in Compressed :
            x \in BytesOf(o, c) /\ p.dev + (x - p.out) = s[c] * BlockMax + (x - o[c])
      BY <1>2, <2>4 DEF Assembled, Queued, Right
    <3>2. c \in 1..Len(blocks) /\ ~blocks[c].uncompressed
      BY <2>1 DEF Compressed
    <3>3. b = c
      BY <2>1, <3>1, <3>2, BlocksApart
    <3> QED BY <2>3, <2>4, <3>1, <3>2, <3>3 DEF From
  <2>5. CASE x \notin OutOf(p)
    <3>1. out'[x] = out[x]
      BY <2>3, <2>5
    <3>2. ASSUME NEW c \in DOMAIN work, x \in OutOf(work[c])
          PROVE  \E e \in DOMAIN work' : x \in OutOf(work'[e])
      <4>1. c # 1
        BY <2>5, <3>2
      <4>2. c - 1 \in DOMAIN work' /\ (c - 1) + 1 = c
        BY <1>2, <1>3, <4>1
      <4>3. work'[c - 1] = work[c]
        BY <1>3, <4>2
      <4> QED BY <3>2, <4>2, <4>3
    <3>3. Due(x) => Due(x)'
      BY <1>1, <3>2 DEF Due
    <3> QED BY <3>1, <3>3 DEF Assembled, Brought
  <2> QED BY <2>4, <2>5
<1>8. Settled'
  <2>1. Compressed' = Compressed
    BY <1>1, LaidStays
  <2> QED BY <1>1, <2>1 DEF Assembled, Settled
<1> QED BY <1>1, <1>4, <1>5, <1>6, <1>7, <1>8 DEF Assembled

\* A fault loses every copy, and every byte of one with it.
LEMMA CopiesLost ==
  ASSUME Typed, NEW o, NEW s, Laid(o, s), Assembled(o, s), DeviceFault
  PROVE  Laid(o, s)' /\ Assembled(o, s)'
<1>1. /\ work # <<>> /\ work' = <<>> /\ faulted'
      /\ UNCHANGED <<pc, blocks, decoded, i, k, off, run, out>>
  BY DEF DeviceFault, walk, staging, assembly
<1>2. Laid(o, s)' /\ Placed(o, s)' /\ Queued(o, s)'
  BY <1>1, LaidStays DEF Assembled, Placed, Queued
<1>3. pc = "assemble" => Opened(o, s)'
  <2>1. pc = "assemble" => Right(o, s, run)'
    BY <1>1, LaidStays DEF Assembled, Opened, Right
  <2> QED BY <1>1, <2>1 DEF Assembled, Opened
<1>4. Brought(o, s)'
  BY <1>1, LaidStays DEF Assembled, Brought, Due
<1>5. Settled'
  <2>1. Compressed' = Compressed
    BY <1>1, LaidStays
  <2> QED BY <1>1, <2>1 DEF Assembled, Settled
<1> QED BY <1>1, <1>2, <1>3, <1>4, <1>5 DEF Assembled

LEMMA AssemblyStays ==
  ASSUME Typed, QuietInv, AssemblyInv, AssemblyStep \/ Exit
  PROVE  AssemblyInv'
<1> USE DEF answer
<1>1. UNCHANGED <<blocks, decoded>>
  BY DEF AssemblyStep, CopyStored, CopyDecoded, FlushLast, DrainCopies, VerifyTail, Exit, walk, staging
<1>2. CASE Exit
  <2>1. pc \notin Assembling /\ pc' \in Ended /\ pc' \notin Assembling
        /\ UNCHANGED <<status, bytes_written>>
    BY <1>2 DEF Exit, Assembling, Ended
  <2> QED BY <1>1, <2>1, LaidStays DEF AssemblyInv
<1>3. CASE AssemblyStep
  <2>1. pc \in Assembling
    BY <1>3 DEF AssemblyStep, CopyStored, CopyDecoded, FlushLast, DrainCopies, VerifyTail, Assembling
  <2>2. status = "OK" /\ bytes_written = 0
    BY <2>1 DEF QuietInv, Assembling, Ended
  <2>3. PICK o, s : Laid(o, s) /\ Assembled(o, s)
    BY <2>1 DEF AssemblyInv
  <2>4. CASE VerifyTail
    <3>1. pc' = "exit"
      BY <2>4 DEF VerifyTail, Return
    <3>2. bytes_written' # 0 => bytes_written' = Total /\ status' = "OK"
      BY <2>2, <2>4 DEF VerifyTail, Return
    <3>3. Total = o[Len(blocks) + 1]
      <4>1. Len(blocks) + 1 \in 1..Len(blocks) + 1
        BY DEF Typed
      <4> QED BY <2>3, <4>1, OffsetIs DEF Total
    <3>4. Laid(o, s)' /\ Len(blocks)' = Len(blocks)
      BY <1>1, <2>3, LaidStays
    <3> QED BY <3>1, <3>2, <3>3, <3>4 DEF AssemblyInv, Assembling, Ended
  <2>5. CASE ~VerifyTail
    <3>1. bytes_written' = bytes_written
      BY <1>3, <2>5 DEF AssemblyStep, CopyStored, CopyDecoded, FlushLast, DrainCopies, Return, Continue
    <3>2. pc' # "exit" => Laid(o, s)' /\ Assembled(o, s)'
      BY <1>3, <2>3, <2>5, StoredCopied, DecodedCopied, LastFlushed, CopiesDrained DEF AssemblyStep
    <3> QED BY <2>2, <3>1, <3>2 DEF AssemblyInv, Assembling
  <2> QED BY <2>4, <2>5
<1> QED BY <1>2, <1>3

LEMMA AssemblyOutlivesDevice ==
  ASSUME Typed, AssemblyInv, Device
  PROVE  AssemblyInv'
<1>1. UNCHANGED <<pc, status, bytes_written, blocks, decoded>>
  BY DEF Device, DeviceStep, DeviceFault, answer, walk, staging
<1>2. ASSUME NEW o, NEW s, Laid(o, s), Assembled(o, s) PROVE Laid(o, s)' /\ Assembled(o, s)'
  BY <1>2, CopyPerformed, CopiesLost DEF Device
<1> QED BY <1>1, <1>2, LaidStays DEF AssemblyInv

LEMMA AssemblyInvStep == Typed /\ QuietInv /\ AssemblyInv /\ [Next]_vars => AssemblyInv'
<1> SUFFICES ASSUME Typed, QuietInv, AssemblyInv, [Next]_vars PROVE AssemblyInv'
  OBVIOUS
<1>1. CASE UNCHANGED vars
  <2>1. UNCHANGED <<pc, status, bytes_written, blocks, decoded, i, k, off, run, out, work, faulted>>
    BY <1>1 DEF vars, answer, walk, staging, assembly, device
  <2>2. ASSUME NEW o, NEW s, Assembled(o, s) PROVE Assembled(o, s)'
    <3>1. \A p : Right(o, s, p)' <=> Right(o, s, p)
      BY <2>1, LaidStays
    <3>2. Queued(o, s)' /\ (pc = "assemble" => Opened(o, s)')
      BY <2>1, <2>2, <3>1 DEF Assembled, Queued, Opened
    <3>3. Brought(o, s)'
      BY <2>1, <2>2, LaidStays DEF Assembled, Brought, Due
    <3>4. Placed(o, s)' /\ Settled'
      BY <2>1, <2>2, LaidStays DEF Assembled, Placed, Settled
    <3> QED BY <2>1, <3>2, <3>3, <3>4 DEF Assembled
  <2> QED BY <2>1, <2>2, LaidStays DEF AssemblyInv
<1> QED BY <1>1, Steps, AssemblyBegins, AssemblyStays, AssemblyOutlivesDevice

\* What the invariant says of the copies, and of the destination at the tail.
LEMMA CopiesHold ==
  ASSUME Typed, NEW o, NEW s, Laid(o, s), Assembled(o, s)
  PROVE  /\ \A c \in DOMAIN work :
              /\ work[c].dev .. work[c].dev + work[c].len - 1 \subseteq DecodedBytes
              /\ OutOf(work[c]) \subseteq DOMAIN out \ StoredBytes
         /\ \A c, e \in DOMAIN work : c # e => OutOf(work[c]) \cap OutOf(work[e]) = {}
<1>1. DOMAIN work = 1..Len(work) /\ \A c \in DOMAIN work : work[c] \in Runs
  BY DEF Typed
<1>2. /\ DOMAIN blocks = 1..Len(blocks) /\ Compressed \subseteq 1..Len(blocks) /\ Len(blocks) \in Nat
      /\ \A b \in 1..Len(blocks) : b \in 1..Len(blocks) + 1 /\ b < Len(blocks) + 1
      /\ Len(blocks) + 1 \in 1..Len(blocks) + 1
  BY LaidFacts DEF Compressed
<1>3. ASSUME NEW c \in DOMAIN work, NEW x \in OutOf(work[c])
      PROVE  \E b \in Compressed :
               x \in BytesOf(o, b) /\ work[c].dev + (x - work[c].out) = s[b] * BlockMax + (x - o[b])
  BY <1>3 DEF Assembled, Queued, Right
<1>4. ASSUME NEW c \in DOMAIN work
      PROVE  work[c].dev .. work[c].dev + work[c].len - 1 \subseteq DecodedBytes
  <2> SUFFICES ASSUME NEW y \in work[c].dev .. work[c].dev + work[c].len - 1
               PROVE  y \in DecodedBytes
    OBVIOUS
  <2> DEFINE x == work[c].out + (y - work[c].dev)
  <2>1. work[c].dev \in Nat /\ work[c].out \in Nat /\ work[c].len \in Nat
    BY <1>1 DEF Runs
  <2>2. x \in OutOf(work[c]) /\ y \in Int /\ x \in Int /\ y = work[c].dev + (x - work[c].out)
    BY <2>1 DEF OutOf
  <2> HIDE DEF x
  <2>3. PICK b \in Compressed :
          x \in BytesOf(o, b) /\ work[c].dev + (x - work[c].out) = s[b] * BlockMax + (x - o[b])
    BY <1>3, <2>2
  <2>4. b \in 1..Len(blocks) /\ b \in 1..Len(blocks) + 1 /\ LenOf(b) = decoded[b]
    BY <1>2 DEF Compressed, LenOf
  <2>5. Slot(b) = s[b] /\ s[b] \in Nat /\ o[b] \in Nat /\ LenOf(b) \in Nat
    BY <2>4, SlotIs, LaidFacts
  <2>6. o[b] <= x /\ x < o[b] + LenOf(b)
    BY <2>3, <2>4, InBytes
  <2>7. s[b] * BlockMax \in Nat
    BY <2>5, Products, Sizes
  <2>8. y \in s[b] * BlockMax .. s[b] * BlockMax + decoded[b] - 1
    BY SMTT(20), <2>2, <2>3, <2>4, <2>5, <2>6, <2>7
  <2>9. y \in Slot(b) * BlockMax .. Slot(b) * BlockMax + decoded[b] - 1
    BY <2>5, <2>8
  <2> QED BY <2>3, <2>9 DEF DecodedBytes
<1>5. ASSUME NEW c \in DOMAIN work, NEW x \in OutOf(work[c])
      PROVE  x \in DOMAIN out /\ x \notin StoredBytes
  <2>1. PICK b \in Compressed : x \in BytesOf(o, b)
    BY <1>3
  <2>2. b \in 1..Len(blocks)
    BY <1>2
  <2>3. x \in Nat /\ x < o[Len(blocks) + 1]
    BY <1>2, <2>1, <2>2, InBytes
  <2>4. o[Len(blocks) + 1] \in Nat /\ o[Len(blocks) + 1] <= DstCap
    BY <1>2, LaidFacts DEF Assembled, Placed
  <2>5. x \in 0..DstCap - 1
    BY <2>3, <2>4, Sizes
  <2>6. DOMAIN out = 0..DstCap - 1
    BY DEF Typed
  <2>7. ASSUME NEW d \in DOMAIN blocks \ Compressed, x \in Offset(d) .. Offset(d) + LenOf(d) - 1
        PROVE  FALSE
    <3>1. d \in 1..Len(blocks) /\ Offset(d) = o[d]
      BY <1>2, OffsetIs
    <3>2. x \in BytesOf(o, d)
      BY <2>7, <3>1 DEF BytesOf
    <3> QED BY <2>1, <2>2, <2>7, <3>1, <3>2, BlocksApart
  <2> QED BY <2>5, <2>6, <2>7 DEF StoredBytes
<1>6. ASSUME NEW c \in DOMAIN work, NEW e \in DOMAIN work, c # e
      PROVE  OutOf(work[c]) \cap OutOf(work[e]) = {}
  <2>1. ASSUME NEW a \in DOMAIN work, NEW b \in DOMAIN work, a < b
        PROVE  OutOf(work[a]) \cap OutOf(work[b]) = {}
    <3>1. EndOf(work[a]) <= work[b].out
      BY <2>1 DEF Assembled, Queued
    <3>2. /\ work[a].out \in Nat /\ work[a].len \in Nat /\ work[b].out \in Nat /\ work[b].len \in Nat
      BY <1>1 DEF Runs
    <3> QED BY <3>1, <3>2 DEF EndOf, OutOf
  <2>2. c < e \/ e < c
    BY <1>1, <1>6
  <2> QED BY <2>1, <2>2
<1> QED BY <1>4, <1>5, <1>6

LEMMA TailHolds ==
  ASSUME Typed, NEW o, NEW s, Laid(o, s), Assembled(o, s), pc = "tail",
         NEW b \in DOMAIN blocks, NEW j \in 0..LenOf(b) - 1
  PROVE  out[Offset(b) + j] =
           IF blocks[b].uncompressed THEN <<"frame", blocks[b].src_off + j>>
           ELSE <<"device", Slot(b) * BlockMax + j>>
<1>1. /\ b \in 1..Len(blocks) /\ b \in 1..Len(blocks) + 1 /\ i - 1 = Len(blocks)
  BY LaidFacts DEF Assembled, Placed
<1>2. Offset(b) = o[b] /\ Slot(b) = s[b] /\ o[b] \in Nat /\ LenOf(b) \in Nat
  BY <1>1, OffsetIs, SlotIs, LaidFacts
<1>3. o[b] + j \in BytesOf(o, b) /\ (o[b] + j) - o[b] = j
  BY <1>2 DEF BytesOf
<1>4. ~(b \in Compressed /\ Due(o[b] + j))
  BY DEF Assembled, Settled, Due
<1>5. out[o[b] + j] = From(o, s, b, o[b] + j)
  BY <1>1, <1>3, <1>4 DEF Assembled, Brought
<1> QED BY <1>2, <1>3, <1>5, Zenon DEF From

IInv == Typed /\ FrameInv /\ QuietInv /\ AssemblyInv

LEMMA FrameHolds == IInv => OutputIsFrame
<1> SUFFICES ASSUME IInv PROVE OutputIsFrame
  OBVIOUS
<1>1. Typed /\ FrameInv /\ QuietInv /\ AssemblyInv
  BY DEF IInv
<1>2. TableInFrame
  BY <1>1, TableHolds
<1>3. CopiesAreDecoded
  <2> SUFFICES ASSUME pc \in {"assemble", "drain"} PROVE CopiesAreDecoded
    BY DEF CopiesAreDecoded
  <2>1. PICK o, s : Laid(o, s) /\ Assembled(o, s)
    BY <1>1 DEF AssemblyInv, Assembling
  <2> QED BY <1>1, <2>1, CopiesHold DEF CopiesAreDecoded
<1>4. ASSUME pc = "tail", NEW b \in DOMAIN blocks, NEW j \in 0..LenOf(b) - 1
      PROVE  out[Offset(b) + j] =
               IF blocks[b].uncompressed THEN <<"frame", blocks[b].src_off + j>>
               ELSE <<"device", Slot(b) * BlockMax + j>>
  <2>1. PICK o, s : Laid(o, s) /\ Assembled(o, s)
    BY <1>1, <1>4 DEF AssemblyInv, Assembling
  <2> QED BY <1>1, <1>4, <2>1, TailHolds
<1>5. ASSUME bytes_written # 0 PROVE status = "OK" /\ bytes_written = Total
  <2>1. PICK o, s : Laid(o, s) /\ bytes_written = o[Len(blocks) + 1]
    BY <1>1, <1>5 DEF AssemblyInv
  <2>2. Len(blocks) + 1 \in 1..Len(blocks) + 1
    BY <1>1 DEF Typed
  <2>3. Total = o[Len(blocks) + 1]
    BY <1>1, <2>1, <2>2, OffsetIs DEF Total
  <2> QED BY <1>1, <1>5, <2>1, <2>3 DEF AssemblyInv
<1> QED BY <1>2, <1>3, <1>4, <1>5, Zenon DEF OutputIsFrame

LEMMA Invariance == Spec => []IInv
<1>1. Init => IInv
  <2>1. Init => AssemblyInv
    BY DEF Init, AssemblyInv, Assembling
  <2> QED BY <2>1, TypedInit, FrameInit, QuietInit DEF IInv
<1>2. IInv /\ [Next]_vars => IInv'
  BY TypedStep, FrameStep, QuietStep, AssemblyInvStep DEF IInv
<1> QED BY <1>1, <1>2, PTL DEF Spec

-----------------------------------------------------------------------------
\* The destination of every frame, of every decode and every order of the device, is
\* the frame: the walk stays in it, the merged copies take decoded bytes into the
\* caller's capacity and never touch one another or a stored block, and what is
\* verified at the tail is the blocks one after the other (Lz4WalkFrameBlocks,
\* DecodeAndAssemble).
THEOREM OutputIsFrameHolds == Spec => []OutputIsFrame
BY Invariance, FrameHolds, PTL

\* No device work outlives the call, whichever call failed, and a refusal for want of
\* capacity wrote nothing (DrainGuard and the comparison in front of the assembly).
THEOREM NothingOutlivesDecodeHolds == Spec => []NothingOutlivesDecode
<1>1. IInv => NothingOutlivesDecode
  BY DEF IInv, QuietInv, Untouched, NothingOutlivesDecode, Refused
<1> QED BY <1>1, Invariance, PTL
=============================================================================
