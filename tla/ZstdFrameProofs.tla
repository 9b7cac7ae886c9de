-------------------------- MODULE ZstdFrameProofs --------------------------
(***************************************************************************)
(* The repeat-offset rule of Zstd for every history and offset, and the    *)
(* tables of a frame: whatever an earlier frame of the same thread block   *)
(* left in the shared cells, a frame decodes with its own.                 *)
(***************************************************************************)
EXTENDS ZstdFrame, TLAPS

Offsets == Nat \ {0}
Histories == Offsets \X Offsets \X Offsets

\* No sequence can put a zero in the history, so "the newest minus one" never wraps
\* (ZstdRepcodeResolve reads first, subtracts after and refuses zero before it rotates).
THEOREM HistoryStaysPositive ==
  ASSUME NEW acc \in [status : STRING, history : Histories, offsets : Seq(Nat)],
         NEW s \in [offset_value : Offsets, literals_length : Nat]
  PROVE  Resolve(acc, s).history \in Histories
<1> DEFINE h == acc.history
           offset == Resolved(h, s)
<1>1. h[1] \in Offsets /\ h[2] \in Offsets /\ h[3] \in Offsets
  BY DEF Histories
<1>2. offset \in Nat
  <2>1. CASE s.offset_value > 3
    BY <2>1 DEF Resolved, Offsets
  <2>2. CASE s.offset_value \in 1..3
    <3>1. Taken(s) \in 0..3
      BY <2>2 DEF Taken
    <3>2. Taken(s) < 3 => h[Taken(s) + 1] \in Nat
      BY <1>1, <3>1 DEF Offsets
    <3> QED BY <1>1, <2>2, <3>2 DEF Resolved, Offsets
  <2> QED BY <2>1, <2>2 DEF Offsets
<1>3. CASE acc.status # "OK" \/ offset = 0
  BY <1>3 DEF Resolve
<1>4. CASE acc.status = "OK" /\ offset # 0
  <2>1. Rotate(h, Taken(s), offset) \in Histories
    BY <1>1, <1>2, <1>4 DEF Rotate, Histories, Offsets
  <2> QED BY <1>4, <2>1 DEF Resolve
<1> QED BY <1>3, <1>4

\* The generator's code, read back by the decoder, is the offset it was made for, and
\* both leave the same history: the shifted reading of a sequence without literals and
\* the slots each code moves are said twice in the repository, and agree.
THEOREM GeneratorAgrees ==
  ASSUME NEW history \in Histories, NEW offset \in Offsets, NEW litlen \in Nat
  PROVE  LET code == ResolveOffsetCode(history, offset, litlen)
             s == [offset_value |-> IF code = 0 THEN offset + 3 ELSE code,
                   literals_length |-> litlen]
         IN  /\ Resolved(history, s) = offset
             /\ Rotate(history, Taken(s), offset) = HistoryAfter(history, offset, litlen, code)
<1> DEFINE code == ResolveOffsetCode(history, offset, litlen)
           s == [offset_value |-> IF code = 0 THEN offset + 3 ELSE code,
                 literals_length |-> litlen]
<1>1. /\ history[1] \in Offsets /\ history[2] \in Offsets /\ history[3] \in Offsets
      /\ history = <<history[1], history[2], history[3]>>
  BY DEF Histories
<1>2. code \in 0..3
  BY DEF ResolveOffsetCode
<1>3. Resolved(history, s) = offset
  BY <1>1, <1>2 DEF Resolved, Taken, ResolveOffsetCode, Offsets
<1>4. Rotate(history, Taken(s), offset) = HistoryAfter(history, offset, litlen, code)
  <2>1. CASE litlen = 0
    BY <1>1, <1>2, <2>1 DEF Rotate, Taken, HistoryAfter, ResolveOffsetCode, Offsets
  <2>2. CASE litlen # 0
    BY <1>1, <1>2, <2>2 DEF Rotate, Taken, HistoryAfter, ResolveOffsetCode, Offsets
  <2> QED BY <2>1, <2>2
<1> QED BY <1>3, <1>4

-----------------------------------------------------------------------------
(* The tables. A frame begins with none present, and a table becomes        *)
(* present only by being described, so that what is present is this frame's;*)
(* the cells of the others hold what they held.                             *)

FrameShape ==
  frame = [status |-> frame.status, tables |-> frame.tables, repcodes |-> frame.repcodes,
           produced |-> frame.produced, mem |-> frame.mem]
TablesTyped ==
  /\ frame.tables \in [Tables -> [present : BOOLEAN, of : Nat]]
  /\ chunk \in Nat
Described(tables) == \A t \in Tables : tables[t].present => tables[t].of = chunk
InFrame == pc \in {"block", "step", "literals", "tables", "tile", "finish", "tail"}
TablesInv ==
  /\ FrameShape /\ TablesTyped /\ (InFrame => Described(frame.tables)) /\ TablesOfThisFrame

\* No frame has begun, no table is present.
LEMMA TablesInit == Init => TablesInv
BY DEF Init, TablesInv, FrameShape, TablesTyped, TablesOfThisFrame, InFrame, NewFrame, NoTable

\* A frame that begins has none.
LEMMA NoneAtFirst ==
  ASSUME NEW tables \in [Tables -> [present : BOOLEAN, of : Nat]]
  PROVE  /\ FrameStateInit(tables) \in [Tables -> [present : BOOLEAN, of : Nat]]
         /\ Described(FrameStateInit(tables))
BY DEF FrameStateInit, Described

\* The literals section describes its own, or uses one that is there.
LEMMA LiteralsTable ==
  ASSUME NEW tables \in [Tables -> [present : BOOLEAN, of : Nat]], chunk \in Nat
  PROVE  LET after == AfterLiterals(blk, tables, chunk) IN
         /\ after \in [Tables -> [present : BOOLEAN, of : Nat]]
         /\ Described(tables) => Described(after)
         /\ LiteralsStatus(blk, header.window, tables, blk.lit.size) = "OK" /\ Described(tables) =>
              (blk.lit.type \in {"compressed", "treeless"} => after["literals"].of = chunk)
<1>1. "literals" \in Tables
  BY DEF Tables
<1> QED BY <1>1 DEF AfterLiterals, Described, LiteralsStatus

\* The sequence section describes or keeps each of its three.
LEMMA SequenceTable ==
  ASSUME NEW tables \in [Tables -> [present : BOOLEAN, of : Nat]], chunk \in Nat, NEW k \in 0..3
  PROVE  LET after == LoadTables(blk, tables, chunk, k) IN
         /\ after \in [Tables -> [present : BOOLEAN, of : Nat]]
         /\ after["literals"] = tables["literals"]
         /\ Described(tables) => Described(after)
<1>1. "literals" \in Tables /\ \A i \in 1..k : FieldOrder[i] # "literals"
  BY DEF Tables, FieldOrder
<1> QED BY <1>1 DEF LoadTables, Described

\* What the sequences of a block use is this frame's.
LEMMA SequencesUse ==
  ASSUME NEW tables \in [Tables -> [present : BOOLEAN, of : Nat]], chunk \in Nat, Described(tables),
         TablesStatus(blk, header.window, tables) = "OK", blk.seqs # <<>>, NEW f \in Fields
  PROVE  LoadTables(blk, tables, chunk, 3)[f].of = chunk
<1>1. f \in Tables /\ \E i \in 1..3 : f = FieldOrder[i]
  <2>1. FieldOrder[1] = "litlen" /\ FieldOrder[2] = "offset" /\ FieldOrder[3] = "matchlen"
    BY DEF FieldOrder
  <2>2. 1 \in 1..3 /\ 2 \in 1..3 /\ 3 \in 1..3
    OBVIOUS
  <2> QED BY <2>1, <2>2 DEF Tables, Fields
<1>2. CASE f \notin blk.repeat
  BY <1>1, <1>2 DEF LoadTables
<1>3. CASE f \in blk.repeat
  <2>1. tables[f].present
    BY <1>1, <1>3 DEF TablesStatus, Absent
  <2> QED BY <1>1, <1>3, <2>1 DEF LoadTables, Described
<1> QED BY <1>2, <1>3

\* Every step of the walk keeps it. Leaving the block for the result drops what it says
\* of the tables in use; a refused section may have replaced some.
LEMMA TablesStep == TablesInv /\ [Next]_vars => TablesInv'
<1> SUFFICES ASSUME TablesInv, [Next]_vars PROVE TablesInv'
  OBVIOUS
<1> USE DEF chunkVars, walk, progress
<1> DEFINE AllTables == [Tables -> [present : BOOLEAN, of : Nat]]
<1>0. frame.tables \in AllTables /\ chunk \in Nat /\ FrameShape
  BY DEF TablesInv, TablesTyped
<1>1. ASSUME NEW st, NEW tables \in AllTables, RefuseLeaving(st, tables), UNCHANGED chunk
      PROVE  TablesInv'
  <2>1. frame' = [status |-> st, tables |-> tables, repcodes |-> frame.repcodes,
                  produced |-> frame.produced, mem |-> frame.mem] /\ pc' = "result"
    BY <1>0, <1>1 DEF RefuseLeaving, FrameShape
  <2> QED BY <1>0, <1>1, <2>1
          DEF TablesInv, FrameShape, TablesTyped, InFrame, TablesOfThisFrame
<1>2. ASSUME NEW st, Refuse(st), UNCHANGED chunk PROVE TablesInv'
  BY <1>0, <1>1, <1>2 DEF Refuse
<1>3. ASSUME NEW tables \in AllTables, frame' = NewFrame(tables), UNCHANGED chunk,
             Described(tables), pc' = "block"
      PROVE  TablesInv'
  BY <1>0, <1>3 DEF NewFrame, TablesInv, FrameShape, TablesTyped, InFrame, TablesOfThisFrame, Described
<1>4. CASE FrameHeader
  <2>1. UNCHANGED chunk
    BY <1>4 DEF FrameHeader
  <2>2. (\E st : Refuse(st)) \/ (pc' = "block" /\ frame' = NewFrame(FrameStateInit(frame.tables)))
    BY <1>4 DEF FrameHeader
  <2> QED BY <1>0, <1>2, <1>3, <2>1, <2>2, NoneAtFirst
<1>5. ASSUME InFrame, pc' \in {"block", "step", "tail"} \/ (pc' = "literals" /\ pc = "block"),
             UNCHANGED chunk, FrameShape', frame'.tables = frame.tables
      PROVE  TablesInv'
  BY <1>0, <1>5 DEF TablesInv, TablesTyped, InFrame, TablesOfThisFrame, Described
<1>6. CASE BlockHeader
  <2>1. UNCHANGED chunk /\ pc = "block" /\ InFrame
    BY <1>6 DEF BlockHeader, InFrame
  <2>2. \/ \E st : Refuse(st)
        \/ pc' = "literals" /\ UNCHANGED frame
        \/ \E produced, mem : pc' = "step" /\ frame' = [frame EXCEPT !.produced = produced, !.mem = mem]
    BY <1>6 DEF BlockHeader
  <2>3. ASSUME NEW produced, NEW mem, frame' = [frame EXCEPT !.produced = produced, !.mem = mem]
        PROVE  FrameShape' /\ frame'.tables = frame.tables
    BY <1>0, <2>3 DEF FrameShape
  <2>4. CASE pc' = "literals" /\ UNCHANGED frame
    <3>1. FrameShape' /\ frame'.tables = frame.tables
      BY <1>0, <2>4 DEF FrameShape
    <3> QED BY <1>5, <2>1, <2>4, <3>1
  <2>5. CASE \E produced, mem : pc' = "step" /\ frame' = [frame EXCEPT !.produced = produced, !.mem = mem]
    BY <1>5, <2>1, <2>3, <2>5
  <2> QED BY <1>2, <2>1, <2>2, <2>4, <2>5
<1>7. CASE NextBlock
  <2>1. UNCHANGED <<chunk, frame>> /\ InFrame /\ pc' \in {"tail", "block"}
    BY <1>7 DEF NextBlock, InFrame
  <2>2. FrameShape'
    BY <1>0, <2>1 DEF FrameShape
  <2> QED BY <1>5, <2>1, <2>2
<1>8. CASE Literals
  <2>1. UNCHANGED <<chunk, blk, header>> /\ Described(frame.tables)
    BY <1>8 DEF Literals, TablesInv, InFrame
  <2> DEFINE after == AfterLiterals(blk, frame.tables, chunk)
             status == LiteralsStatus(blk, header.window, frame.tables, blk.lit.size)
  <2>2. after \in AllTables /\ Described(after)
        /\ (status = "OK" /\ blk.lit.type \in {"compressed", "treeless"} => after["literals"].of = chunk)
    BY <1>0, <2>1, LiteralsTable
  <2>3. \/ \E st : Refuse(st)
        \/ \E st : RefuseLeaving(st, after)
        \/ /\ status = "OK" /\ pc' = "tables"
           /\ \E mem : frame' = [frame EXCEPT !.tables = after, !.mem = mem]
    BY <1>8 DEF Literals
  <2>4. CASE status = "OK" /\ pc' = "tables" /\ \E mem : frame' = [frame EXCEPT !.tables = after, !.mem = mem]
    <3>1. FrameShape' /\ frame'.tables = after
      BY <1>0, <2>4 DEF FrameShape
    <3> QED BY <1>0, <2>1, <2>2, <2>4, <3>1
            DEF TablesInv, TablesTyped, TablesOfThisFrame, Described
  <2> QED BY <1>1, <1>2, <2>1, <2>2, <2>3, <2>4
<1>9. CASE SequenceTables
  <2>1. UNCHANGED <<chunk, blk, header>> /\ Described(frame.tables) /\ pc = "tables"
    BY <1>9 DEF SequenceTables, TablesInv, InFrame
  <2> DEFINE status == TablesStatus(blk, header.window, frame.tables)
             after == LoadTables(blk, frame.tables, chunk, 3)
  <2>2. \/ \E st : \E k \in 0..3 : RefuseLeaving(st, LoadTables(blk, frame.tables, chunk, k))
        \/ /\ status = "OK" /\ frame' = [frame EXCEPT !.tables = after]
           /\ pc' = IF blk.seqs = <<>> THEN "finish" ELSE "tile"
    <3>1. LoadedWhenRefused(blk, header.window, frame.tables) \subseteq 0..3
      BY DEF LoadedWhenRefused
    <3> QED BY <1>9, <3>1 DEF SequenceTables
  <2>3. CASE status = "OK" /\ frame' = [frame EXCEPT !.tables = after]
             /\ pc' = IF blk.seqs = <<>> THEN "finish" ELSE "tile"
    <3>1. FrameShape' /\ frame'.tables = after
      BY <1>0, <2>3 DEF FrameShape
    <3>2. after \in AllTables /\ Described(after) /\ after["literals"] = frame.tables["literals"]
      BY <1>0, <2>1, SequenceTable
    <3>3. blk.seqs # <<>> => \A f \in Fields : after[f].of = chunk
      BY <1>0, <2>1, <2>3, SequencesUse
    <3>4. blk.lit.type \in {"compressed", "treeless"} => frame.tables["literals"].of = chunk
      BY <2>1 DEF TablesInv, TablesOfThisFrame
    <3> QED BY <1>0, <2>1, <3>1, <3>2, <3>3, <3>4
            DEF TablesInv, TablesTyped, TablesOfThisFrame, Described
  <2>4. ASSUME NEW k \in 0..3 PROVE LoadTables(blk, frame.tables, chunk, k) \in AllTables
    BY <1>0, SequenceTable
  <2> QED BY <1>1, <2>1, <2>2, <2>3, <2>4
<1>10. ASSUME UNCHANGED <<chunk, blk>>, FrameShape', frame'.tables = frame.tables, pc \in {"tile", "finish"},
              pc' \in {"tile", "finish", "result", "step"}
       PROVE  TablesInv'
  BY <1>0, <1>10 DEF TablesInv, TablesTyped, InFrame, TablesOfThisFrame, Described
<1>11. CASE Tile
  <2>1. UNCHANGED <<chunk, blk>> /\ pc = "tile"
    BY <1>11 DEF Tile
  <2> DEFINE got == Lower(Len(blk.seqs) - done, kZstdTileSequences)
             seqs == SubSeq(blk.seqs, done + 1, done + got)
             res == ResolveAll(frame.repcodes, seqs)
             sum == PrefixSumTile(carry, seqs, blk.lit.size, BlockMaximum(header.window))
             run == ExecuteAll(frame.mem, seqs, sum.carries, res.offsets, literals,
                               remaining, header.window, frame.produced)
  <2>2. \/ Refuse("CORRUPT_INPUT")
        \/ /\ frame' = [frame EXCEPT !.status = run.status, !.mem = run.mem, !.repcodes = res.history]
           /\ pc' = IF run.status # "OK" THEN "result"
                    ELSE IF done + got = Len(blk.seqs) THEN "finish" ELSE "tile"
    BY <1>11 DEF Tile
  <2> HIDE DEF run, res
  <2>3. CASE frame' = [frame EXCEPT !.status = run.status, !.mem = run.mem, !.repcodes = res.history]
             /\ pc' \in {"tile", "finish", "result"}
    <3>1. FrameShape' /\ frame'.tables = frame.tables
      BY <1>0, <2>3 DEF FrameShape
    <3> QED BY <1>10, <2>1, <2>3, <3>1
  <2> QED BY <1>2, <2>1, <2>2, <2>3
<1>12. CASE Finish
  <2>1. UNCHANGED <<chunk, blk>> /\ pc = "finish"
    BY <1>12 DEF Finish
  <2>2. \/ \E st : Refuse(st)
        \/ pc' = "step" /\ \E produced, mem : frame' = [frame EXCEPT !.produced = produced, !.mem = mem]
    BY <1>12 DEF Finish
  <2>3. ASSUME NEW produced, NEW mem, frame' = [frame EXCEPT !.produced = produced, !.mem = mem]
        PROVE  FrameShape' /\ frame'.tables = frame.tables
    BY <1>0, <2>3 DEF FrameShape
  <2> QED BY <1>2, <1>10, <2>1, <2>2, <2>3
<1>13. CASE FrameEnd
  <2>1. UNCHANGED chunk /\ \E st : Refuse(st)
    BY <1>13 DEF FrameEnd
  <2> QED BY <1>2, <2>1
<1>14. CASE Result
  <2>1. frame' = NewFrame(frame.tables) /\ pc' \in {"frame", "done"} /\ chunk' \in Nat
    BY <1>0, <1>14 DEF Result
  <2> QED BY <1>0, <2>1 DEF NewFrame, TablesInv, FrameShape, TablesTyped, InFrame, TablesOfThisFrame
<1>15. CASE UNCHANGED vars
  BY <1>15 DEF vars, TablesInv, FrameShape, TablesTyped, InFrame, TablesOfThisFrame, Described
<1>16. CASE Done
  BY <1>15, <1>16 DEF Done
<1> QED
  BY <1>4, <1>6, <1>7, <1>8, <1>9, <1>11, <1>12, <1>13, <1>14, <1>15, <1>16 DEF Next

\* A table is used only if this frame described it: the flags are cleared with every
\* frame, whatever its predecessor in the same shared memory left in the cells and at
\* whatever point it was refused.
THEOREM TablesOfThisFrameHolds == Spec => []TablesOfThisFrame
<1>1. TablesInv => TablesOfThisFrame
  BY DEF TablesInv
<1> QED BY <1>1, TablesInit, TablesStep, PTL DEF Spec
=============================================================================
