------------------------- MODULE BlockParserProofs -------------------------
(***************************************************************************)
(* Both block parsers read inside their source and implement the seam, and *)
(* Snappy produces what it declared, for every size, capacity and constant *)
(* that Lz4Assumption and SnappyAssumption admit: the formats' own among   *)
(* them. First LZ4 by itself, then Snappy, then the pair behind the entry  *)
(* the caller takes.                                                       *)
(***************************************************************************)
EXTENDS BlockParsers, WellFoundedInduction, TLAPS

Elements == [lit_src : Nat, lit_dst : Nat, lit_len : Nat,
             off : Nat, match_dst : Nat, match_len : Nat]

Typed ==
  /\ TypeOK
  /\ element \in Elements
  /\ entry \in [src : Nat, dst : Nat, element : Elements]
  /\ highest \in Int

\* Where the cursors are relative to the last return, place by place.
CursorInv ==
  /\ pc # "call" => result = "more" /\ entry.src < src_pos
  /\ pc = "call" /\ result \in {"more", "done"} => entry.src = src_pos /\ entry.dst = dst_pos
  /\ result = "done" => src_pos = SrcSize
  /\ pc \in {"litext", "literals"} => entry.dst = dst_pos
  /\ pc \in {"matchext", "match"} =>
       /\ element.lit_len > 0 => element.lit_src + element.lit_len <= SrcSize
                                 /\ element.lit_dst = entry.dst
       /\ dst_pos = entry.dst + element.lit_len
       /\ element.match_dst = dst_pos
       /\ element.off \in 1..dst_pos

IInv == Typed /\ ReadsInBounds /\ LengthBounded /\ CursorInv

LEMMA ElementTyped ==
  ASSUME NEW a \in Nat, NEW b \in Nat, NEW c \in Nat, NEW d \in Nat, NEW e \in Nat, NEW f \in Nat
  PROVE  [lit_src |-> a, lit_dst |-> b, lit_len |-> c,
          off |-> d, match_dst |-> e, match_len |-> f] \in Elements
BY DEF Elements

LEMMA InitInv == Init => IInv
<1> SUFFICES ASSUME Init PROVE IInv OBVIOUS
<1>1. NoElement \in Elements BY DEF NoElement, Elements
<1>2. Typed
  BY <1>1, Lz4Assumption DEF Init, Typed, TypeOK, Pcs, Nibbles, Rejections
<1> QED BY <1>2, Lz4Assumption DEF Init, IInv, ReadsInBounds, LengthBounded, CursorInv, Rejections

LEMMA RejectInv ==
  ASSUME IInv, NEW s \in Rejections, Reject(s) PROVE IInv'
<1>1. Typed' BY DEF IInv, Typed, TypeOK, Reject, Pcs
<1> QED BY <1>1 DEF IInv, ReadsInBounds, LengthBounded, CursorInv, Reject, Rejections

LEMMA TokenInv == ASSUME IInv, Token PROVE IInv'
<1>1. CASE src_pos >= SrcSize /\ Reject("CORRUPT_INPUT")
  BY <1>1, RejectInv DEF Rejections
<1>2. CASE src_pos < SrcSize /\ ~(src_pos >= SrcSize /\ Reject("CORRUPT_INPUT"))
  <2>1. /\ pc = "call" /\ result \in {"more", "done"}
        /\ src_pos' = src_pos + 1 /\ highest' = src_pos /\ token' \in Nibbles
        /\ length' = token'.lit /\ fuel' = SrcSize - src_pos' + 1
        /\ UNCHANGED <<dst_pos, element, entry>>
        /\ pc' \in {"literals", "call", "litext"}
        /\ pc' # "call" => result' = "more"
        /\ pc' = "call" => result' = "CORRUPT_INPUT"
        /\ result' \in {"more", "CORRUPT_INPUT"}
    BY <1>2 DEF Token, Budget
  <2>2. length' \in 0..RunMask BY <2>1 DEF Nibbles
  <2>3. src_pos \in Nat /\ dst_pos \in Nat /\ src_pos' \in 0..SrcSize /\ fuel' \in Nat
    BY <2>1, <1>2, Lz4Assumption DEF IInv, Typed, TypeOK
  <2>4. Typed'
    BY <2>1, <2>2, <2>3, Lz4Assumption DEF IInv, Typed, TypeOK, Pcs, Rejections
  <2>5. ReadsInBounds' BY <2>1, <1>2 DEF ReadsInBounds
  <2>6. LengthBounded' BY <2>1, <2>2, <2>3, Lz4Assumption DEF LengthBounded
  <2>7. CursorInv'
    <3>1. entry.src = src_pos /\ entry.dst = dst_pos BY <2>1 DEF IInv, CursorInv
    <3> QED BY <3>1, <2>1, <2>3 DEF CursorInv
  <2> QED BY <2>4, <2>5, <2>6, <2>7 DEF IInv
<1> QED BY <1>1, <1>2, Lz4Assumption DEF Token, IInv, Typed, TypeOK

LEMMA ExtendInv == ASSUME IInv, Extend PROVE IInv'
<1>1. CASE ExtendRefuses # "none" /\ Reject(ExtendRefuses)
  <2>1. ExtendRefuses \in Rejections BY <1>1 DEF ExtendRefuses, Rejections
  <2> QED BY <1>1, <2>1, RejectInv
<1>2. CASE ExtendRefuses = "none" /\ ~(ExtendRefuses # "none" /\ Reject(ExtendRefuses))
  <2>1. PICK byte \in 0..ByteMax :
          /\ src_pos' = src_pos + 1 /\ highest' = src_pos
          /\ length' = length + byte /\ fuel' = fuel - 1
          /\ IF src_pos' + Margin > SrcSize
               THEN pc' = "call" /\ result' = "CORRUPT_INPUT"
               ELSE /\ UNCHANGED result
                    /\ pc' = IF byte = ByteMax THEN pc
                             ELSE IF pc = "litext" THEN "literals" ELSE "match"
    BY <1>2 DEF Extend
  <2>2. UNCHANGED <<dst_pos, token, element, entry>> /\ pc \in {"litext", "matchext"}
    BY <1>2 DEF Extend
  <2>3. /\ src_pos \in 0..SrcSize /\ dst_pos \in 0..DstCap /\ length \in Nat /\ fuel \in Nat
        /\ byte \in Nat /\ byte <= ByteMax /\ SrcSize \in Nat /\ DstCap \in Nat /\ ByteMax \in Nat
    BY Lz4Assumption DEF IInv, Typed, TypeOK
  <2>4. fuel # 0 /\ src_pos < SrcSize /\ length <= DstCap - dst_pos
    BY <1>2, <2>3 DEF ExtendRefuses
  <2>5. \/ pc' = "call" /\ result' = "CORRUPT_INPUT"
        \/ pc' = pc /\ result' = result
        \/ pc = "litext" /\ pc' = "literals" /\ result' = result
        \/ pc = "matchext" /\ pc' = "match" /\ result' = result
    BY <2>1, <2>2
  <2>6. Typed'
    BY <2>1, <2>2, <2>3, <2>4, <2>5 DEF IInv, Typed, TypeOK, Pcs, Rejections
  <2>7. ReadsInBounds' BY <2>1, <2>4 DEF ReadsInBounds
  <2>8. fuel > SrcSize - src_pos BY <2>2 DEF IInv, LengthBounded
  <2>9. LengthBounded'
    BY <2>1, <2>2, <2>3, <2>4, <2>8 DEF LengthBounded
  <2>10. CursorInv'
    <3>1. result = "more" /\ entry.src < src_pos /\ entry.src \in Nat
      BY <2>2 DEF IInv, CursorInv, Typed
    <3>2. entry.src < src_pos' BY <3>1, <2>1, <2>3
    <3> QED BY <3>1, <3>2, <2>2, <2>5 DEF IInv, CursorInv
  <2> QED BY <2>6, <2>7, <2>9, <2>10 DEF IInv
<1> QED BY <1>1, <1>2 DEF Extend

\* What passing the literal checks gives.
LEMMA LiteralsFit ==
  ASSUME IInv, pc = "literals", LiteralsRefuse = "none"
  PROVE  /\ src_pos + length <= SrcSize /\ dst_pos + length <= DstCap
         /\ NearEnd => src_pos + length = SrcSize
         /\ ~NearEnd => src_pos + length + 3 <= SrcSize
<1>1. src_pos \in Nat /\ dst_pos \in Nat /\ length \in Nat /\ SrcSize \in Nat /\ DstCap \in Nat
  BY Lz4Assumption DEF IInv, Typed, TypeOK
<1>2. ~(length > SrcSize - src_pos) /\ ~(length > DstCap - dst_pos)
      /\ (NearEnd => src_pos + length = SrcSize)
  BY DEF LiteralsRefuse
<1>3. ~NearEnd => src_pos + length + 3 <= SrcSize
  BY <1>1, Lz4Assumption DEF NearEnd, SrcSlack
<1> QED BY <1>1, <1>2, <1>3

LEMMA LastRunInv == ASSUME IInv, LastRun PROVE IInv'
<1>1. src_pos + length = SrcSize /\ dst_pos + length <= DstCap
  BY LiteralsFit DEF LastRun
<1>2. src_pos \in Nat /\ dst_pos \in Nat /\ length \in Nat /\ fuel \in Nat /\ token \in Nibbles
  BY DEF IInv, Typed, TypeOK
<1>3. /\ src_pos' = src_pos + length /\ dst_pos' = dst_pos + length /\ pc' = "call"
      /\ result' = "done" /\ entry' = [src |-> src_pos', dst |-> dst_pos', element |-> element']
      /\ element' = [lit_src |-> src_pos, lit_dst |-> dst_pos, lit_len |-> length,
                     off |-> 1, match_dst |-> dst_pos', match_len |-> 0]
      /\ UNCHANGED <<token, length, fuel, highest>>
  BY DEF LastRun, ReturnElement, Run, NoElement
<1>4. element' \in Elements BY <1>2, <1>3, ElementTyped
<1>5. Typed' BY <1>1, <1>2, <1>3, <1>4 DEF IInv, Typed, TypeOK, Pcs
<1> QED BY <1>1, <1>3, <1>5 DEF IInv, ReadsInBounds, LengthBounded, CursorInv

LEMMA LiteralsRejectedInv == ASSUME IInv, LiteralsRejected PROVE IInv'
<1>1. LiteralsRefuse \in Rejections BY DEF LiteralsRejected, LiteralsRefuse, Rejections
<1> QED BY <1>1, RejectInv DEF LiteralsRejected

LEMMA LiteralsAndOffsetInv == ASSUME IInv, LiteralsAndOffset PROVE IInv'
<1>1. PICK offset \in Offsets :
       /\ highest' = src_pos + length + 1
       /\ src_pos' = src_pos + length + 2
       /\ dst_pos' = dst_pos + length
       /\ element' = [Run EXCEPT !.off = offset, !.match_dst = dst_pos']
       /\ length' = token.match + MinMatch
       /\ fuel' = Budget(src_pos')
       /\ IF offset = 0 \/ offset > dst_pos'
            THEN pc' = "call" /\ result' = "CORRUPT_INPUT"
            ELSE /\ pc' = IF token.match = RunMask THEN "matchext" ELSE "match"
                 /\ UNCHANGED result
  BY DEF LiteralsAndOffset
<1>2. pc = "literals" /\ UNCHANGED <<token, entry>> BY DEF LiteralsAndOffset
<1>3. src_pos + length + 3 <= SrcSize /\ dst_pos + length <= DstCap
  BY LiteralsFit DEF LiteralsAndOffset
<1>4. /\ src_pos \in Nat /\ dst_pos \in Nat /\ length \in Nat /\ token \in Nibbles /\ offset \in Nat
      /\ SrcSize \in Nat /\ DstCap \in Nat /\ MinMatch \in Nat /\ RunMask \in Nat /\ ByteMax \in Nat
      /\ entry.src \in Nat /\ entry.dst \in Nat
  BY Lz4Assumption DEF IInv, Typed, TypeOK
<1>5. token.match \in 0..RunMask BY <1>4 DEF Nibbles
<1>6. element' = [lit_src |-> src_pos, lit_dst |-> dst_pos, lit_len |-> length,
                  off |-> offset, match_dst |-> dst_pos', match_len |-> 0]
  BY <1>1 DEF Run, NoElement
<1>7. element' \in Elements
  <2>1. dst_pos' \in Nat BY <1>1, <1>4
  <2> QED BY <2>1, <1>4, <1>6, ElementTyped
<1>8. result = "more" /\ entry.src < src_pos /\ entry.dst = dst_pos
  BY <1>2 DEF IInv, CursorInv
<1>9. \/ pc' = "call" /\ result' = "CORRUPT_INPUT"
      \/ pc' \in {"matchext", "match"} /\ result' = "more" /\ offset # 0 /\ ~(offset > dst_pos')
  BY <1>1, <1>8
<1>10. fuel' = SrcSize - src_pos' + 1 /\ fuel' \in Nat BY <1>1, <1>3, <1>4 DEF Budget
<1>11. Typed'
  <2>1. src_pos' \in 0..SrcSize /\ dst_pos' \in 0..DstCap /\ length' \in Nat /\ highest' \in Int
    BY <1>1, <1>3, <1>4, <1>5
  <2> QED BY <2>1, <1>2, <1>7, <1>9, <1>10 DEF IInv, Typed, TypeOK, Pcs, Rejections
<1>12. ReadsInBounds' BY <1>1, <1>3, <1>4 DEF ReadsInBounds
<1>13. LengthBounded' BY <1>1, <1>4, <1>5, <1>10, <1>3 DEF LengthBounded
<1>14. CursorInv'
  <2>1. entry.src < src_pos' BY <1>1, <1>4, <1>8
  <2>2. pc' # "call" => offset \in 1..dst_pos' BY <1>1, <1>4, <1>9
  <2>3. element'.lit_len > 0 => element'.lit_src + element'.lit_len <= SrcSize
                                /\ element'.lit_dst = entry.dst
    BY <1>3, <1>4, <1>6, <1>8
  <2>4. dst_pos' = entry.dst + element'.lit_len
    <3>1. element'.lit_len = length BY <1>6
    <3> QED BY <3>1, <1>1, <1>4, <1>8
  <2> QED BY <2>1, <2>2, <2>3, <2>4, <1>2, <1>6, <1>9 DEF CursorInv
<1> QED BY <1>11, <1>12, <1>13, <1>14 DEF IInv

LEMMA MatchInv == ASSUME IInv, Match PROVE IInv'
<1>1. CASE MatchRefuses # "none" /\ Reject(MatchRefuses)
  <2>1. MatchRefuses \in Rejections BY <1>1 DEF MatchRefuses, Rejections
  <2> QED BY <1>1, <2>1, RejectInv
<1>2. CASE MatchRefuses = "none" /\ ~(MatchRefuses # "none" /\ Reject(MatchRefuses))
  <2>1. /\ pc = "match" /\ dst_pos' = dst_pos + length /\ pc' = "call"
        /\ element' = [element EXCEPT !.match_len = length]
        /\ entry' = [src |-> src_pos, dst |-> dst_pos', element |-> element']
        /\ UNCHANGED <<src_pos, token, length, fuel, result, highest>>
    BY <1>2 DEF Match, ReturnElement
  <2>2. src_pos \in Nat /\ dst_pos \in Nat /\ length \in Nat /\ DstCap \in Nat /\ element \in Elements
    BY Lz4Assumption DEF IInv, Typed, TypeOK
  <2>3. dst_pos + length <= DstCap BY <1>2, <2>2 DEF MatchRefuses
  <2>4. element' \in Elements BY <2>1, <2>2 DEF Elements
  <2>5. Typed' BY <2>1, <2>2, <2>3, <2>4 DEF IInv, Typed, TypeOK, Pcs
  <2>6. result = "more" BY <2>1 DEF IInv, CursorInv
  <2> QED BY <2>1, <2>5, <2>6 DEF IInv, ReadsInBounds, LengthBounded, CursorInv
<1> QED BY <1>1, <1>2 DEF Match

LEMMA NextInv == IInv /\ [Next]_vars => IInv'
<1> SUFFICES ASSUME IInv, [Next]_vars PROVE IInv' OBVIOUS
<1>1. CASE Token BY <1>1, TokenInv
<1>2. CASE Extend BY <1>2, ExtendInv
<1>3. CASE LastRun BY <1>3, LastRunInv
<1>4. CASE LiteralsRejected BY <1>4, LiteralsRejectedInv
<1>5. CASE LiteralsAndOffset BY <1>5, LiteralsAndOffsetInv
<1>6. CASE Match BY <1>6, MatchInv
<1>7. CASE Stopped \/ UNCHANGED vars
  BY <1>7 DEF Stopped, vars, IInv, Typed, TypeOK, ReadsInBounds, LengthBounded, CursorInv
<1> QED BY <1>1, <1>2, <1>3, <1>4, <1>5, <1>6, <1>7 DEF Next, Step

LEMMA Invariance == Spec => []IInv
<1> QED BY InitInv, NextInv, PTL DEF Spec

\* The parser never reads a byte outside the block: the terminal rule leaves room
\* for the two offset bytes, which no check of their own guards.
THEOREM ReadsInBoundsHolds == Spec => []ReadsInBounds
<1>1. IInv => ReadsInBounds BY DEF IInv
<1> QED BY <1>1, Invariance, PTL

\* No run of continuation bytes takes a length past the capacity by more than one
\* byte's worth, and the loop's budget is never what ends it.
THEOREM LengthBoundedHolds == Spec => []LengthBounded
<1>1. IInv => LengthBounded BY DEF IInv
<1> QED BY <1>1, Invariance, PTL

-----------------------------------------------------------------------------
(* The parser implements the seam. *)

LEMMA SameElements == Seam!Elements = Elements /\ Seam!NoElement = NoElement
BY DEF Seam!Elements, Elements, Seam!NoElement, NoElement

LEMMA InitRefines == Init => Seam!Init
BY DEF Init, Seam!Init, Seam!NoElement, NoElement, Rejections

LEMMA RejectRefines ==
  ASSUME IInv, NEW s \in Rejections, result \in {"more", "done"}, Reject(s)
  PROVE  Seam!Reject
BY DEF Reject, Rejections, Seam!Reject

\* A step that hands nothing back leaves the seam as it was.
LEMMA WithinCall ==
  ASSUME result' = result, entry' = entry
  PROVE  UNCHANGED Seam!vars
BY DEF Seam!vars

LEMMA LastRunRefines == ASSUME IInv, LastRun PROVE Seam!Terminal
<1>1. src_pos + length = SrcSize /\ dst_pos + length <= DstCap
  BY LiteralsFit DEF LastRun
<1>2. src_pos \in Nat /\ dst_pos \in Nat /\ length \in Nat
  BY DEF IInv, Typed, TypeOK
<1>3. result = "more" /\ entry.dst = dst_pos BY DEF IInv, CursorInv, LastRun
<1>4. /\ src_pos' = src_pos + length /\ dst_pos' = dst_pos + length
      /\ result' = "done" /\ entry' = [src |-> src_pos', dst |-> dst_pos', element |-> element']
      /\ element' = [lit_src |-> src_pos, lit_dst |-> dst_pos, lit_len |-> length,
                     off |-> 1, match_dst |-> dst_pos', match_len |-> 0]
  BY DEF LastRun, ReturnElement, Run, NoElement
<1>5. element' \in Elements
  <2>1. dst_pos' \in Nat BY <1>2, <1>4
  <2> QED BY <2>1, <1>2, <1>4, ElementTyped
<1>6. Seam!Bounded(element', entry.dst)
  BY <1>1, <1>2, <1>3, <1>4 DEF Seam!Bounded
<1>7. Seam!HandBack
  BY <1>2, <1>3, <1>4, <1>5, <1>6, SameElements DEF Seam!HandBack
<1> QED BY <1>1, <1>3, <1>4, <1>7 DEF Seam!Terminal, Rejections

LEMMA MatchRefines ==
  ASSUME IInv, Match, MatchRefuses = "none" PROVE Seam!Element
<1>1. /\ pc = "match" /\ dst_pos' = dst_pos + length
      /\ element' = [element EXCEPT !.match_len = length]
      /\ entry' = [src |-> src_pos, dst |-> dst_pos', element |-> element']
      /\ result' = result
  BY DEF Match, ReturnElement
<1>2. /\ src_pos \in 0..SrcSize /\ dst_pos \in Nat /\ length \in Nat /\ DstCap \in Nat
      /\ SrcSize \in Nat /\ element \in Elements /\ entry.src \in Nat /\ entry.dst \in Nat
  BY Lz4Assumption DEF IInv, Typed, TypeOK
<1>3. dst_pos + length <= DstCap BY <1>2 DEF MatchRefuses
<1>4. /\ result = "more" /\ entry.src < src_pos
      /\ element.lit_len > 0 => element.lit_src + element.lit_len <= SrcSize
                                /\ element.lit_dst = entry.dst
      /\ dst_pos = entry.dst + element.lit_len
      /\ element.match_dst = dst_pos
      /\ element.off \in 1..dst_pos
  BY <1>1 DEF IInv, CursorInv
<1>5. /\ element' \in Elements /\ element'.match_len = length
      /\ element'.lit_src = element.lit_src /\ element'.lit_dst = element.lit_dst
      /\ element'.lit_len = element.lit_len /\ element'.off = element.off
      /\ element'.match_dst = element.match_dst /\ element.lit_len \in Nat
  BY <1>1, <1>2 DEF Elements
<1>6. Seam!Bounded(element', entry.dst)
  BY <1>2, <1>3, <1>4, <1>5 DEF Seam!Bounded
<1>7. Seam!HandBack
  BY <1>1, <1>2, <1>4, <1>5, <1>6, SameElements DEF Seam!HandBack
<1>8. entry'.src \in entry.src + 1 .. SrcSize BY <1>1, <1>2, <1>4
<1> QED BY <1>1, <1>4, <1>7, <1>8 DEF Seam!Element, Rejections

LEMMA NextRefines == ASSUME IInv, [Next]_vars PROVE [Seam!Next]_Seam!vars
<1>0. result \in {"more", "done"} \cup Rejections /\ SrcSize \in Nat /\ src_pos \in Nat
  BY Lz4Assumption DEF IInv, Typed, TypeOK
<1>1. CASE Token
  <2>1. result \in {"more", "done"} BY <1>1 DEF Token
  <2>2. CASE src_pos >= SrcSize /\ Reject("CORRUPT_INPUT")
    BY <2>1, <2>2, RejectRefines DEF Rejections, Seam!Next
  <2>3. CASE src_pos < SrcSize /\ result' = "more" /\ entry' = entry
    <3>1. result = "more" BY <2>1, <2>3, <1>0 DEF IInv, CursorInv
    <3> QED BY <3>1, <2>3, WithinCall
  <2>4. CASE src_pos < SrcSize /\ result' = "CORRUPT_INPUT" /\ entry' = entry
    BY <2>1, <2>4 DEF Seam!Next, Seam!Reject, Rejections
  <2> QED BY <1>1, <2>2, <2>3, <2>4 DEF Token
<1>2. CASE Extend
  <2>1. result = "more" BY <1>2 DEF Extend, IInv, CursorInv
  <2>2. CASE ExtendRefuses # "none" /\ Reject(ExtendRefuses)
    <3>1. ExtendRefuses \in Rejections BY <2>2 DEF ExtendRefuses, Rejections
    <3> QED BY <3>1, <2>1, <2>2, RejectRefines DEF Seam!Next
  <2>3. CASE result' = result /\ entry' = entry BY <2>3, WithinCall
  <2>4. CASE result' = "CORRUPT_INPUT" /\ entry' = entry
    BY <2>1, <2>4 DEF Seam!Next, Seam!Reject, Rejections
  <2> QED BY <1>2, <2>2, <2>3, <2>4 DEF Extend
<1>3. CASE LastRun BY <1>3, LastRunRefines DEF Seam!Next
<1>4. CASE LiteralsRejected
  <2>1. LiteralsRefuse \in Rejections /\ result = "more"
    BY <1>4 DEF LiteralsRejected, LiteralsRefuse, Rejections, IInv, CursorInv
  <2> QED BY <1>4, <2>1, RejectRefines DEF LiteralsRejected, Seam!Next
<1>5. CASE LiteralsAndOffset
  <2>1. result = "more" /\ entry' = entry
    BY <1>5 DEF LiteralsAndOffset, IInv, CursorInv
  <2>2. result' = result \/ result' = "CORRUPT_INPUT" BY <1>5 DEF LiteralsAndOffset
  <2>3. CASE result' = result BY <2>1, <2>3, WithinCall
  <2>4. CASE result' = "CORRUPT_INPUT"
    BY <2>1, <2>4 DEF Seam!Next, Seam!Reject, Rejections
  <2> QED BY <2>2, <2>3, <2>4
<1>6. CASE Match
  <2>1. result = "more" BY <1>6 DEF Match, IInv, CursorInv
  <2>2. CASE MatchRefuses # "none" /\ Reject(MatchRefuses)
    <3>1. MatchRefuses \in Rejections BY <2>2 DEF MatchRefuses, Rejections
    <3> QED BY <3>1, <2>1, <2>2, RejectRefines DEF Seam!Next
  <2>3. CASE MatchRefuses = "none" BY <1>6, <2>3, MatchRefines DEF Seam!Next
  <2> QED BY <1>6, <2>2, <2>3 DEF Match
<1>7. CASE Stopped \/ UNCHANGED vars BY <1>7, WithinCall DEF Stopped, vars
<1> QED BY <1>1, <1>2, <1>3, <1>4, <1>5, <1>6, <1>7 DEF Next, Step

\* Every element the parser hands back may be executed without a check: the
\* contract the chunk kernel states for a parser, kept at every size.
THEOREM Lz4KeepsSeam == Spec => ImplementsSeam
<1>1. IInv /\ [Next]_vars => [Seam!Next]_Seam!vars BY NextRefines
<1> QED BY <1>1, InitRefines, Invariance, PTL DEF Spec, ImplementsSeam, Seam!Spec

-----------------------------------------------------------------------------
(* Induction over the naturals, as a fact about sets: what a recursive      *)
(* definition computes, the library's theorems cannot say here, because     *)
(* they take an operator.                                                   *)

LEMMA Least ==
  ASSUME NEW T, T \subseteq Nat, T # {}
  PROVE  \E n \in T : \A m \in T : n <= m
<1> DEFINE R == OpToRel(<, Nat)
<1>1. IsWellFoundedOn(R, Nat) BY NatLessThanWellFounded
<1>2. \A a, b \in Nat : a < b => <<a, b>> \in R BY DEF OpToRel
<1> HIDE DEF R
<1>3. PICK n \in T : \A m \in T : ~(<<m, n>> \in R) BY <1>1, WFMin
<1>4. \A m \in T : ~(m < n) BY <1>2, <1>3
<1> QED BY <1>4

LEMMA Induction ==
  ASSUME NEW S, S \subseteq Nat, 0 \in S, \A n \in S : n + 1 \in S
  PROVE  Nat \subseteq S
<1> SUFFICES ASSUME Nat \ S # {} PROVE FALSE OBVIOUS
<1>1. PICK n \in Nat \ S : \A m \in Nat \ S : n <= m BY Least
<1>2. n # 0 /\ n - 1 \in Nat BY <1>1
<1>3. n - 1 \in S BY <1>1, <1>2
<1> QED BY <1>3, <1>1, <1>2

\* The powers of the varint base up to n, as a table.
IsPowers(g, n) == g = [k \in 0..n |-> IF k = 0 THEN 1 ELSE VarintBase * g[k - 1]]

\* There is one, so the recursive function of Power is what it says.
LEMMA PowersExist == ASSUME NEW n \in Nat PROVE \E g : IsPowers(g, n)
<1> DEFINE S == {m \in Nat : \E g : IsPowers(g, m)}
<1>1. 0 \in S
  <2> DEFINE g == [k \in 0..0 |-> 1]
  <2>1. IsPowers(g, 0) BY DEF IsPowers
  <2> QED BY <2>1
<1>2. ASSUME NEW m \in S PROVE m + 1 \in S
  <2>1. PICK g : IsPowers(g, m) BY <1>2
  <2> DEFINE h == [k \in 0..m + 1 |-> IF k = m + 1 THEN VarintBase * g[m] ELSE g[k]]
  <2>2. \A k \in 0..m : g[k] = IF k = 0 THEN 1 ELSE VarintBase * g[k - 1]
    BY <2>1 DEF IsPowers
  <2>3. ASSUME NEW k \in 0..m + 1
        PROVE  h[k] = IF k = 0 THEN 1 ELSE VarintBase * h[k - 1]
    <3>1. CASE k = m + 1
      <4>1. h[k - 1] = g[m] /\ h[k] = VarintBase * g[m] /\ k # 0 BY <3>1
      <4> QED BY <4>1
    <3>2. CASE k \in 0..m
      <4>1. h[k] = g[k] BY <3>2
      <4>2. k # 0 => h[k - 1] = g[k - 1] BY <3>2
      <4> QED BY <4>1, <4>2, <2>2, <3>2
    <3> QED BY <3>1, <3>2
  <2>4. IsPowers(h, m + 1) BY <2>3 DEF IsPowers
  <2> QED BY <2>4
<1>3. S \subseteq Nat OBVIOUS
<1> HIDE DEF S
<1>4. n \in S BY <1>1, <1>2, <1>3, Induction
<1> QED BY <1>4 DEF S

LEMMA PowerNat == ASSUME NEW n \in Nat PROVE Snappy!Power(n) \in Nat
<1> DEFINE p[k \in 0..n] == IF k = 0 THEN 1 ELSE VarintBase * p[k - 1]
<1>1. \E g : IsPowers(g, n) BY PowersExist
<1>2. p = [k \in 0..n |-> IF k = 0 THEN 1 ELSE VarintBase * p[k - 1]] BY <1>1 DEF IsPowers
<1> HIDE DEF p
<1> DEFINE S == {m \in Nat : m <= n => p[m] \in Nat}
<1>3. 0 \in S BY <1>2
<1>4. ASSUME NEW m \in S PROVE m + 1 \in S
  <2>1. m + 1 <= n => p[m + 1] = VarintBase * p[m] BY <1>2
  <2>2. \A a \in Nat : VarintBase * a \in Nat BY SnappyAssumption DEF Snappy!SnappyConstants
  <2> QED BY <2>1, <2>2
<1>5. S \subseteq Nat OBVIOUS
<1>6. n \in S BY <1>3, <1>4, <1>5, Induction
<1>7. Snappy!Power(n) = p[n] BY DEF Snappy!Power, p
<1> QED BY <1>6, <1>7

-----------------------------------------------------------------------------
(* Snappy. *)

SnappyTyped ==
  /\ Snappy!TypeOK
  /\ element \in Elements
  /\ returned \in Nat /\ highest \in Int
  /\ group < VarintGroups

\* Nothing is produced before the preamble is read, the success is remembered, and
\* an element never hands back a cursor behind the last one.
SnappyCursors ==
  /\ ~begun => src_pos = 0 /\ dst_pos = 0 /\ ~finished
  /\ result = "done" => finished
  /\ finished => begun
  /\ returned <= src_pos

SnappyInv == SnappyTyped /\ SnappyCursors /\ ReadsInBounds /\ Snappy!ProducesDeclared

\* What the assumption says of the constants, one by one.
LEMMA SnappyConsts ==
  /\ SrcSize \in Nat /\ DstCap \in Nat
  /\ VarintGroups \in Nat \ {0} /\ VarintBase \in Nat \ {0}
  /\ WideBytes \in Nat
  /\ InlineLengths \subseteq Nat /\ WideLengths \subseteq Nat
  /\ CopyLengths \subseteq Nat \ {0} /\ NarrowLengths \subseteq Nat \ {0}
  /\ Offsets \subseteq Nat
BY SnappyAssumption DEF Snappy!SnappyConstants

LEMMA SnappyInitInv == Snappy!Init => SnappyInv
<1> SUFFICES ASSUME Snappy!Init PROVE SnappyInv OBVIOUS
<1>1. element \in Elements
  BY DEF Snappy!Init, Snappy!NoElement, Elements
<1>2. Snappy!TypeOK
  <2>1. /\ src_pos \in 0..SrcSize /\ dst_pos \in 0..DstCap /\ declared \in Nat
        /\ group \in 0..VarintGroups
    BY SnappyConsts DEF Snappy!Init
  <2>2. begun \in BOOLEAN /\ finished \in BOOLEAN BY Zenon DEF Snappy!Init
  <2> QED BY <2>1, <2>2 DEF Snappy!Init, Snappy!TypeOK
<1>3. SnappyTyped
  BY <1>1, <1>2, SnappyConsts DEF Snappy!Init, SnappyTyped
<1> QED BY <1>3, SnappyConsts
     DEF Snappy!Init, SnappyInv, SnappyCursors, ReadsInBounds, Snappy!ProducesDeclared

LEMMA RefuseInv ==
  ASSUME SnappyInv, NEW s \in Rejections, NEW pos \in src_pos..SrcSize,
         begun \/ pos = src_pos, finished => pos = src_pos,
         Snappy!RefuseAt(pos, s), highest' \in Int, highest' < SrcSize
  PROVE  SnappyInv'
<1>1. SnappyTyped'
  BY SnappyConsts DEF SnappyInv, SnappyTyped, Snappy!TypeOK, Snappy!RefuseAt,
                      Snappy!Rejections, Rejections
<1> QED BY <1>1, SnappyConsts
     DEF SnappyInv, SnappyTyped, Snappy!TypeOK, SnappyCursors, ReadsInBounds,
         Snappy!ProducesDeclared, Snappy!RefuseAt, Rejections

LEMMA SnappyBeginInv == ASSUME SnappyInv, Snappy!Begin PROVE SnappyInv'
<1>0. /\ src_pos = 0 /\ dst_pos = 0 /\ ~finished /\ ~begun /\ result = "more"
      /\ src_pos \in src_pos..SrcSize /\ group \in Nat /\ group < VarintGroups
      /\ declared \in Nat /\ highest \in Int /\ highest < SrcSize
  BY SnappyConsts DEF SnappyInv, SnappyTyped, Snappy!TypeOK, SnappyCursors, ReadsInBounds,
                      Snappy!Begin
<1>1. CASE group >= SrcSize /\ Snappy!Refuse("CORRUPT_INPUT") /\ UNCHANGED highest
  BY <1>0, <1>1, RefuseInv DEF Rejections, Snappy!Refuse
<1>2. CASE group < SrcSize /\ ~(group >= SrcSize)
  <2>1. PICK payload \in 0..VarintBase - 1, continued \in BOOLEAN :
          LET value == declared + payload * Snappy!Power(group)
              final == group + 1 = VarintGroups
          IN
          /\ highest' = group
          /\ UNCHANGED <<dst_pos, finished, element, returned>>
          /\ IF final /\ (payload >= FinalMax \/ continued)
               THEN result' = "CORRUPT_INPUT"
                    /\ UNCHANGED <<src_pos, declared, begun, group>>
             ELSE IF continued
               THEN declared' = value /\ group' = group + 1
                    /\ UNCHANGED <<src_pos, begun, result>>
             ELSE IF value > DstCap
               THEN declared' = value /\ result' = "OUTPUT_TOO_SMALL"
                    /\ UNCHANGED <<src_pos, begun, group>>
               ELSE declared' = value /\ src_pos' = group + 1 /\ begun' = TRUE
                    /\ UNCHANGED <<group, result>>
    BY <1>2 DEF Snappy!Begin
  <2> DEFINE value == declared + payload * Snappy!Power(group)
  <2>2. value \in Nat
    <3>1. \A a, b \in Nat : a * b \in Nat OBVIOUS
    <3>2. payload \in Nat BY SnappyConsts
    <3>3. payload * Snappy!Power(group) \in Nat BY <1>0, <3>1, <3>2, PowerNat
    <3> QED BY <3>3, <1>0
  <2>3. highest' = group /\ UNCHANGED <<dst_pos, finished, element, returned>>
        /\ \/ result' = "CORRUPT_INPUT" /\ UNCHANGED <<src_pos, declared, begun, group>>
           \/ /\ group + 1 # VarintGroups /\ declared' = value /\ group' = group + 1
              /\ UNCHANGED <<src_pos, begun, result>>
           \/ /\ declared' = value /\ result' = "OUTPUT_TOO_SMALL"
              /\ UNCHANGED <<src_pos, begun, group>>
           \/ /\ ~(value > DstCap) /\ declared' = value /\ src_pos' = group + 1
              /\ begun' = TRUE /\ UNCHANGED <<group, result>>
    BY <2>1
  <2> HIDE DEF value
  <2>4. group < SrcSize BY <1>2
  <2>5. SnappyTyped'
    <3>1. begun' \in BOOLEAN /\ finished' \in BOOLEAN
      BY <2>3, Zenon DEF SnappyInv, SnappyTyped, Snappy!TypeOK
    <3>2. /\ src_pos' \in 0..SrcSize /\ dst_pos' \in 0..DstCap /\ declared' \in Nat
          /\ group' \in 0..VarintGroups /\ group' < VarintGroups /\ highest' \in Int
      BY <1>0, <2>2, <2>3, <2>4, SnappyConsts
    <3>3. result' \in {"more", "done"} \cup Snappy!Rejections
      BY <1>0, <2>3 DEF Snappy!Rejections
    <3>4. element' \in Elements /\ returned' \in Nat
      BY <2>3 DEF SnappyInv, SnappyTyped
    <3> QED BY <3>1, <3>2, <3>3, <3>4 DEF SnappyTyped, Snappy!TypeOK
  <2>6. SnappyCursors'
    <3>1. returned = 0 BY <1>0 DEF SnappyInv, SnappyTyped, SnappyCursors
    <3> QED BY <3>1, <1>0, <2>3 DEF SnappyCursors
  <2>7. ReadsInBounds' BY <2>3, <2>4 DEF ReadsInBounds
  <2>8. Snappy!ProducesDeclared'
    BY <1>0, <2>2, <2>3, SnappyConsts DEF Snappy!ProducesDeclared
  <2> QED BY <2>5, <2>6, <2>7, <2>8 DEF SnappyInv
<1> QED BY <1>0, <1>1, <1>2, SnappyConsts DEF Snappy!Begin

\* The three ways a call ends: it refuses, it hands an element back, or it succeeds.
SnappyRefuses ==
  /\ result \in {"more", "done"}
  /\ \E s \in Rejections, pos \in src_pos..SrcSize :
       /\ Snappy!RefuseAt(pos, s)
       /\ begun \/ pos = src_pos
       /\ finished => pos = src_pos
  /\ highest' \in Int /\ highest' < SrcSize

SnappyHandsBack ==
  /\ result = "more" /\ result' = "more"
  /\ begun /\ ~finished
  /\ src_pos' \in src_pos + 1 .. SrcSize /\ returned' = src_pos'
  /\ element' \in Elements /\ Kept!Bounded(element', dst_pos)
  /\ dst_pos' = dst_pos + element'.lit_len + element'.match_len
  /\ dst_pos' <= declared
  /\ highest' \in Int /\ highest' < SrcSize
  /\ UNCHANGED <<declared, begun, finished, group>>

SnappySucceeds ==
  /\ result = "more" /\ result' = "done"
  /\ begun /\ ~finished /\ finished' = TRUE
  /\ src_pos = SrcSize /\ dst_pos = declared
  /\ element' = NoElement /\ returned' = src_pos
  /\ UNCHANGED <<src_pos, dst_pos, declared, begun, group, highest>>

\* The numbers a call works with.
LEMMA SnappyCall ==
  ASSUME SnappyInv
  PROVE  /\ src_pos \in Nat /\ src_pos <= SrcSize /\ dst_pos \in Nat /\ dst_pos <= DstCap
         /\ declared \in Nat /\ returned \in Nat /\ returned <= src_pos
         /\ highest \in Int /\ highest < SrcSize
         /\ begun => dst_pos <= declared /\ declared <= DstCap
         /\ result = "done" => finished
BY SnappyConsts DEF SnappyInv, SnappyTyped, Snappy!TypeOK, SnappyCursors, ReadsInBounds,
                    Snappy!ProducesDeclared

LEMMA PastTerminalRefuses ==
  ASSUME SnappyInv, Snappy!PastTerminal PROVE SnappyRefuses
<1>1. src_pos \in src_pos..SrcSize BY SnappyCall, SnappyConsts
<1>2. /\ result \in {"more", "done"} /\ begun /\ highest' = highest
      /\ Snappy!RefuseAt(src_pos, "CORRUPT_INPUT")
  BY DEF Snappy!PastTerminal, Snappy!Calls, Snappy!Refuse
<1>3. "CORRUPT_INPUT" \in Rejections BY DEF Rejections
<1> QED BY <1>1, <1>2, <1>3, SnappyCall DEF SnappyRefuses

LEMMA TerminalReturns ==
  ASSUME SnappyInv, Snappy!Terminal PROVE SnappyRefuses \/ SnappySucceeds
<1>1. result \in {"more", "done"} /\ begun /\ ~finished /\ src_pos >= SrcSize
  BY DEF Snappy!Terminal, Snappy!Calls
<1>2. result = "more" /\ src_pos = SrcSize BY <1>1, SnappyCall, SnappyConsts
<1>3. CASE Snappy!Refuse("CORRUPT_INPUT") /\ UNCHANGED highest
  <2>1. src_pos \in src_pos..SrcSize BY SnappyCall, SnappyConsts
  <2>2. "CORRUPT_INPUT" \in Rejections BY DEF Rejections
  <2>3. Snappy!RefuseAt(src_pos, "CORRUPT_INPUT") /\ highest' = highest
    BY <1>3 DEF Snappy!Refuse
  <2> QED BY <1>1, <2>1, <2>2, <2>3, SnappyCall DEF SnappyRefuses
<1>4. CASE /\ dst_pos = declared /\ element' = Snappy!NoElement /\ finished' = TRUE
           /\ result' = "done" /\ returned' = src_pos
           /\ UNCHANGED <<src_pos, dst_pos, declared, begun, group, highest>>
  BY <1>1, <1>2, <1>4 DEF SnappySucceeds, Snappy!NoElement, NoElement
<1> QED BY <1>3, <1>4 DEF Snappy!Terminal

\* A header read that fits lets the call refuse anywhere behind it.
LEMMA RefusesBehind ==
  ASSUME SnappyInv, result \in {"more", "done"}, begun, ~finished,
         NEW pos \in Nat, src_pos <= pos, pos <= SrcSize,
         Snappy!RefuseAt(pos, "CORRUPT_INPUT"), highest' \in Int, highest' < SrcSize
  PROVE  SnappyRefuses
<1>1. pos \in src_pos..SrcSize BY SnappyCall, SnappyConsts
<1>2. "CORRUPT_INPUT" \in Rejections BY DEF Rejections
<1> QED BY <1>1, <1>2 DEF SnappyRefuses

LEMMA LiteralReturns ==
  ASSUME SnappyInv, Snappy!Literal PROVE SnappyRefuses \/ SnappyHandsBack
<1>1. /\ result \in {"more", "done"} /\ begun /\ ~finished /\ src_pos < SrcSize
  BY DEF Snappy!Literal, Snappy!Calls
<1>2. result = "more" BY <1>1, SnappyCall
<1>3. PICK extra \in 0..WideBytes :
       \/ ~Snappy!HeaderFits(1 + extra) /\ Snappy!Refuse("CORRUPT_INPUT") /\ highest' = src_pos
       \/ /\ Snappy!HeaderFits(1 + extra)
          /\ highest' = src_pos + extra
          /\ \E n \in (IF extra = 0 THEN InlineLengths ELSE WideLengths) :
               IF n + 1 > SrcSize - (src_pos + (1 + extra)) \/ n + 1 > Snappy!OutputLeft
               THEN Snappy!RefuseAt(src_pos + (1 + extra), "CORRUPT_INPUT")
               ELSE /\ element' = [Snappy!NoElement EXCEPT !.lit_src = src_pos + (1 + extra),
                                      !.lit_dst = dst_pos, !.lit_len = n + 1]
                    /\ src_pos' = src_pos + (1 + extra) + (n + 1) /\ returned' = src_pos'
                    /\ dst_pos' = dst_pos + (n + 1)
                    /\ result' = "more"
                    /\ UNCHANGED <<declared, begun, finished, group>>
  BY DEF Snappy!Literal
<1>4. extra \in Nat BY SnappyConsts
<1>5. CASE Snappy!Refuse("CORRUPT_INPUT") /\ highest' = src_pos
  BY <1>1, <1>5, SnappyCall, SnappyConsts, RefusesBehind DEF Snappy!Refuse
<1>6. CASE /\ Snappy!HeaderFits(1 + extra)
           /\ ~(Snappy!Refuse("CORRUPT_INPUT") /\ highest' = src_pos)
  <2> DEFINE start == src_pos + (1 + extra)
  <2>1. highest' = src_pos + extra BY <1>3, <1>6
  <2>2. /\ start \in Nat /\ start <= SrcSize /\ src_pos <= start /\ start >= src_pos + 1
        /\ highest' \in Int /\ highest' < SrcSize
    BY <1>4, <1>6, <2>1, SnappyCall, SnappyConsts DEF Snappy!HeaderFits
  <2>3. PICK n \in Nat :
          IF n + 1 > SrcSize - start \/ n + 1 > Snappy!OutputLeft
          THEN Snappy!RefuseAt(start, "CORRUPT_INPUT")
          ELSE /\ element' = [Snappy!NoElement EXCEPT !.lit_src = start,
                                 !.lit_dst = dst_pos, !.lit_len = n + 1]
               /\ src_pos' = start + (n + 1) /\ returned' = src_pos'
               /\ dst_pos' = dst_pos + (n + 1)
               /\ result' = "more"
               /\ UNCHANGED <<declared, begun, finished, group>>
    BY <1>3, <1>6, SnappyConsts
  <2> HIDE DEF start
  <2>4. CASE Snappy!RefuseAt(start, "CORRUPT_INPUT")
    BY <1>1, <2>2, <2>4, RefusesBehind
  <2>5. CASE ~Snappy!RefuseAt(start, "CORRUPT_INPUT")
    <3>1. start + (n + 1) <= SrcSize /\ dst_pos + (n + 1) <= declared
      BY <2>2, <2>3, <2>5, SnappyCall, SnappyConsts DEF Snappy!OutputLeft
    <3>2. element' = [lit_src |-> start, lit_dst |-> dst_pos, lit_len |-> n + 1,
                      off |-> 1, match_dst |-> 0, match_len |-> 0]
      BY <2>3, <2>5 DEF Snappy!NoElement
    <3>3. element' \in Elements
      <4>1. 0 \in Nat /\ 1 \in Nat /\ start \in Nat /\ dst_pos \in Nat /\ n + 1 \in Nat
        BY <2>2, SnappyCall
      <4> QED BY <3>2, <4>1, ElementTyped
    <3>4. /\ src_pos' = start + (n + 1) /\ returned' = src_pos'
          /\ dst_pos' = dst_pos + (n + 1) /\ result' = "more"
          /\ UNCHANGED <<declared, begun, finished, group>>
      BY <2>3, <2>5
    <3>5. Kept!Bounded(element', dst_pos)
      BY <2>2, <3>1, <3>2, <1>1, SnappyCall, SnappyConsts DEF Kept!Bounded
    <3>6. src_pos' \in src_pos + 1 .. SrcSize
      BY <2>2, <3>1, <3>4, SnappyCall, SnappyConsts
    <3>7. dst_pos' = dst_pos + element'.lit_len + element'.match_len
      BY <3>2, <3>4, SnappyCall
    <3>8. dst_pos' <= declared BY <3>1, <3>4
    <3> QED BY <1>1, <1>2, <2>2, <3>3, <3>4, <3>5, <3>6, <3>7, <3>8 DEF SnappyHandsBack
  <2> QED BY <2>4, <2>5
<1> QED BY <1>3, <1>5, <1>6

LEMMA CopyReturns ==
  ASSUME SnappyInv, Snappy!Copy PROVE SnappyRefuses \/ SnappyHandsBack
<1>1. /\ result \in {"more", "done"} /\ begun /\ ~finished /\ src_pos < SrcSize
  BY DEF Snappy!Copy, Snappy!Calls
<1>2. result = "more" BY <1>1, SnappyCall
<1>3. PICK bytes \in {1, 2, 4} :
       \/ ~Snappy!HeaderFits(1 + bytes) /\ Snappy!Refuse("CORRUPT_INPUT") /\ highest' = src_pos
       \/ /\ Snappy!HeaderFits(1 + bytes)
          /\ highest' = src_pos + bytes
          /\ \E offset \in Offsets,
                length_1 \in IF bytes = 1 THEN NarrowLengths ELSE CopyLengths :
               IF Snappy!OffsetRefused(offset) \/ length_1 > Snappy!OutputLeft
               THEN Snappy!RefuseAt(src_pos + (1 + bytes), "CORRUPT_INPUT")
               ELSE /\ element' = [Snappy!NoElement EXCEPT !.off = offset,
                                      !.match_dst = dst_pos, !.match_len = length_1]
                    /\ src_pos' = src_pos + (1 + bytes) /\ returned' = src_pos'
                    /\ dst_pos' = dst_pos + length_1
                    /\ result' = "more"
                    /\ UNCHANGED <<declared, begun, finished, group>>
  BY DEF Snappy!Copy
<1>4. CASE Snappy!Refuse("CORRUPT_INPUT") /\ highest' = src_pos
  BY <1>1, <1>4, SnappyCall, SnappyConsts, RefusesBehind DEF Snappy!Refuse
<1>5. CASE /\ Snappy!HeaderFits(1 + bytes)
           /\ ~(Snappy!Refuse("CORRUPT_INPUT") /\ highest' = src_pos)
  <2> DEFINE start == src_pos + (1 + bytes)
  <2>1. highest' = src_pos + bytes BY <1>3, <1>5
  <2>2. /\ start \in Nat /\ start <= SrcSize /\ src_pos <= start /\ start >= src_pos + 1
        /\ highest' \in Int /\ highest' < SrcSize
    BY <1>5, <2>1, SnappyCall, SnappyConsts DEF Snappy!HeaderFits
  <2>3. PICK offset \in Nat, len \in Nat \ {0} :
          IF Snappy!OffsetRefused(offset) \/ len > Snappy!OutputLeft
          THEN Snappy!RefuseAt(start, "CORRUPT_INPUT")
          ELSE /\ element' = [Snappy!NoElement EXCEPT !.off = offset,
                                 !.match_dst = dst_pos, !.match_len = len]
               /\ src_pos' = start /\ returned' = src_pos'
               /\ dst_pos' = dst_pos + len
               /\ result' = "more"
               /\ UNCHANGED <<declared, begun, finished, group>>
    BY <1>3, <1>5, SnappyConsts
  <2> HIDE DEF start
  <2>4. CASE Snappy!RefuseAt(start, "CORRUPT_INPUT")
    BY <1>1, <2>2, <2>4, RefusesBehind
  <2>5. CASE ~Snappy!RefuseAt(start, "CORRUPT_INPUT")
    <3>1. offset \in 1..dst_pos /\ dst_pos + len <= declared
      BY <2>3, <2>5, SnappyCall, SnappyConsts DEF Snappy!OutputLeft, Snappy!OffsetRefused
    <3>2. element' = [lit_src |-> 0, lit_dst |-> 0, lit_len |-> 0,
                      off |-> offset, match_dst |-> dst_pos, match_len |-> len]
      BY <2>3, <2>5 DEF Snappy!NoElement
    <3>3. element' \in Elements
      <4>1. 0 \in Nat /\ offset \in Nat /\ dst_pos \in Nat /\ len \in Nat BY SnappyCall
      <4> QED BY <3>2, <4>1, ElementTyped
    <3>4. /\ src_pos' = start /\ returned' = src_pos'
          /\ dst_pos' = dst_pos + len /\ result' = "more"
          /\ UNCHANGED <<declared, begun, finished, group>>
      BY <2>3, <2>5
    <3>5. Kept!Bounded(element', dst_pos)
      BY <3>1, <3>2, <1>1, SnappyCall, SnappyConsts DEF Kept!Bounded
    <3>6. src_pos' \in src_pos + 1 .. SrcSize
      BY <2>2, <3>4, SnappyCall, SnappyConsts
    <3>7. dst_pos' = dst_pos + element'.lit_len + element'.match_len
      BY <3>2, <3>4, SnappyCall
    <3>8. dst_pos' <= declared BY <3>1, <3>4
    <3> QED BY <1>1, <1>2, <2>2, <3>3, <3>4, <3>5, <3>6, <3>7, <3>8 DEF SnappyHandsBack
  <2> QED BY <2>4, <2>5
<1> QED BY <1>3, <1>4, <1>5

LEMMA RefusesInv == ASSUME SnappyInv, SnappyRefuses PROVE SnappyInv'
<1>1. PICK s \in Rejections, pos \in src_pos..SrcSize :
       /\ Snappy!RefuseAt(pos, s)
       /\ begun \/ pos = src_pos
       /\ finished => pos = src_pos
  BY DEF SnappyRefuses
<1> QED BY <1>1, RefuseInv DEF SnappyRefuses

LEMMA HandsBackInv == ASSUME SnappyInv, SnappyHandsBack PROVE SnappyInv'
<1>1. /\ result' = "more" /\ begun /\ ~finished /\ src_pos' \in src_pos + 1 .. SrcSize
      /\ returned' = src_pos' /\ element' \in Elements /\ dst_pos' <= declared
      /\ dst_pos' = dst_pos + element'.lit_len + element'.match_len
      /\ highest' \in Int /\ highest' < SrcSize
      /\ UNCHANGED <<declared, begun, finished, group>>
  BY DEF SnappyHandsBack
<1>2. element'.lit_len \in Nat /\ element'.match_len \in Nat BY <1>1 DEF Elements
<1>3. Snappy!TypeOK'
  <2>1. begun' \in BOOLEAN /\ finished' \in BOOLEAN
    BY <1>1, Zenon DEF SnappyInv, SnappyTyped, Snappy!TypeOK
  <2>2. src_pos' \in 0..SrcSize /\ dst_pos' \in 0..DstCap /\ returned' \in Nat
    BY <1>1, <1>2, SnappyCall, SnappyConsts
  <2>3. declared' \in Nat /\ group' \in 0..VarintGroups
    BY <1>1 DEF SnappyInv, SnappyTyped, Snappy!TypeOK
  <2> QED BY <1>1, <2>1, <2>2, <2>3 DEF Snappy!TypeOK
<1>4. SnappyTyped'
  <2>1. returned' \in Nat BY <1>1, SnappyCall, SnappyConsts
  <2> QED BY <1>1, <1>3, <2>1 DEF SnappyInv, SnappyTyped
<1>5. SnappyCursors' BY <1>1, SnappyCall, SnappyConsts DEF SnappyCursors
<1>6. ReadsInBounds' BY <1>1 DEF ReadsInBounds
<1>7. Snappy!ProducesDeclared' BY <1>1, SnappyCall DEF Snappy!ProducesDeclared
<1> QED BY <1>4, <1>5, <1>6, <1>7 DEF SnappyInv

LEMMA SucceedsInv == ASSUME SnappyInv, SnappySucceeds PROVE SnappyInv'
<1>1. Snappy!TypeOK'
  <2>1. begun' \in BOOLEAN /\ finished' \in BOOLEAN
    BY Zenon DEF SnappySucceeds, SnappyInv, SnappyTyped, Snappy!TypeOK
  <2> QED BY <2>1 DEF SnappySucceeds, SnappyInv, SnappyTyped, Snappy!TypeOK
<1>2. SnappyTyped'
  <2>1. NoElement \in Elements BY DEF NoElement, Elements
  <2> QED BY <1>1, <2>1, SnappyCall DEF SnappyInv, SnappyTyped, SnappySucceeds
<1>3. SnappyCursors' BY SnappyCall DEF SnappyCursors, SnappySucceeds
<1>4. ReadsInBounds' BY SnappyCall DEF ReadsInBounds, SnappySucceeds
<1>5. Snappy!ProducesDeclared' BY SnappyCall DEF Snappy!ProducesDeclared, SnappySucceeds
<1> QED BY <1>2, <1>3, <1>4, <1>5 DEF SnappyInv

LEMMA SnappyStepInv == ASSUME SnappyInv, Snappy!Step PROVE SnappyInv'
<1>1. CASE Snappy!Begin BY <1>1, SnappyBeginInv
<1>2. CASE Snappy!PastTerminal BY <1>2, PastTerminalRefuses, RefusesInv
<1>3. CASE Snappy!Terminal BY <1>3, TerminalReturns, RefusesInv, SucceedsInv
<1>4. CASE Snappy!Literal BY <1>4, LiteralReturns, RefusesInv, HandsBackInv
<1>5. CASE Snappy!Copy BY <1>5, CopyReturns, RefusesInv, HandsBackInv
<1> QED BY <1>1, <1>2, <1>3, <1>4, <1>5 DEF Snappy!Step

-----------------------------------------------------------------------------
(* The pair behind the seam. *)

\* The parser of the launch keeps its own invariant, and LZ4's state is untouched
\* while Snappy's parser runs.
PairInv ==
  /\ format \in {"lz4", "snappy"}
  /\ format = "lz4" => IInv
  /\ format = "snappy" => SnappyInv /\ pc = "call"

LEMMA PairInit == ParserInit => PairInv
BY InitInv, SnappyInitInv DEF ParserInit, PairInv, Init

LEMMA PairNext == ASSUME PairInv, [ParserNext]_parserVars PROVE PairInv'
<1>1. CASE Lz4Step
  <2>1. IInv' BY <1>1, NextInv DEF Lz4Step, Next, PairInv
  <2> QED BY <1>1, <2>1 DEF Lz4Step, PairInv
<1>2. CASE SnappyStep
  <2>1. SnappyInv' BY <1>2, SnappyStepInv DEF SnappyStep, PairInv
  <2> QED BY <1>2, <2>1 DEF SnappyStep, PairInv, lz4Vars
<1>3. CASE ParserStopped \/ UNCHANGED parserVars
  <2>1. UNCHANGED <<vars, snappyVars, format>> BY <1>3 DEF ParserStopped, parserVars
  <2>2. IInv => IInv' BY <2>1, NextInv
  <2>3. SnappyInv => SnappyInv'
    BY <2>1 DEF vars, snappyVars, SnappyInv, SnappyTyped, Snappy!TypeOK, SnappyCursors,
                ReadsInBounds, Snappy!ProducesDeclared
  <2>4. format' = format /\ pc' = pc BY <2>1 DEF vars
  <2> QED BY <2>2, <2>3, <2>4 DEF PairInv
<1> QED BY <1>1, <1>2, <1>3 DEF ParserNext

LEMMA PairInvariance == ParserSpec => []PairInv
BY PairInit, PairNext, PTL DEF ParserSpec

\* Neither parser ever reads a header byte outside the block.
THEOREM ParsersReadInBounds == ParserSpec => []ReadsInBounds
<1>1. PairInv => ReadsInBounds BY DEF PairInv, IInv, SnappyInv
<1> QED BY <1>1, PairInvariance, PTL

\* In either parser's launch, LZ4's lengths stay bounded.
THEOREM ParsersBoundLengths == ParserSpec => []LengthBounded
<1>1. PairInv => LengthBounded BY DEF PairInv, IInv, LengthBounded
<1> QED BY <1>1, PairInvariance, PTL

LEMMA KeptInit == ParserInit => Kept!Init
<1> SUFFICES ASSUME ParserInit PROVE Kept!Init OBVIOUS
<1>1. /\ entry = [src |-> 0, dst |-> 0, element |-> NoElement]
      /\ returned = 0 /\ dst_pos = 0 /\ element = NoElement /\ result = "more"
  BY DEF ParserInit, Init, Snappy!Init
<1> QED BY <1>1 DEF Kept!Init, Kept!NoElement, NoElement, Rejections

\* A step of LZ4's seam is one of the pair's, when the launch is LZ4's.
LEMMA Lz4StepKept ==
  ASSUME PairInv, Lz4Step PROVE [Kept!Next]_Kept!vars
<1>1. format = "lz4" /\ format' = "lz4" BY DEF Lz4Step
<1>2. [Seam!Next]_Seam!vars BY NextRefines DEF Lz4Step, Next, PairInv
<1>3. \A e, from : Kept!Bounded(e, from) <=> Seam!Bounded(e, from)
  BY DEF Kept!Bounded, Seam!Bounded
<1>4. Kept!Elements = Seam!Elements BY DEF Kept!Elements, Seam!Elements
<1>5. CASE Seam!Element
  BY <1>1, <1>3, <1>4, <1>5
     DEF Seam!Element, Seam!HandBack, Kept!Next, Kept!Element, Kept!HandBack
<1>6. CASE Seam!Terminal
  BY <1>1, <1>3, <1>4, <1>6
     DEF Seam!Terminal, Seam!HandBack, Kept!Next, Kept!Terminal, Kept!HandBack
<1>7. CASE Seam!Reject
  BY <1>1, <1>7 DEF Seam!Reject, Kept!Next, Kept!Reject
<1>8. CASE UNCHANGED Seam!vars BY <1>1, <1>8 DEF Seam!vars, Kept!vars
<1> QED BY <1>2, <1>5, <1>6, <1>7, <1>8 DEF Seam!Next

LEMMA RefusesKept ==
  ASSUME format = "snappy", format' = "snappy", SnappyRefuses
  PROVE  Kept!Reject
<1>1. /\ result \in {"more", "done"} /\ result' \in Rejections
      /\ UNCHANGED <<dst_pos, element, returned>>
  BY DEF SnappyRefuses, Snappy!RefuseAt
<1> QED BY <1>1 DEF Kept!Reject, Rejections

LEMMA HandsBackKept ==
  ASSUME SnappyInv, format = "snappy", format' = "snappy", SnappyHandsBack
  PROVE  Kept!Element
<1>1. /\ result = "more" /\ result' = "more"
      /\ src_pos' \in src_pos + 1 .. SrcSize /\ returned' = src_pos'
      /\ element' \in Elements /\ Kept!Bounded(element', dst_pos)
      /\ dst_pos' = dst_pos + element'.lit_len + element'.match_len
  BY DEF SnappyHandsBack
<1>2. returned' \in returned + 1 .. SrcSize BY <1>1, SnappyCall, SnappyConsts
<1>3. element' \in Kept!Elements BY <1>1 DEF Kept!Elements, Elements
<1> QED BY <1>1, <1>2, <1>3 DEF Kept!Element, Kept!HandBack, Rejections

LEMMA SucceedsKept ==
  ASSUME SnappyInv, format = "snappy", format' = "snappy", SnappySucceeds
  PROVE  Kept!Terminal
<1>1. /\ result = "more" /\ result' = "done" /\ src_pos = SrcSize /\ returned' = src_pos
      /\ element' = NoElement /\ dst_pos' = dst_pos /\ begun
  BY DEF SnappySucceeds
<1>2. element' \in Kept!Elements /\ element'.match_len = 0 /\ element'.lit_len = 0
  BY <1>1 DEF Kept!Elements, NoElement
<1>3. Kept!Bounded(element', dst_pos) /\ dst_pos' = dst_pos + element'.lit_len + element'.match_len
  BY <1>1, <1>2, SnappyCall, SnappyConsts DEF Kept!Bounded
<1> QED BY <1>1, <1>2, <1>3 DEF Kept!Terminal, Kept!HandBack, Rejections

\* The preamble hands nothing back; reading it either goes on or refuses the block.
LEMMA BeginKept ==
  ASSUME SnappyInv, format = "snappy", format' = "snappy", Snappy!Begin
  PROVE  Kept!Reject \/ UNCHANGED Kept!vars
<1>1. /\ result = "more" /\ result' \in {"more"} \cup Rejections
      /\ UNCHANGED <<dst_pos, element, returned>>
  BY DEF Snappy!Begin, Snappy!Refuse, Snappy!RefuseAt, Rejections
<1> QED BY <1>1 DEF Kept!Reject, Kept!vars, Rejections

LEMMA SnappyStepKept ==
  ASSUME PairInv, SnappyStep PROVE [Kept!Next]_Kept!vars
<1>0. SnappyInv /\ format = "snappy" /\ format' = "snappy"
  BY DEF PairInv, SnappyStep
<1>1. CASE Snappy!Begin BY <1>0, <1>1, BeginKept DEF Kept!Next
<1>2. CASE Snappy!PastTerminal
  BY <1>0, <1>2, PastTerminalRefuses, RefusesKept DEF Kept!Next
<1>3. CASE Snappy!Terminal
  BY <1>0, <1>3, TerminalReturns, RefusesKept, SucceedsKept DEF Kept!Next
<1>4. CASE Snappy!Literal
  BY <1>0, <1>4, LiteralReturns, RefusesKept, HandsBackKept DEF Kept!Next
<1>5. CASE Snappy!Copy
  BY <1>0, <1>5, CopyReturns, RefusesKept, HandsBackKept DEF Kept!Next
<1> QED BY <1>1, <1>2, <1>3, <1>4, <1>5 DEF SnappyStep, Snappy!Step

LEMMA PairKept == ASSUME PairInv, [ParserNext]_parserVars PROVE [Kept!Next]_Kept!vars
<1>1. CASE Lz4Step BY <1>1, Lz4StepKept
<1>2. CASE SnappyStep BY <1>2, SnappyStepKept
<1>3. CASE ParserStopped \/ UNCHANGED parserVars
  <2>1. UNCHANGED <<vars, snappyVars, format>> BY <1>3 DEF ParserStopped, parserVars
  <2>2. UNCHANGED <<entry, returned, dst_pos, element, result, format>>
    BY <2>1 DEF vars, snappyVars
  <2> QED BY <2>2 DEF Kept!vars
<1> QED BY <1>1, <1>2, <1>3 DEF ParserNext

\* Whichever parser the entry chose, what it hands back is what the chunk kernel
\* assumes of a parser, so every element is executed without a check; and Snappy's
\* success means exactly the declared length from exactly the source.
THEOREM ParsersKeepSeam == ParserSpec => ParserKeepsSeam
<1>1. PairInv => (format = "snappy" => Snappy!ProducesDeclared) BY DEF PairInv, SnappyInv
<1>2. PairInv /\ [ParserNext]_parserVars => [Kept!Next]_Kept!vars BY PairKept
<1> QED BY <1>1, <1>2, KeptInit, PairInvariance, PTL DEF ParserSpec, ParserKeepsSeam, Kept!Spec
=============================================================================
