---------------------------- MODULE KernelProofs ----------------------------
(***************************************************************************)
(* What a decode kernel does with one chunk, for every wave width, block   *)
(* size, destination and parser the seam admits: the lanes of a wave never *)
(* race and an accepted chunk is the sequential expansion of its elements, *)
(* the threads of a Zstd block stay at one place of the program and        *)
(* complete its copies.                                                    *)
(***************************************************************************)
EXTENDS Launches, TLAPS

-----------------------------------------------------------------------------
(* The lanes of a wave. The elements cut the destination into regions one  *)
(* after the other (ScriptInv), the two barriers keep the lanes within one *)
(* phase of each other (BarrierInv), so whatever a lane has copied stays   *)
(* as it is (DataInv).                                                     *)

Answers == [element : Parser!Elements, outcome : {"more", "done", "rejected"}, dst_pos : Nat]
LaneStates ==
  [calls : Nat, pc : Pcs, i : Nat, fuel : Int,
   status : {"OK", "REJECTED", "CORRUPT_INPUT"}, done : BOOLEAN]

ParserTyped ==
  /\ src_pos \in Nat /\ dst_pos \in Nat /\ element \in Parser!Elements
  /\ outcome \in {"more", "done", "rejected"}
  /\ script \in Seq(Answers)

Calls == 1..Len(script)
Taken(k) == script[k].outcome # "rejected"
El(k) == script[k].element

\* Where the output of call k begins, and where its literals end. An empty half
\* of an element says nothing of its own place.
Start(k) == script[k].dst_pos - El(k).match_len - El(k).lit_len
Mid(k) == script[k].dst_pos - El(k).match_len

\* Only the last call ends the parse, every element continues the output of
\* the one before, the elements cover it, and each but the last has cost a
\* source byte.
ScriptInv ==
  /\ \A k \in Calls : k < Len(script) => script[k].outcome = "more"
  /\ IF Len(script) = 0 THEN outcome = "more" /\ dst_pos = 0
     ELSE script[Len(script)].outcome = outcome /\ script[Len(script)].dst_pos = dst_pos
  /\ \A k \in Calls : script[k].dst_pos <= dst_pos
  /\ \A k \in Calls : Taken(k) =>
       /\ Start(k) \in Nat
       /\ El(k).lit_len > 0 => El(k).lit_dst = Start(k)
       /\ El(k).match_len > 0 => El(k).match_dst = Mid(k) /\ El(k).off \in 1..Mid(k)
       /\ script[k].outcome = "done" => El(k).match_len = 0
  /\ \A k, n \in Calls : k < n /\ Taken(n) => script[k].dst_pos <= Start(n)
  /\ \A p \in Nat : p < dst_pos =>
       \E k \in Calls : Taken(k) /\ Start(k) <= p /\ p < script[k].dst_pos
  /\ (IF outcome = "more" THEN Len(script) ELSE Len(script) - 1) <= src_pos
  /\ src_pos <= SrcSize

InElement == {"literals", "sync1", "match", "sync2"}

LaneOk(l) ==
  /\ lane[l].calls <= Len(script)
  /\ lane[l].i % WaveSize = l
  /\ lane[l].calls = 0 => lane[l].pc = "parse" /\ ~lane[l].done /\ lane[l].status = "OK"
  /\ lane[l].calls > 0 =>
       /\ lane[l].pc = "parse" => script[lane[l].calls].outcome = "more"
       /\ lane[l].pc \in InElement => Taken(lane[l].calls)
       /\ lane[l].pc = "sync1" => lane[l].i >= Current(l).lit_len
       /\ lane[l].pc \in {"match", "sync2"} => Current(l).match_len > 0
       /\ lane[l].pc = "sync2" => lane[l].i >= Current(l).match_len
       /\ lane[l].pc \in {"exit", "left"} => script[lane[l].calls].outcome # "more"
       /\ lane[l].done = (script[lane[l].calls].outcome = "done")
       /\ lane[l].status = IF Taken(lane[l].calls) THEN "OK" ELSE "REJECTED"
  /\ lane[l].pc = "parse" => lane[l].fuel = Fuel - lane[l].calls
  /\ lane[l].pc \in InElement => lane[l].fuel = Fuel - lane[l].calls + 1
LaneInv == lane \in [Lanes -> LaneStates] /\ \A l \in Lanes : LaneOk(l)

\* How far lane l is with element k.
Past(l, k, places) == lane[l].calls > k \/ (lane[l].calls = k /\ lane[l].pc \notin places)
PastLiterals(l, k) == Past(l, k, {"literals"})
PastSync1(l, k) == Past(l, k, {"literals", "sync1"})
PastMatch(l, k) == Past(l, k, {"literals", "sync1", "match"})
PastElement(l, k) == Past(l, k, InElement)

\* What the two barriers give.
BarrierInv == \A k \in Calls : Taken(k) => \A l, m \in Lanes :
  /\ PastSync1(l, k) => PastLiterals(m, k)
  /\ PastElement(l, k) /\ El(k).match_len > 0 => PastMatch(m, k)

\* The bytes of element k lane l has copied.
HasLiteral(l, k, j) ==
  PastLiterals(l, k) \/ (lane[l].calls = k /\ lane[l].pc = "literals" /\ j < lane[l].i)
HasMatch(l, k, j) ==
  PastMatch(l, k) \/ (lane[l].calls = k /\ lane[l].pc = "match" /\ j < lane[l].i)

LiteralsInPlace == \A k \in Calls : Taken(k) => \A j \in Nat :
  j < El(k).lit_len /\ HasLiteral(j % WaveSize, k, j) =>
    El(k).lit_dst + j \in DOMAIN dst /\ dst[El(k).lit_dst + j] = El(k).lit_src + j
MatchesInPlace == \A k \in Calls : Taken(k) => \A j \in Nat :
  j < El(k).match_len /\ HasMatch(j % WaveSize, k, j) =>
    El(k).match_dst + j \in DOMAIN dst /\ dst[El(k).match_dst + j] = dst[SourceOf(El(k), j)]
WrittenInside == \A p \in DOMAIN dst : p \in Nat /\ p < dst_pos
DataInv == WrittenInside /\ LiteralsInPlace /\ MatchesInPlace

RecordInv ==
  record = IF lane[0].pc # "left" THEN <<>>
           ELSE [status |-> lane[0].status,
                 bytes_written |-> IF lane[0].status = "OK"
                                   THEN script[lane[0].calls].dst_pos ELSE 0]

IInv == ParserTyped /\ ScriptInv /\ LaneInv /\ BarrierInv /\ DataInv /\ RecordInv

-----------------------------------------------------------------------------
(* Division by the wave size, and the shape of the answers.                *)

LEMMA ModRange ==
  ASSUME NEW a \in Nat, NEW w \in Nat \ {0}
  PROVE  a % w \in 0..w - 1
BY SMT

LEMMA ModOfLane ==
  ASSUME NEW w \in Nat \ {0}, NEW a \in 0..w - 1
  PROVE  a % w = a
BY SMT

LEMMA ModUnique ==
  ASSUME NEW w \in Nat \ {0}, NEW q \in Nat, NEW r \in 0..w - 1
  PROVE  (w * q + r) % w = r
BY SMT

LEMMA DivMod ==
  ASSUME NEW a \in Nat, NEW w \in Nat \ {0}
  PROVE  a \div w \in Nat /\ a = w * (a \div w) + (a % w)
BY SMT

LEMMA ModNext ==
  ASSUME NEW a \in Nat, NEW w \in Nat \ {0}
  PROVE  (a + w) % w = a % w
<1> DEFINE q == a \div w
           r == a % w
<1>1. q \in Nat /\ a = w * q + r /\ r \in 0..w - 1 BY DivMod, ModRange
<1> HIDE DEF q, r
<1>2. a + w = w * (q + 1) + r
  <2>1. w * (q + 1) = w * q + w BY <1>1, SMT
  <2>2. w * q \in Nat /\ r \in Nat BY <1>1, SMT
  <2> QED BY <2>1, <2>2, <1>1
<1>3. q + 1 \in Nat BY <1>1
<1>4. (w * (q + 1) + r) % w = r BY ModUnique, <1>1, <1>3
<1> QED BY <1>2, <1>4 DEF r

\* Two bytes of one lane are a wave apart.
LEMMA OneOfLane ==
  ASSUME NEW w \in Nat \ {0}, NEW a \in Nat, NEW b \in Nat,
         a % w = b % w, a <= b, b < a + w
  PROVE  a = b
<1> DEFINE p == a \div w
           q == b \div w
           r == a % w
<1>1. /\ p \in Nat /\ q \in Nat /\ r \in Nat
      /\ a = w * p + r /\ b = w * q + r
  <2>1. p \in Nat /\ a = w * p + r BY DivMod
  <2>2. q \in Nat /\ b = w * q + r BY DivMod
  <2>3. r \in Nat BY ModRange
  <2> QED BY <2>1, <2>2, <2>3
<1> HIDE DEF p, q, r
<1>2. w * p \in Nat /\ w * q \in Nat BY <1>1, SMT
<1>3. w * p <= w * q /\ w * q < w * p + w BY <1>1, <1>2
<1>4. CASE p = q BY <1>1, <1>4
<1>5. CASE p < q
  <2>1. PICK d \in Nat : q = p + 1 + d BY <1>1, <1>5, q - p - 1 \in Nat, q = p + 1 + (q - p - 1)
  <2>2. w * q = w * p + w + w * d BY <1>1, <2>1, SMT
  <2>3. w * d \in Nat BY <2>1, SMT
  <2> QED BY <2>2, <2>3, <1>2, <1>3
<1>6. CASE q < p
  <2>1. PICK d \in Nat : p = q + 1 + d BY <1>1, <1>6, p - q - 1 \in Nat, p = q + 1 + (p - q - 1)
  <2>2. w * p = w * q + w + w * d BY <1>1, <2>1, SMT
  <2>3. w * d \in Nat BY <2>1, SMT
  <2> QED BY <2>2, <2>3, <1>2, <1>3
<1> QED BY <1>1, <1>4, <1>5, <1>6

LEMMA SmallByte ==
  ASSUME NEW w \in Nat \ {0}, NEW a \in Nat
  PROVE  a % w <= a
<1>1. CASE a < w BY <1>1, ModOfLane
<1>2. CASE a >= w BY <1>2, ModRange
<1> QED BY <1>1, <1>2

-----------------------------------------------------------------------------
(* The script.                                                             *)

LEMMA InitInv == Init => IInv
<1> SUFFICES ASSUME Init PROVE IInv OBVIOUS
<1> USE KernelAssumption
<1>1. script = <<>> /\ Len(script) = 0 /\ Calls = {} /\ dst = <<>> /\ DOMAIN dst = {}
  BY DEF Init, Calls
<1>2. /\ src_pos = 0 /\ dst_pos = 0 /\ outcome = "more" /\ element = Parser!NoElement
  BY DEF Init, Parser!Init
<1>3. ParserTyped BY <1>1, <1>2 DEF ParserTyped, Parser!NoElement, Parser!Elements
<1>4. ScriptInv BY <1>1, <1>2 DEF ScriptInv
<1>5. lane = [l \in Lanes |-> [calls |-> 0, pc |-> "parse", i |-> l, fuel |-> Fuel,
                               status |-> "OK", done |-> FALSE]] /\ record = <<>>
  BY DEF Init
<1>6. LaneInv
  <2>1. lane \in [Lanes -> LaneStates]
    BY <1>5 DEF LaneStates, Lanes, Pcs, Fuel
  <2>2. \A l \in Lanes : l % WaveSize = l BY ModOfLane DEF Lanes
  <2>3. \A l \in Lanes : /\ lane[l].calls = 0 /\ lane[l].pc = "parse" /\ lane[l].i = l
                          /\ lane[l].fuel = Fuel /\ lane[l].done = FALSE /\ lane[l].status = "OK"
    BY <1>5
  <2>4. 0 <= Len(script) /\ Fuel = Fuel - 0 /\ ~(0 > 0) BY <1>1 DEF Fuel
  <2> QED BY <2>1, <2>2, <2>3, <2>4 DEF LaneInv, LaneOk, InElement
<1>7. BarrierInv BY <1>1 DEF BarrierInv
<1>8. DataInv BY <1>1 DEF DataInv, WrittenInside, LiteralsInPlace, MatchesInPlace
<1>9. RecordInv BY <1>5 DEF RecordInv, Lanes
<1> QED BY <1>3, <1>4, <1>6, <1>7, <1>8, <1>9 DEF IInv

\* What an answer that is no rejection gives: of the seam, all that is used below.
Continues ==
  /\ element' \in Parser!Elements /\ outcome' \in {"more", "done"}
  /\ src_pos' \in Nat /\ src_pos' <= SrcSize
  /\ outcome' = "more" => src_pos < src_pos'
  /\ outcome' = "done" => element'.match_len = 0 /\ src_pos' = SrcSize
  /\ dst_pos' = dst_pos + element'.lit_len + element'.match_len
  /\ Parser!Bounded(element', dst_pos)

LEMMA AnswerContinues ==
  ASSUME ParserTyped, Answer, outcome' # "rejected"
  PROVE  Continues
<1> USE KernelAssumption
<1>1. src_pos \in Nat BY DEF ParserTyped
<1>2. Parser!Element \/ Parser!Terminal BY DEF Answer, Parser!Reject
<1>3. CASE Parser!Element
  BY <1>1, <1>3 DEF Continues, Parser!Element, Parser!HandBack
<1>4. CASE Parser!Terminal
  BY <1>1, <1>4 DEF Continues, Parser!Terminal, Parser!HandBack
<1> QED BY <1>2, <1>3, <1>4

\* The script only grows.
Grows ==
  /\ Len(script') \in Nat /\ Len(script) <= Len(script') /\ Calls \subseteq Calls'
  /\ \A k \in Calls : script'[k] = script[k]
  /\ dst_pos <= dst_pos'

LEMMA SameScript ==
  ASSUME ParserTyped, ScriptInv, UNCHANGED parserVars
  PROVE  ParserTyped' /\ ScriptInv' /\ Grows
<1>1. ParserTyped' BY DEF ParserTyped, parserVars
<1>2. /\ script' = script /\ dst_pos' = dst_pos /\ src_pos' = src_pos /\ outcome' = outcome
      /\ Calls' = Calls
  BY DEF parserVars, Calls
<1>3. ScriptInv' BY <1>2 DEF ScriptInv, Taken, El, Start, Mid
<1>4. Len(script) \in Nat /\ dst_pos \in Nat BY DEF ParserTyped
<1> QED BY <1>1, <1>2, <1>3, <1>4 DEF Grows

\* A call no lane has made before.
LEMMA NewCall ==
  ASSUME ParserTyped, ScriptInv, outcome = "more", Answer, Recorded
  PROVE  ParserTyped' /\ ScriptInv' /\ Grows
<1> USE KernelAssumption
<1>0. Len(script) + 1 \in Nat BY DEF ParserTyped
<1> PICK n \in Nat : n = Len(script) + 1 BY <1>0
<1> DEFINE new == [element |-> element', outcome |-> outcome', dst_pos |-> dst_pos']
<1>1. /\ src_pos \in Nat /\ dst_pos \in Nat /\ element \in Parser!Elements
      /\ script \in Seq(Answers) /\ Len(script) \in Nat
  BY DEF ParserTyped
<1>2. outcome' = "rejected" \/ (outcome' # "rejected" /\ Continues)
  BY AnswerContinues
<1>3. outcome' = "rejected" => UNCHANGED <<src_pos, dst_pos, element>>
  BY DEF Answer, Parser!Reject, Parser!Element, Parser!Terminal
<1>4. outcome' = "rejected" \/ outcome' \in {"more", "done"} BY <1>2 DEF Continues
<1>5. /\ src_pos' \in Nat /\ dst_pos' \in Nat /\ element' \in Parser!Elements
      /\ dst_pos <= dst_pos'
  <2>1. CASE outcome' = "rejected" BY <2>1, <1>1, <1>3
  <2>2. CASE Continues
    <3>1. element'.lit_len \in Nat /\ element'.match_len \in Nat
      BY <2>2 DEF Continues, Parser!Elements
    <3> QED BY <2>2, <3>1, <1>1 DEF Continues
  <2> QED BY <2>1, <2>2, <1>2
<1>6. new \in Answers BY <1>4, <1>5 DEF Answers
<1>7. /\ script' \in Seq(Answers) /\ Len(script') = n /\ script'[n] = new
      /\ \A k \in 1..Len(script) : script'[k] = script[k]
  BY <1>1, <1>6 DEF Recorded
<1>8. n \in Nat /\ Calls = 1..n - 1 /\ Calls' = 1..n BY <1>1, <1>7 DEF Calls
<1>9. /\ script'[n].outcome = outcome' /\ script'[n].dst_pos = dst_pos'
      /\ script'[n].element = element'
  BY <1>7
<1> HIDE DEF new
<1>10. ParserTyped' BY <1>4, <1>5, <1>7 DEF ParserTyped
<1>11. Grows BY <1>1, <1>5, <1>7, <1>8 DEF Grows, Calls
<1>12. \A k \in Calls : k \in Nat /\ k < n /\ script[k] \in Answers
  BY <1>1, <1>8 DEF Calls
<1>13. \A k \in Calls : script[k].outcome = "more"
  BY <1>12, <1>8, <1>1 DEF ScriptInv
<1>14. /\ \A k \in Calls : El(k)' = El(k) /\ Taken(k)' /\ Taken(k)
       /\ El(n)' = element' /\ Taken(n)' = (outcome' # "rejected")
       /\ \A k \in Calls : Start(k)' = Start(k) /\ Mid(k)' = Mid(k)
       /\ Start(n)' = dst_pos' - element'.match_len - element'.lit_len
       /\ Mid(n)' = dst_pos' - element'.match_len
  BY <1>7, <1>9, <1>13 DEF El, Taken, Calls, Start, Mid
<1>15. \A k \in Calls : script[k].dst_pos \in Nat /\ script[k].dst_pos <= dst_pos
  BY <1>12 DEF ScriptInv, Answers
<1>16. \A k \in Calls' : k = n \/ k \in Calls BY <1>8
<1>17. \A k \in Calls' : k < Len(script') => script'[k].outcome = "more"
  BY <1>7, <1>8, <1>13, <1>16 DEF Calls
<1>18. IF Len(script') = 0 THEN outcome' = "more" /\ dst_pos' = 0
       ELSE script'[Len(script')].outcome = outcome' /\ script'[Len(script')].dst_pos = dst_pos'
  BY <1>7, <1>9, <1>1
<1>19. \A k \in Calls' : script'[k].dst_pos <= dst_pos'
  BY <1>16, <1>15, <1>9, <1>5, <1>1, <1>7 DEF Calls
<1>20. ASSUME outcome' # "rejected"
       PROVE  Start(n)' = dst_pos /\ Mid(n)' = dst_pos + element'.lit_len
  <2>1. element'.lit_len \in Nat /\ element'.match_len \in Nat BY <1>5 DEF Parser!Elements
  <2>2. dst_pos' = dst_pos + element'.lit_len + element'.match_len BY <1>2, <1>20 DEF Continues
  <2> QED BY <2>1, <2>2, <1>1, <1>5, <1>14
<1>21. ASSUME NEW k \in Calls', Taken(k)'
       PROVE  /\ Start(k)' \in Nat
              /\ El(k)'.lit_len > 0 => El(k)'.lit_dst = Start(k)'
              /\ El(k)'.match_len > 0 => El(k)'.match_dst = Mid(k)' /\ El(k)'.off \in 1..Mid(k)'
              /\ script'[k].outcome = "done" => El(k)'.match_len = 0
              /\ \A m \in Calls' : m < k => script'[m].dst_pos <= Start(k)'
  <2>1. CASE k = n
    <3>1. Continues /\ Start(n)' = dst_pos /\ Mid(n)' = dst_pos + element'.lit_len
      BY <1>2, <1>14, <1>20, <1>21, <2>1
    <3>2. element'.lit_len \in Nat /\ element'.match_len \in Nat BY <1>5 DEF Parser!Elements
    <3>3. ASSUME NEW m \in Calls', m < n PROVE script'[m].dst_pos <= dst_pos
      BY <3>3, <1>8, <1>15, <1>7 DEF Calls
    <3>4. Parser!Bounded(element', dst_pos) BY <3>1 DEF Continues
    <3>5. /\ element'.lit_len > 0 => element'.lit_dst = dst_pos
          /\ element'.match_len > 0 => /\ element'.match_dst = dst_pos + element'.lit_len
                                       /\ element'.off \in 1..element'.match_dst
      BY <3>4, <3>2 DEF Parser!Bounded
    <3>6. outcome' = "done" => element'.match_len = 0 BY <3>1 DEF Continues
    <3> QED BY <2>1, <3>1, <3>3, <3>5, <3>6, <1>14, <1>9, <1>1
  <2>2. CASE k \in Calls
    <3>1. /\ El(k)' = El(k) /\ Taken(k) /\ script'[k] = script[k]
          /\ Start(k)' = Start(k) /\ Mid(k)' = Mid(k)
      BY <2>2, <1>14, <1>7 DEF Calls
    <3>2. ASSUME NEW m \in Calls', m < k PROVE m \in Calls /\ script'[m] = script[m]
      BY <3>2, <2>2, <1>7, <1>8 DEF Calls
    <3> QED BY <2>2, <3>1, <3>2 DEF ScriptInv
  <2> QED BY <2>1, <2>2, <1>16
<1>22. ASSUME NEW p \in Nat, p < dst_pos'
       PROVE  \E k \in Calls' : Taken(k)' /\ Start(k)' <= p /\ p < script'[k].dst_pos
  <2>1. CASE p < dst_pos
    <3>1. PICK k \in Calls : Taken(k) /\ Start(k) <= p /\ p < script[k].dst_pos
      BY <2>1, <1>22, <1>1, <1>5 DEF ScriptInv
    <3>2. k \in Calls' /\ script'[k] = script[k] BY <1>8, <1>7 DEF Calls
    <3>3. Start(k)' = Start(k) /\ Taken(k)' BY <1>14
    <3> QED BY <3>1, <3>2, <3>3
  <2>2. CASE p >= dst_pos
    <3>1. outcome' # "rejected" BY <1>3, <2>2, <1>22, <1>1
    <3>2. n \in Calls' BY <1>8
    <3>3. Taken(n)' /\ Start(n)' = dst_pos /\ script'[n].dst_pos = dst_pos'
      BY <3>1, <1>14, <1>9, <1>20
    <3>4. dst_pos <= p BY <2>2, <1>1
    <3> QED BY <3>2, <3>3, <3>4, <1>22
  <2>3. p < dst_pos \/ p >= dst_pos BY <1>1
  <2> QED BY <2>1, <2>2, <2>3
<1>23. /\ (IF outcome' = "more" THEN Len(script') ELSE Len(script') - 1) <= src_pos'
       /\ src_pos' <= SrcSize
  <2>1. Len(script) <= src_pos /\ src_pos <= SrcSize BY DEF ScriptInv
  <2>2. CASE outcome' = "rejected" BY <2>1, <2>2, <1>3, <1>7, <1>1
  <2>3. CASE outcome' # "rejected" BY <2>1, <2>3, <1>2, <1>7, <1>1 DEF Continues
  <2> QED BY <2>2, <2>3
<1>24. ScriptInv' BY <1>17, <1>18, <1>19, <1>21, <1>22, <1>23 DEF ScriptInv
<1> QED BY <1>10, <1>11, <1>24

-----------------------------------------------------------------------------
(* The lanes.                                                              *)

LEMMA LaneTyped ==
  ASSUME LaneInv, NEW l \in Lanes
  PROVE  /\ lane[l] \in LaneStates /\ lane[l].calls \in Nat /\ lane[l].i \in Nat
         /\ lane[l].fuel \in Int /\ lane[l].pc \in Pcs /\ lane[l].done \in BOOLEAN
BY DEF LaneInv, LaneStates

LEMMA Element ==
  ASSUME ParserTyped, NEW k \in Calls
  PROVE  /\ script[k] \in Answers /\ script[k].dst_pos \in Nat /\ El(k) \in Parser!Elements
         /\ El(k).lit_src \in Nat /\ El(k).lit_dst \in Nat /\ El(k).lit_len \in Nat
         /\ El(k).off \in Nat /\ El(k).match_dst \in Nat /\ El(k).match_len \in Nat
<1>1. script[k] \in Answers BY DEF ParserTyped, Calls
<1> QED BY <1>1 DEF Answers, El, Parser!Elements

LEMMA InCalls ==
  ASSUME ParserTyped, LaneInv, NEW l \in Lanes, lane[l].calls > 0
  PROVE  lane[l].calls \in Calls /\ Current(l) = El(lane[l].calls)
<1>1. lane[l].calls \in Nat /\ lane[l].calls <= Len(script) BY LaneTyped DEF LaneInv, LaneOk
<1>2. Len(script) \in Nat BY DEF ParserTyped
<1> QED BY <1>1, <1>2 DEF Calls, Current, El

\* A lane that does not move keeps its place, whatever is appended.
LEMMA KeepLaneOk ==
  ASSUME ParserTyped, LaneInv, Grows, NEW m \in Lanes, lane'[m] = lane[m]
  PROVE  LaneOk(m)'
<1>1. lane[m].calls \in Nat /\ lane[m].calls <= Len(script) /\ LaneOk(m)
  BY LaneTyped DEF LaneInv, LaneOk
<1>2. lane'[m].calls <= Len(script')
  BY <1>1 DEF Grows, ParserTyped
<1>3. CASE lane[m].calls = 0 BY <1>1, <1>2, <1>3 DEF LaneOk, InElement
<1>4. CASE lane[m].calls > 0
  <2>1. lane[m].calls \in Calls BY <1>4, InCalls
  <2>2. script'[lane[m].calls] = script[lane[m].calls] BY <2>1 DEF Grows
  <2>3. Taken(lane[m].calls)' = Taken(lane[m].calls) /\ Current(m)' = Current(m)
    BY <2>2 DEF Taken, Current
  <2> QED BY <1>1, <1>2, <1>4, <2>2, <2>3 DEF LaneOk, Fuel
<1> QED BY <1>1, <1>3, <1>4

\* Lane l moves to r.
Moves(l, r) ==
  /\ lane' = [lane EXCEPT ![l] = r]
  /\ r \in LaneStates

LEMMA Moved ==
  ASSUME LaneInv, NEW l \in Lanes, NEW r, Moves(l, r)
  PROVE  /\ lane' \in [Lanes -> LaneStates]
         /\ lane'[l] = r
         /\ \A m \in Lanes : m # l => lane'[m] = lane[m]
BY DEF LaneInv, Moves

LEMMA MoveLaneInv ==
  ASSUME ParserTyped, LaneInv, Grows, NEW l \in Lanes, NEW r, Moves(l, r), LaneOk(l)'
  PROVE  LaneInv'
<1>1. lane' \in [Lanes -> LaneStates] BY Moved
<1>2. ASSUME NEW m \in Lanes PROVE LaneOk(m)'
  <2>1. CASE m = l BY <2>1
  <2>2. CASE m # l
    <3>1. lane'[m] = lane[m] BY <2>2, Moved
    <3> QED BY <3>1, KeepLaneOk
  <2> QED BY <2>1, <2>2
<1> QED BY <1>1, <1>2 DEF LaneInv

\* No lane is at an element just handed back but at its start.
Fresh(l) == \A k \in Calls' : k \notin Calls /\ Taken(k)' =>
  lane'[l].calls < k \/ (lane'[l].calls = k /\ lane'[l].pc = "literals" /\ lane'[l].i = l)

LEMMA OthersFresh ==
  ASSUME ParserTyped, LaneInv, NEW m \in Lanes, lane'[m] = lane[m]
  PROVE  Fresh(m)
<1>1. lane[m].calls \in Nat /\ lane[m].calls <= Len(script) BY LaneTyped DEF LaneInv, LaneOk
<1>2. Len(script) \in Nat BY DEF ParserTyped
<1>3. ASSUME NEW k \in Calls', k \notin Calls PROVE lane'[m].calls < k
  <2>1. k \in Int /\ k >= 1 BY DEF Calls
  <2>2. k > Len(script) BY <2>1, <1>2, <1>3 DEF Calls
  <2> QED BY <1>1, <1>2, <2>1, <2>2
<1> QED BY <1>3 DEF Fresh

\* Lane l loses nothing it has passed, and passes a barrier only with the rest.
BarriersMet(l) == \A k \in Calls : Taken(k) =>
  /\ PastLiterals(l, k) => PastLiterals(l, k)'
  /\ PastMatch(l, k) => PastMatch(l, k)'
  /\ PastSync1(l, k)' => PastSync1(l, k) \/ \A m \in Lanes : PastLiterals(m, k)
  /\ PastElement(l, k)' /\ El(k).match_len > 0 =>
       PastElement(l, k) \/ \A m \in Lanes : PastMatch(m, k)

LEMMA MoveBarrierInv ==
  ASSUME ParserTyped, LaneInv, BarrierInv, Grows, LaneInv', NEW l \in Lanes, NEW r, Moves(l, r),
         Fresh(l), BarriersMet(l)
  PROVE  BarrierInv'
<1>1. ASSUME NEW k \in Calls', Taken(k)', NEW a \in Lanes, NEW b \in Lanes
      PROVE  /\ PastSync1(a, k)' => PastLiterals(b, k)'
             /\ PastElement(a, k)' /\ El(k)'.match_len > 0 => PastMatch(b, k)'
  <2>1. CASE k \notin Calls
    <3>1. Fresh(a)
      <4>1. CASE a = l BY <4>1
      <4>2. CASE a # l BY <4>2, Moved, OthersFresh
      <4> QED BY <4>1, <4>2
    <3>2. lane'[a].calls < k \/ (lane'[a].calls = k /\ lane'[a].pc = "literals")
      BY <3>1, <2>1, <1>1 DEF Fresh
    <3>3. lane'[a].calls \in Nat /\ k \in Int
      <4>1. k \in Int BY DEF Calls
      <4>2. (lane[a].calls)' \in Nat BY DEF LaneInv, LaneStates
      <4> QED BY <4>1, <4>2
    <3> QED BY <3>2, <3>3 DEF PastSync1, PastElement, Past, InElement
  <2>2. CASE k \in Calls
    <3>1. Taken(k) /\ El(k)' = El(k) BY <2>2, <1>1 DEF Grows, Taken, El
    <3>2. \A m \in Lanes : /\ PastLiterals(m, k) => PastLiterals(m, k)'
                           /\ PastMatch(m, k) => PastMatch(m, k)'
      <4>1. ASSUME NEW m \in Lanes
            PROVE  /\ PastLiterals(m, k) => PastLiterals(m, k)'
                   /\ PastMatch(m, k) => PastMatch(m, k)'
        <5>1. CASE m = l BY <5>1, <2>2, <3>1 DEF BarriersMet
        <5>2. CASE m # l
          <6>1. lane'[m] = lane[m] BY <5>2, Moved
          <6> QED BY <6>1 DEF PastLiterals, PastMatch, Past
        <5> QED BY <5>1, <5>2
      <4> QED BY <4>1
    <3>3. PastSync1(a, k)' => PastSync1(a, k) \/ \A m \in Lanes : PastLiterals(m, k)
      <4>1. CASE a = l BY <4>1, <2>2, <3>1 DEF BarriersMet
      <4>2. CASE a # l
        <5>1. lane'[a] = lane[a] BY <4>2, Moved
        <5> QED BY <5>1 DEF PastSync1, Past
      <4> QED BY <4>1, <4>2
    <3>4. PastElement(a, k)' /\ El(k).match_len > 0 =>
            PastElement(a, k) \/ \A m \in Lanes : PastMatch(m, k)
      <4>1. CASE a = l BY <4>1, <2>2, <3>1 DEF BarriersMet
      <4>2. CASE a # l
        <5>1. lane'[a] = lane[a] BY <4>2, Moved
        <5> QED BY <5>1 DEF PastElement, Past
      <4> QED BY <4>1, <4>2
    <3>5. /\ PastSync1(a, k) => PastLiterals(b, k)
          /\ PastElement(a, k) /\ El(k).match_len > 0 => PastMatch(b, k)
      BY <2>2, <3>1 DEF BarrierInv
    <3> QED BY <3>1, <3>2, <3>3, <3>4, <3>5
  <2> QED BY <2>1, <2>2
<1> QED BY <1>1 DEF BarrierInv

\* Lane l comes to a place without having copied a byte on the way.
CopiesNothing(l) == \A k \in Calls : Taken(k) => \A j \in Nat : j % WaveSize = l =>
  /\ j < El(k).lit_len /\ HasLiteral(l, k, j)' => HasLiteral(l, k, j)
  /\ j < El(k).match_len /\ HasMatch(l, k, j)' => HasMatch(l, k, j)

LEMMA FreshHasNothing ==
  ASSUME NEW m \in Lanes, Fresh(m), LaneInv', NEW k \in Calls', k \notin Calls, Taken(k)',
         NEW j \in Nat, j % WaveSize = m
  PROVE  ~HasLiteral(m, k, j)' /\ ~HasMatch(m, k, j)'
<1>1. lane'[m].calls < k \/ (lane'[m].calls = k /\ lane'[m].pc = "literals" /\ lane'[m].i = m)
  BY DEF Fresh
<1>2. (lane[m].calls)' \in Nat /\ k \in Int BY DEF LaneInv, LaneStates, Calls
<1>3. m <= j BY SmallByte, KernelAssumption
<1>4. m \in Int BY KernelAssumption DEF Lanes
<1>5. lane'[m].calls < k => ~HasLiteral(m, k, j)' /\ ~HasMatch(m, k, j)'
  BY <1>2 DEF HasLiteral, HasMatch, PastLiterals, PastMatch, Past
<1>6. lane'[m].calls = k /\ lane'[m].pc = "literals" /\ lane'[m].i = m
        => ~HasLiteral(m, k, j)' /\ ~HasMatch(m, k, j)'
  BY <1>2, <1>3, <1>4 DEF HasLiteral, HasMatch, PastLiterals, PastMatch, Past
<1> QED BY <1>1, <1>5, <1>6

\* What a lane has copied after a step without a write, it had before.
LEMMA HadBefore ==
  ASSUME LaneInv, NEW l \in Lanes, NEW r, Moves(l, r), CopiesNothing(l),
         NEW k \in Calls, Taken(k), NEW j \in Nat
  PROVE  /\ j < El(k).lit_len /\ HasLiteral(j % WaveSize, k, j)' => HasLiteral(j % WaveSize, k, j)
         /\ j < El(k).match_len /\ HasMatch(j % WaveSize, k, j)' => HasMatch(j % WaveSize, k, j)
<1>1. j % WaveSize \in Lanes BY ModRange, KernelAssumption DEF Lanes
<1>2. CASE j % WaveSize = l BY <1>2 DEF CopiesNothing
<1>3. CASE j % WaveSize # l
  <2>1. lane'[j % WaveSize] = lane[j % WaveSize] BY <1>1, <1>3, Moved
  <2> QED BY <2>1 DEF HasLiteral, HasMatch, PastLiterals, PastMatch, Past
<1> QED BY <1>2, <1>3

LEMMA EveryoneFresh ==
  ASSUME ParserTyped, LaneInv, NEW l \in Lanes, NEW r, Moves(l, r), Fresh(l), NEW m \in Lanes
  PROVE  Fresh(m)
<1>1. CASE m = l BY <1>1
<1>2. CASE m # l BY <1>2, Moved, OthersFresh
<1> QED BY <1>1, <1>2

LEMMA MoveDataInv ==
  ASSUME ParserTyped, LaneInv, DataInv, Grows, ParserTyped', LaneInv',
         NEW l \in Lanes, NEW r, Moves(l, r),
         Fresh(l), CopiesNothing(l), UNCHANGED dst
  PROVE  DataInv'
<1> USE KernelAssumption
<1>1. WrittenInside'
  <2>1. dst_pos \in Nat /\ dst_pos' \in Nat /\ dst_pos <= dst_pos' BY DEF ParserTyped, Grows
  <2> QED BY <2>1 DEF DataInv, WrittenInside
<1>2. ASSUME NEW k \in Calls', Taken(k)', NEW j \in Nat
      PROVE  /\ j < El(k)'.lit_len /\ HasLiteral(j % WaveSize, k, j)' =>
                  El(k)'.lit_dst + j \in DOMAIN dst /\ dst[El(k)'.lit_dst + j] = El(k)'.lit_src + j
             /\ j < El(k)'.match_len /\ HasMatch(j % WaveSize, k, j)' =>
                  /\ El(k)'.match_dst + j \in DOMAIN dst
                  /\ dst[El(k)'.match_dst + j] = dst[SourceOf(El(k)', j)]
  <2>1. j % WaveSize \in Lanes BY ModRange DEF Lanes
  <2>2. CASE k \notin Calls
    <3>1. Fresh(j % WaveSize) BY <2>1, EveryoneFresh
    <3> QED BY <2>1, <2>2, <3>1, <1>2, FreshHasNothing
  <2>3. CASE k \in Calls
    <3>1. Taken(k) /\ El(k)' = El(k) BY <2>3, <1>2 DEF Grows, Taken, El
    <3>2. /\ j < El(k).lit_len /\ HasLiteral(j % WaveSize, k, j)' => HasLiteral(j % WaveSize, k, j)
          /\ j < El(k).match_len /\ HasMatch(j % WaveSize, k, j)' => HasMatch(j % WaveSize, k, j)
      BY <2>3, <3>1, HadBefore
    <3>3. /\ j < El(k).lit_len /\ HasLiteral(j % WaveSize, k, j) =>
               El(k).lit_dst + j \in DOMAIN dst /\ dst[El(k).lit_dst + j] = El(k).lit_src + j
          /\ j < El(k).match_len /\ HasMatch(j % WaveSize, k, j) =>
               /\ El(k).match_dst + j \in DOMAIN dst
               /\ dst[El(k).match_dst + j] = dst[SourceOf(El(k), j)]
      BY <2>3, <3>1 DEF DataInv, LiteralsInPlace, MatchesInPlace
    <3> QED BY <3>1, <3>2, <3>3
  <2> QED BY <2>2, <2>3
<1>3. LiteralsInPlace' BY <1>2 DEF LiteralsInPlace
<1>4. MatchesInPlace' BY <1>2 DEF MatchesInPlace
<1> QED BY <1>1, <1>3, <1>4 DEF DataInv

LEMMA MoveRecordInv ==
  ASSUME ParserTyped, LaneInv, RecordInv, Grows, NEW l \in Lanes, NEW r, Moves(l, r),
         UNCHANGED record, lane[l].pc # "left", r.pc # "left"
  PROVE  RecordInv'
<1>0. 0 \in Lanes BY KernelAssumption DEF Lanes
<1>1. CASE l = 0 BY <1>1, Moved DEF RecordInv
<1>2. CASE l # 0
  <2>1. lane'[0] = lane[0] BY <1>0, <1>2, Moved
  <2>2. CASE lane[0].pc # "left" BY <2>1, <2>2 DEF RecordInv
  <2>3. CASE lane[0].pc = "left"
    <3>1. lane[0].calls > 0 BY <1>0, <2>3, LaneTyped DEF LaneInv, LaneOk
    <3>2. lane[0].calls \in Calls BY <1>0, <3>1, InCalls
    <3>3. script'[lane[0].calls] = script[lane[0].calls] BY <3>2 DEF Grows
    <3> QED BY <2>1, <2>3, <3>3 DEF RecordInv
  <2> QED BY <2>2, <2>3
<1> QED BY <1>1, <1>2

\* The invariant after a step that moves lane l to r and writes nothing.
LEMMA MoveInv ==
  ASSUME IInv, ParserTyped', ScriptInv', Grows, NEW l \in Lanes, NEW r, Moves(l, r), LaneOk(l)',
         Fresh(l), BarriersMet(l), CopiesNothing(l), UNCHANGED <<dst, record>>,
         lane[l].pc # "left", r.pc # "left"
  PROVE  IInv'
<1>1. LaneInv' BY MoveLaneInv DEF IInv
<1>2. BarrierInv' BY <1>1, MoveBarrierInv DEF IInv
<1>3. DataInv' BY <1>1, MoveDataInv DEF IInv
<1>4. RecordInv' BY MoveRecordInv DEF IInv
<1> QED BY <1>1, <1>2, <1>3, <1>4 DEF IInv

\* Fresh, for a lane that makes no call.
LEMMA NoCallFresh ==
  ASSUME ParserTyped, LaneInv, NEW l \in Lanes, lane'[l].calls = lane[l].calls
  PROVE  Fresh(l)
<1>1. lane[l].calls \in Nat /\ lane[l].calls <= Len(script) BY LaneTyped DEF LaneInv, LaneOk
<1>2. Len(script) \in Nat BY DEF ParserTyped
<1>3. ASSUME NEW k \in Calls', k \notin Calls PROVE lane'[l].calls < k
  <2>1. k \in Int /\ k >= 1 BY DEF Calls
  <2>2. k > Len(script) BY <2>1, <1>2, <1>3 DEF Calls
  <2> QED BY <1>1, <1>2, <2>1, <2>2
<1> QED BY <1>3 DEF Fresh

-----------------------------------------------------------------------------
(* The actions that write nothing.                                         *)

LEMMA ParseInv == ASSUME IInv, NEW l \in Lanes, Parse(l) PROVE IInv'
<1> USE KernelAssumption
<1>1. ParserTyped /\ ScriptInv /\ LaneInv /\ LaneOk(l) BY DEF IInv, LaneInv
<1>2. ParserTyped' /\ ScriptInv' /\ Grows
  <2>1. CASE UNCHANGED parserVars BY <2>1, <1>1, SameScript
  <2>2. CASE ~UNCHANGED parserVars BY <2>2, <1>1, NewCall DEF Parse, Called
  <2> QED BY <2>1, <2>2
<1>3. lane[l].calls + 1 \in Nat BY <1>1, LaneTyped
<1> PICK k \in Nat : k = lane[l].calls + 1 BY <1>3
<1>4. k \in Calls'
  <2>1. Len(script) \in Nat /\ lane[l].calls \in Nat BY <1>1, LaneTyped DEF ParserTyped
  <2>2. CASE k <= Len(script) BY <2>1, <2>2, <1>2 DEF Grows, Calls
  <2>3. CASE ~(k <= Len(script))
    <3>1. Len(script') = Len(script) + 1 BY <2>1, <2>3, <1>1 DEF Parse, Called, Recorded, ParserTyped
    <3>2. lane[l].calls <= Len(script) BY <1>1 DEF LaneOk
    <3> QED BY <2>1, <2>3, <3>1, <3>2 DEF Calls
  <2> QED BY <2>2, <2>3
<1>5. script'[k] \in Answers /\ (script'[k].outcome \in {"more", "done", "rejected"})
  <2>1. script'[k] \in Answers BY <1>2, <1>4 DEF ParserTyped, Calls
  <2> QED BY <2>1 DEF Answers
<1> DEFINE rejected == script'[k].outcome = "rejected"
           r == [lane[l] EXCEPT !.calls = k, !.i = l, !.done = script'[k].outcome = "done",
                                !.status = IF rejected THEN "REJECTED" ELSE "OK",
                                !.pc = IF rejected THEN "exit" ELSE "literals"]
<1>6. Moves(l, r)
  <2>1. lane[l] \in LaneStates /\ lane[l].fuel \in Int /\ l \in Nat BY <1>1, LaneTyped DEF Lanes
  <2>2. lane' = [lane EXCEPT ![l] = r] BY DEF Parse, Received
  <2>3. r \in LaneStates BY <2>1 DEF LaneStates, Pcs
  <2> QED BY <2>2, <2>3 DEF Moves
<1>7. lane'[l] = r BY <1>1, <1>6, Moved
<1>8. /\ lane'[l].calls = k /\ lane'[l].i = l /\ lane'[l].fuel = lane[l].fuel
      /\ lane'[l].done = (script'[k].outcome = "done")
      /\ lane'[l].status = IF rejected THEN "REJECTED" ELSE "OK"
      /\ lane'[l].pc = IF rejected THEN "exit" ELSE "literals"
  <2>1. lane[l] \in LaneStates BY <1>1, LaneTyped
  <2> QED BY <2>1, <1>7 DEF LaneStates
<1>9. lane[l].pc = "parse" /\ lane[l].fuel = Fuel - lane[l].calls /\ lane[l].calls \in Nat
  BY <1>1, LaneTyped DEF Parse, LaneOk
<1>10. Taken(k)' = ~rejected BY DEF Taken
<1>11. LaneOk(l)'
  <2>1. k <= Len(script') /\ k > 0 BY <1>4, <1>2 DEF Calls, Grows
  <2>2. l % WaveSize = l BY ModOfLane DEF Lanes
  <2>3. Fuel' = Fuel /\ Fuel \in Int BY DEF Fuel
  <2>4. k = lane[l].calls + 1 OBVIOUS
  <2> HIDE DEF r
  <2>5. lane'[l].fuel = Fuel - k + 1 BY <1>8, <1>9, <2>3, <2>4
  <2>6. lane'[l].pc \in {"exit", "literals"} BY <1>8
  <2>7. lane'[l].pc = "literals" => ~rejected BY <1>8
  <2>8. lane'[l].pc = "exit" => script'[k].outcome # "more" BY <1>8
  <2>9. lane'[l].pc = "literals" => Taken(k)' BY <2>7, <1>10
  <2>10. lane'[l].status = IF Taken(k)' THEN "OK" ELSE "REJECTED" BY <1>8, <1>10
  <2>11. lane'[l].done = (script'[k].outcome = "done") BY <1>8
  <2> HIDE DEF rejected
  <2>12. lane'[l].calls = k /\ lane'[l].i = l BY <1>8
  <2> QED BY <2>1, <2>2, <2>3, <2>5, <2>6, <2>8, <2>9, <2>10, <2>11, <2>12 DEF LaneOk, InElement
<1> HIDE DEF r
<1>12. Fresh(l)
  <2>1. ASSUME NEW n \in Calls', n \notin Calls, Taken(n)'
        PROVE  lane'[l].calls < n \/ (lane'[l].calls = n /\ lane'[l].pc = "literals" /\ lane'[l].i = l)
    <3>1. n \in Int /\ Len(script) \in Nat /\ n > Len(script) BY <2>1, <1>1 DEF Calls, ParserTyped
    <3>2. lane[l].calls <= Len(script) BY <1>1 DEF LaneOk
    <3>3. k <= n BY <3>1, <3>2, <1>9
    <3>4. CASE k < n BY <3>4, <1>8
    <3>5. CASE k = n BY <3>5, <2>1, <1>8, <1>10
    <3> QED BY <3>1, <3>3, <3>4, <3>5
  <2> QED BY <2>1 DEF Fresh
<1>13. ASSUME NEW n \in Calls, Taken(n)
       PROVE  /\ n < k => lane[l].calls >= n /\ lane'[l].calls > n
              /\ n = k => lane[l].calls < n /\ lane'[l].calls = n /\ lane'[l].pc = "literals"
              /\ n > k => lane[l].calls < n /\ lane'[l].calls < n
              /\ n \in Int
  <2>1. n \in Int BY DEF Calls
  <2>2. n = k => Taken(k)'
    <3>1. Taken(n)' = Taken(n) BY <1>2 DEF Grows, Taken
    <3> QED BY <3>1, <1>13
  <2>3. n = k => lane'[l].pc = "literals" BY <2>2, <1>8, <1>10
  <2>4. lane'[l].calls = k /\ lane[l].calls \in Nat /\ k = lane[l].calls + 1 BY <1>8, <1>9
  <2> QED BY <2>1, <2>3, <2>4
<1>14. BarriersMet(l)
  <2>1. ASSUME NEW n \in Calls, Taken(n)
        PROVE  /\ PastLiterals(l, n) => PastLiterals(l, n)'
               /\ PastMatch(l, n) => PastMatch(l, n)'
               /\ PastSync1(l, n)' => PastSync1(l, n)
               /\ PastElement(l, n)' => PastElement(l, n)
    <3>1. CASE n < k
      BY <3>1, <2>1, <1>13, <1>9, <1>8 DEF PastLiterals, PastMatch, PastSync1, PastElement, Past, InElement
    <3>2. CASE n >= k
      BY <3>2, <2>1, <1>13, <1>9, <1>8 DEF PastLiterals, PastMatch, PastSync1, PastElement, Past, InElement
    <3> QED BY <3>1, <3>2, <1>13, <2>1
  <2> QED BY <2>1 DEF BarriersMet
<1>15. CopiesNothing(l)
  <2>1. ASSUME NEW n \in Calls, Taken(n), NEW j \in Nat, j % WaveSize = l
        PROVE  /\ HasLiteral(l, n, j)' => HasLiteral(l, n, j)
               /\ HasMatch(l, n, j)' => HasMatch(l, n, j)
    <3>0. l <= j /\ l \in Int BY <2>1, SmallByte DEF Lanes
    <3>1. CASE n < k
      BY <3>1, <2>1, <1>13, <1>9 DEF HasLiteral, HasMatch, PastLiterals, PastMatch, Past
    <3>2. CASE n >= k
      <4>1. ~HasLiteral(l, n, j)' BY <3>0, <3>2, <2>1, <1>13, <1>8 DEF HasLiteral, PastLiterals, Past
      <4>2. ~HasMatch(l, n, j)' BY <3>0, <3>2, <2>1, <1>13, <1>8 DEF HasMatch, PastMatch, Past
      <4> QED BY <4>1, <4>2
    <3> QED BY <3>1, <3>2, <1>13, <2>1
  <2> QED BY <2>1 DEF CopiesNothing
<1>16. lane[l].pc # "left" /\ r.pc # "left" BY <1>7, <1>8, <1>9
<1> QED BY <1>2, <1>6, <1>11, <1>12, <1>14, <1>15, <1>16, MoveInv DEF Parse, Received

\* A lane at an element has made its call.
LEMMA AtElement ==
  ASSUME ParserTyped, LaneInv, NEW l \in Lanes, lane[l].pc # "parse"
  PROVE  /\ lane[l].calls > 0 /\ lane[l].calls \in Calls /\ Current(l) = El(lane[l].calls)
         /\ lane[l].pc \in InElement => Taken(lane[l].calls)
<1>1. lane[l].calls \in Nat /\ LaneOk(l) BY LaneTyped DEF LaneInv
<1>2. lane[l].calls > 0 BY <1>1 DEF LaneOk
<1> QED BY <1>1, <1>2, InCalls DEF LaneOk

\* A step inside an element disturbs nothing a lane has of the others.
LEMMA OtherElements ==
  ASSUME LaneInv, NEW l \in Lanes, lane'[l].calls = lane[l].calls,
         NEW k \in Calls, k # lane[l].calls
  PROVE  /\ PastLiterals(l, k)' = PastLiterals(l, k) /\ PastSync1(l, k)' = PastSync1(l, k)
         /\ PastMatch(l, k)' = PastMatch(l, k) /\ PastElement(l, k)' = PastElement(l, k)
         /\ \A j \in Nat : HasLiteral(l, k, j)' = HasLiteral(l, k, j)
                           /\ HasMatch(l, k, j)' = HasMatch(l, k, j)
BY DEF PastLiterals, PastSync1, PastMatch, PastElement, Past, HasLiteral, HasMatch

\* What lane l must show of the element it is at, for a step that makes no call
\* and writes nothing.
LEMMA WithinElement ==
  ASSUME IInv, UNCHANGED <<parserVars, dst, record>>, NEW l \in Lanes, NEW r, Moves(l, r),
         LaneOk(l)', lane[l].pc \in InElement, r.calls = lane[l].calls, r.pc # "left",
         NEW k, k = lane[l].calls,
         PastLiterals(l, k) => PastLiterals(l, k)',
         PastMatch(l, k) => PastMatch(l, k)',
         PastSync1(l, k)' => PastSync1(l, k) \/ \A m \in Lanes : PastLiterals(m, k),
         PastElement(l, k)' /\ El(k).match_len > 0 => \A m \in Lanes : PastMatch(m, k),
         \A j \in Nat : j < El(k).lit_len /\ j % WaveSize = l =>
           (HasLiteral(l, k, j)' => HasLiteral(l, k, j)),
         \A j \in Nat : j < El(k).match_len /\ j % WaveSize = l =>
           (HasMatch(l, k, j)' => HasMatch(l, k, j))
  PROVE  IInv'
<1>1. ParserTyped /\ ScriptInv /\ LaneInv BY DEF IInv
<1>2. ParserTyped' /\ ScriptInv' /\ Grows BY <1>1, SameScript
<1>3. lane'[l].calls = lane[l].calls BY <1>1, Moved
<1>4. Fresh(l) BY <1>1, <1>3, NoCallFresh
<1>5. BarriersMet(l)
  <2>1. ASSUME NEW n \in Calls, n # k
        PROVE  /\ PastLiterals(l, n) => PastLiterals(l, n)'
               /\ PastMatch(l, n) => PastMatch(l, n)'
               /\ PastSync1(l, n)' => PastSync1(l, n)
               /\ PastElement(l, n)' => PastElement(l, n)
    BY <2>1, <1>1, <1>3, OtherElements
  <2> QED BY <2>1 DEF BarriersMet
<1>6. CopiesNothing(l)
  <2>1. ASSUME NEW n \in Calls, n # k, NEW j \in Nat
        PROVE  /\ HasLiteral(l, n, j)' => HasLiteral(l, n, j)
               /\ HasMatch(l, n, j)' => HasMatch(l, n, j)
    BY <2>1, <1>1, <1>3, OtherElements
  <2> QED BY <2>1 DEF CopiesNothing
<1>7. lane[l].pc # "left" BY DEF InElement
<1> QED BY <1>2, <1>4, <1>5, <1>6, <1>7, MoveInv

LEMMA LiteralsEndInv ==
  ASSUME IInv, NEW l \in Lanes, lane[l].pc = "literals", lane[l].i >= Current(l).lit_len,
         lane' = [lane EXCEPT ![l].pc = "sync1"], UNCHANGED <<parserVars, dst, record>>
  PROVE  IInv'
<1>1. ParserTyped /\ ScriptInv /\ LaneInv /\ LaneOk(l) BY DEF IInv, LaneInv
<1>2. lane[l].calls \in Calls BY <1>1, AtElement
<1>3. lane[l].calls \in Nat /\ lane[l].i \in Nat /\ lane[l] \in LaneStates BY <1>1, LaneTyped
<1> PICK k \in Nat : k = lane[l].calls BY <1>3
<1> DEFINE r == [lane[l] EXCEPT !.pc = "sync1"]
<1>4. /\ r.pc = "sync1" /\ r.calls = k /\ r.i = lane[l].i /\ r.fuel = lane[l].fuel
      /\ r.done = lane[l].done /\ r.status = lane[l].status /\ r \in LaneStates
  BY <1>3 DEF LaneStates, Pcs
<1>5. Moves(l, r) BY <1>4 DEF Moves
<1>6. lane'[l] = r BY <1>1, <1>5, Moved
<1> HIDE DEF r
<1>7. Current(l)' = Current(l) /\ Taken(k)' = Taken(k) /\ script' = script
  BY <1>4, <1>6 DEF Current, Taken, parserVars
<1>8. Current(l) = El(k) /\ k > 0 /\ k \in Calls BY <1>1, AtElement
<1>9. LaneOk(l)' BY <1>1, <1>4, <1>6, <1>7, <1>8 DEF LaneOk, InElement, Fuel
<1>10. /\ PastLiterals(l, k) => PastLiterals(l, k)'
       /\ PastMatch(l, k) => PastMatch(l, k)'
       /\ ~PastSync1(l, k)' /\ ~PastElement(l, k)'
  BY <1>4, <1>6 DEF PastLiterals, PastMatch, PastSync1, PastElement, Past, InElement
<1>11. ASSUME NEW j \in Nat
       PROVE  /\ j < El(k).lit_len => HasLiteral(l, k, j)
              /\ ~HasMatch(l, k, j)'
  <2>1. El(k).lit_len \in Nat BY <1>1, <1>8, Element
  <2>2. j < El(k).lit_len => j < lane[l].i BY <1>3, <1>8, <2>1
  <2>3. ~HasMatch(l, k, j)' BY <1>4, <1>6 DEF HasMatch, PastMatch, Past
  <2> QED BY <2>2, <2>3 DEF HasLiteral
<1> QED BY <1>4, <1>5, <1>9, <1>10, <1>11, WithinElement DEF InElement

LEMMA MatchEndInv ==
  ASSUME IInv, NEW l \in Lanes, lane[l].pc = "match", lane[l].i >= Current(l).match_len,
         lane' = [lane EXCEPT ![l].pc = "sync2"], UNCHANGED <<parserVars, dst, record>>
  PROVE  IInv'
<1>1. ParserTyped /\ ScriptInv /\ LaneInv /\ LaneOk(l) BY DEF IInv, LaneInv
<1>2. lane[l].calls \in Calls BY <1>1, AtElement
<1>3. lane[l].calls \in Nat /\ lane[l].i \in Nat /\ lane[l] \in LaneStates BY <1>1, LaneTyped
<1> PICK k \in Nat : k = lane[l].calls BY <1>3
<1> DEFINE r == [lane[l] EXCEPT !.pc = "sync2"]
<1>4. /\ r.pc = "sync2" /\ r.calls = k /\ r.i = lane[l].i /\ r.fuel = lane[l].fuel
      /\ r.done = lane[l].done /\ r.status = lane[l].status /\ r \in LaneStates
  BY <1>3 DEF LaneStates, Pcs
<1>5. Moves(l, r) BY <1>4 DEF Moves
<1>6. lane'[l] = r BY <1>1, <1>5, Moved
<1> HIDE DEF r
<1>7. Current(l)' = Current(l) /\ Taken(k)' = Taken(k) /\ script' = script
  BY <1>4, <1>6 DEF Current, Taken, parserVars
<1>8. Current(l) = El(k) /\ k > 0 /\ k \in Calls BY <1>1, AtElement
<1>9. LaneOk(l)' BY <1>1, <1>4, <1>6, <1>7, <1>8 DEF LaneOk, InElement, Fuel
<1>10. /\ PastLiterals(l, k) /\ PastLiterals(l, k)'
       /\ PastMatch(l, k)' /\ PastSync1(l, k) /\ ~PastElement(l, k)'
  BY <1>4, <1>6 DEF PastLiterals, PastMatch, PastSync1, PastElement, Past, InElement
<1>11. ASSUME NEW j \in Nat
       PROVE  /\ HasLiteral(l, k, j)
              /\ j < El(k).match_len => HasMatch(l, k, j)
  <2>1. El(k).match_len \in Nat BY <1>1, <1>8, Element
  <2>2. j < El(k).match_len => j < lane[l].i BY <1>3, <1>8, <2>1
  <2> QED BY <2>2, <1>10 DEF HasLiteral, HasMatch
<1> QED BY <1>4, <1>5, <1>9, <1>10, <1>11, WithinElement DEF InElement

\* A lane at a barrier all have met.
LEMMA MetThere ==
  ASSUME LaneInv, NEW l \in Lanes, Met(l), NEW m \in Lanes
  PROVE  /\ lane[l].pc = "sync1" => PastLiterals(m, lane[l].calls)
         /\ lane[l].pc = "sync2" => PastMatch(m, lane[l].calls)
<1>1. ASSUME NEW a \in Lanes PROVE Place(a) \in 1..7 /\ Order[Place(a)] = lane[a].pc
  <2>1. lane[a].pc \in Pcs BY LaneTyped
  <2>2. \E n \in DOMAIN Order : Order[n] = lane[a].pc
    <3>1. /\ 1 \in DOMAIN Order /\ 2 \in DOMAIN Order /\ 3 \in DOMAIN Order /\ 4 \in DOMAIN Order
          /\ 5 \in DOMAIN Order /\ 6 \in DOMAIN Order /\ 7 \in DOMAIN Order
      BY DEF Order
    <3>2. /\ Order[1] = "parse" /\ Order[2] = "literals" /\ Order[3] = "sync1"
          /\ Order[4] = "match" /\ Order[5] = "sync2" /\ Order[6] = "exit" /\ Order[7] = "left"
      BY DEF Order
    <3> QED BY <2>1, <3>1, <3>2 DEF Pcs
  <2>3. Place(a) \in DOMAIN Order /\ Order[Place(a)] = lane[a].pc BY <2>2 DEF Place
  <2>4. DOMAIN Order = 1..7 BY DEF Order
  <2> QED BY <2>3, <2>4
<1>2. lane[l].pc = "sync1" => Place(l) = 3 BY <1>1 DEF Order
<1>3. lane[l].pc = "sync2" => Place(l) = 5 BY <1>1 DEF Order
<1>4. Place(m) >= 3 => lane[m].pc # "literals" BY <1>1 DEF Order
<1>5. Place(m) >= 5 => lane[m].pc \notin {"literals", "sync1", "match"} BY <1>1 DEF Order
<1>6. \/ lane[m].calls > lane[l].calls
      \/ lane[m].calls = lane[l].calls /\ Place(m) >= Place(l)
      \/ lane[m].calls = lane[l].calls /\ lane[m].pc = "parse"
  BY DEF Met
<1> QED BY <1>2, <1>3, <1>4, <1>5, <1>6 DEF PastLiterals, PastMatch, Past

\* The fuel of a lane at an element lasts beyond it: each element but the last
\* has cost a byte.
LEMMA FuelLasts ==
  ASSUME ParserTyped, ScriptInv, LaneInv, NEW l \in Lanes, lane[l].pc \in InElement
  PROVE  lane[l].fuel # 0 /\ lane[l].fuel = Fuel - lane[l].calls + 1
<1>1. lane[l].calls \in Calls /\ Taken(lane[l].calls) /\ lane[l].calls \in Nat
  BY AtElement, LaneTyped DEF InElement
<1>2. lane[l].fuel = Fuel - lane[l].calls + 1 BY DEF LaneInv, LaneOk
<1>3. Len(script) \in Nat /\ lane[l].calls <= Len(script) /\ src_pos \in Nat
  BY <1>1 DEF ParserTyped, Calls
<1>4. lane[l].calls <= SrcSize + 1 BY <1>3, <1>1, KernelAssumption DEF ScriptInv
<1> QED BY <1>1, <1>2, <1>4, KernelAssumption DEF Fuel

LEMMA AfterFacts ==
  ASSUME ParserTyped, ScriptInv, LaneInv, NEW l \in Lanes, lane[l].pc \in InElement,
         NEW r, r = AfterElement(lane[l])
  PROVE  /\ r \in LaneStates /\ r.calls = lane[l].calls /\ r.i = lane[l].i
         /\ r.done = lane[l].done /\ r.status = lane[l].status
         /\ lane[l].done => r.pc = "exit"
         /\ ~lane[l].done => r.pc = "parse" /\ r.fuel = Fuel - r.calls
<1>1. lane[l].fuel # 0 /\ lane[l].fuel = Fuel - lane[l].calls + 1 BY FuelLasts
<1>2. lane[l] \in LaneStates /\ lane[l].fuel \in Int /\ lane[l].calls \in Nat BY LaneTyped
<1>3. CASE lane[l].done
  <2>1. r = [lane[l] EXCEPT !.pc = "exit"] BY <1>3 DEF AfterElement
  <2>2. /\ r \in LaneStates /\ r.calls = lane[l].calls /\ r.i = lane[l].i
        /\ r.done = lane[l].done /\ r.status = lane[l].status /\ r.pc = "exit"
    BY <2>1, <1>2 DEF LaneStates, Pcs
  <2> QED BY <2>2, <1>3
<1>4. CASE ~lane[l].done
  <2>0. PICK f \in Int : f = lane[l].fuel - 1 BY <1>2
  <2>1. r = [lane[l] EXCEPT !.pc = "parse", !.fuel = f]
    BY <1>1, <1>2, <1>4, <2>0 DEF AfterElement, LaneStates
  <2>2. /\ r \in LaneStates /\ r.calls = lane[l].calls /\ r.i = lane[l].i
        /\ r.done = lane[l].done /\ r.status = lane[l].status
        /\ r.pc = "parse" /\ r.fuel = f
    BY <2>1, <1>2 DEF LaneStates, Pcs
  <2>3. Fuel \in Int BY KernelAssumption DEF Fuel
  <2>4. r.fuel = Fuel - r.calls BY <2>0, <2>2, <2>3, <1>1, <1>2
  <2> QED BY <2>2, <2>4, <1>4
<1> QED BY <1>3, <1>4

\* The lane is where it should be after the last step of an element.
LEMMA AfterOk ==
  ASSUME IInv, UNCHANGED parserVars, NEW l \in Lanes, lane[l].pc \in InElement,
         NEW r, r = AfterElement(lane[l]), Moves(l, r)
  PROVE  LaneOk(l)'
<1>1. ParserTyped /\ ScriptInv /\ LaneInv /\ LaneOk(l) BY DEF IInv, LaneInv
<1>2. /\ lane[l].calls \in Calls /\ lane[l].calls > 0 /\ Taken(lane[l].calls)
      /\ lane[l].calls \in Nat
  BY <1>1, AtElement, LaneTyped DEF InElement
<1> PICK k \in Nat : k = lane[l].calls BY <1>2
<1>3. lane'[l] = r BY <1>1, Moved
<1>4. /\ r.calls = k /\ r.i = lane[l].i /\ r.done = lane[l].done /\ r.status = lane[l].status
      /\ lane[l].done => r.pc = "exit"
      /\ ~lane[l].done => r.pc = "parse" /\ r.fuel = Fuel - r.calls
  BY <1>1, AfterFacts
<1>5. script' = script /\ Taken(k)' = Taken(k) /\ Fuel' = Fuel
  BY DEF parserVars, Taken, Fuel
<1>6. script[k] \in Answers BY <1>1, <1>2, Element
<1>7. script[k].outcome \in {"more", "done"} BY <1>2, <1>6 DEF Answers, Taken
<1>8. lane[l].done = (script[k].outcome = "done") /\ lane[l].status = "OK"
  BY <1>1, <1>2 DEF LaneOk
<1>9. CASE lane[l].done
  <2>1. r.pc = "exit" /\ script[k].outcome = "done" BY <1>4, <1>8, <1>9
  <2> QED BY <2>1, <1>1, <1>2, <1>3, <1>4, <1>5, <1>8, <1>9 DEF LaneOk, InElement
<1>10. CASE ~lane[l].done
  <2>1. r.pc = "parse" /\ script[k].outcome = "more" /\ r.fuel = Fuel - r.calls
    BY <1>4, <1>7, <1>8, <1>10
  <2> QED BY <2>1, <1>1, <1>2, <1>3, <1>4, <1>5, <1>8, <1>10 DEF LaneOk, InElement
<1> QED BY <1>9, <1>10

LEMMA Sync2Inv == ASSUME IInv, NEW l \in Lanes, Sync2(l) PROVE IInv'
<1>1. ParserTyped /\ ScriptInv /\ LaneInv BY DEF IInv
<1>2. /\ lane[l].pc = "sync2" /\ lane[l].pc \in InElement /\ Met(l)
      /\ UNCHANGED <<parserVars, dst, record>>
  BY DEF Sync2, InElement
<1>3. lane[l].calls \in Nat BY <1>1, LaneTyped
<1> PICK k \in Nat : k = lane[l].calls BY <1>3
<1> DEFINE r == AfterElement(lane[l])
<1>4. r \in LaneStates /\ r.calls = k /\ r.pc \in {"exit", "parse"}
  BY <1>1, <1>2, AfterFacts
<1>5. Moves(l, r) BY <1>4 DEF Moves, Sync2
<1>6. LaneOk(l)' BY <1>2, <1>5, AfterOk
<1>7. lane'[l] = r BY <1>1, <1>5, Moved
<1> HIDE DEF r
<1>8. /\ PastLiterals(l, k) /\ PastLiterals(l, k)' /\ PastMatch(l, k) /\ PastMatch(l, k)'
      /\ PastSync1(l, k)
  BY <1>2, <1>4, <1>7 DEF PastLiterals, PastMatch, PastSync1, Past, InElement
<1>9. \A m \in Lanes : PastMatch(m, k) BY <1>1, <1>2, MetThere
<1>10. \A j \in Nat : HasLiteral(l, k, j) /\ HasMatch(l, k, j) BY <1>8 DEF HasLiteral, HasMatch
<1>11. r.pc # "left" BY <1>4
<1> QED BY <1>2, <1>4, <1>5, <1>6, <1>8, <1>9, <1>10, <1>11, WithinElement

LEMMA Sync1Inv == ASSUME IInv, NEW l \in Lanes, Sync1(l) PROVE IInv'
<1>1. ParserTyped /\ ScriptInv /\ LaneInv /\ LaneOk(l) BY DEF IInv, LaneInv
<1>2. /\ lane[l].pc = "sync1" /\ lane[l].pc \in InElement /\ Met(l)
      /\ UNCHANGED <<parserVars, dst, record>>
  BY DEF Sync1, InElement
<1>3. lane[l].calls \in Nat /\ lane[l] \in LaneStates BY <1>1, LaneTyped
<1> PICK k \in Nat : k = lane[l].calls BY <1>3
<1>4. k > 0 /\ k \in Calls /\ Current(l) = El(k) /\ Taken(k) BY <1>1, <1>2, AtElement DEF InElement
<1>5. El(k).match_len \in Nat BY <1>1, <1>4, Element
<1>6. \A m \in Lanes : PastLiterals(m, k) BY <1>1, <1>2, MetThere
<1>7. PastLiterals(l, k) /\ ~PastMatch(l, k) /\ ~PastSync1(l, k) /\ \A j \in Nat : HasLiteral(l, k, j)
  BY <1>2, <1>3 DEF PastLiterals, PastMatch, PastSync1, Past, HasLiteral
<1>8. CASE El(k).match_len = 0
  <2> DEFINE r == AfterElement(lane[l])
  <2>1. r \in LaneStates /\ r.calls = k /\ r.pc \in {"exit", "parse"}
    BY <1>1, <1>2, AfterFacts
  <2>2. Moves(l, r) BY <2>1, <1>4, <1>8 DEF Moves, Sync1
  <2>3. LaneOk(l)' BY <1>2, <2>2, AfterOk
  <2>4. lane'[l] = r BY <1>1, <2>2, Moved
  <2> HIDE DEF r
  <2>5. PastLiterals(l, k)' BY <2>1, <2>4 DEF PastLiterals, Past
  <2>6. \A j \in Nat : ~(j < El(k).match_len) /\ ~(El(k).match_len > 0) BY <1>8
  <2>7. r.pc # "left" BY <2>1
  <2> QED BY <1>2, <1>6, <1>7, <1>8, <2>1, <2>2, <2>3, <2>5, <2>6, <2>7, WithinElement
<1>9. CASE El(k).match_len # 0
  <2> DEFINE r == [lane[l] EXCEPT !.pc = "match", !.i = l]
  <2>0. l \in Nat BY DEF Lanes
  <2>1. /\ r.pc = "match" /\ r.calls = k /\ r.i = l /\ r.fuel = lane[l].fuel
        /\ r.done = lane[l].done /\ r.status = lane[l].status /\ r \in LaneStates
    BY <1>3, <2>0 DEF LaneStates, Pcs
  <2>2. Moves(l, r) BY <2>1, <1>4, <1>9 DEF Moves, Sync1
  <2>3. lane'[l] = r BY <1>1, <2>2, Moved
  <2> HIDE DEF r
  <2>4. Current(l)' = Current(l) /\ Taken(k)' = Taken(k) /\ script' = script
    BY <1>2, <2>1, <2>3 DEF Current, Taken, parserVars
  <2>5. l % WaveSize = l BY ModOfLane, KernelAssumption DEF Lanes
  <2>6. El(k).match_len > 0 BY <1>5, <1>9
  <2>7. LaneOk(l)'
    BY <1>1, <1>2, <1>4, <2>1, <2>3, <2>4, <2>5, <2>6 DEF LaneOk, InElement, Fuel
  <2>8. PastLiterals(l, k)' /\ ~PastElement(l, k)'
    BY <2>1, <2>3 DEF PastLiterals, PastElement, Past, InElement
  <2>9. ASSUME NEW j \in Nat, j % WaveSize = l PROVE ~HasMatch(l, k, j)'
    <3>1. l <= j BY <2>9, SmallByte, KernelAssumption
    <3> QED BY <3>1, <2>0, <2>1, <2>3 DEF HasMatch, PastMatch, Past
  <2>10. r.pc # "left" BY <2>1
  <2> QED BY <1>2, <1>6, <1>7, <2>1, <2>2, <2>7, <2>8, <2>9, <2>10, WithinElement
<1> QED BY <1>8, <1>9

LEMMA LeaveInv == ASSUME IInv, NEW l \in Lanes, Leave(l) PROVE IInv'
<1>1. ParserTyped /\ ScriptInv /\ LaneInv /\ LaneOk(l) /\ BarrierInv /\ DataInv /\ RecordInv
  BY DEF IInv, LaneInv
<1>2. lane[l].pc = "exit" /\ UNCHANGED <<parserVars, dst>> BY DEF Leave
<1>3. ParserTyped' /\ ScriptInv' /\ Grows BY <1>1, <1>2, SameScript
<1>4. lane[l].calls \in Nat /\ lane[l] \in LaneStates BY <1>1, LaneTyped
<1> PICK k \in Nat : k = lane[l].calls BY <1>4
<1>5. k > 0 /\ k \in Calls BY <1>1, <1>2, AtElement
<1>6. Verdict(lane[l]) = lane[l].status
  <2>1. script[k] \in Answers /\ script[k].outcome # "more" BY <1>1, <1>2, <1>5, Element DEF LaneOk
  <2>2. script[k].outcome \in {"done", "rejected"} BY <2>1 DEF Answers
  <2>3. /\ lane[l].done = (script[k].outcome = "done")
        /\ lane[l].status = IF Taken(k) THEN "OK" ELSE "REJECTED"
    BY <1>1, <1>5 DEF LaneOk
  <2>4. CASE script[k].outcome = "done" BY <2>3, <2>4 DEF Verdict
  <2>5. CASE script[k].outcome = "rejected"
    <3>1. lane[l].status = "REJECTED" BY <2>3, <2>5 DEF Taken
    <3> QED BY <3>1 DEF Verdict
  <2> QED BY <2>2, <2>4, <2>5
<1> DEFINE r == [lane[l] EXCEPT !.pc = "left"]
<1>7. /\ r.pc = "left" /\ r.calls = k /\ r.i = lane[l].i /\ r.fuel = lane[l].fuel
      /\ r.done = lane[l].done /\ r.status = lane[l].status /\ r \in LaneStates
  BY <1>4 DEF LaneStates, Pcs
<1>8. Moves(l, r)
  <2>1. lane' = [lane EXCEPT ![l].pc = "left", ![l].status = lane[l].status] BY <1>6 DEF Leave
  <2>2. lane' = [lane EXCEPT ![l] = r]
    <3>1. lane \in [Lanes -> LaneStates] BY <1>1 DEF LaneInv
    <3> QED BY <2>1, <3>1 DEF LaneStates
  <2> QED BY <2>2, <1>7 DEF Moves
<1>9. lane'[l] = r BY <1>1, <1>8, Moved
<1> HIDE DEF r
<1>10. script' = script /\ Taken(k)' = Taken(k) BY <1>2 DEF parserVars, Taken
<1>11. LaneOk(l)' BY <1>1, <1>2, <1>5, <1>7, <1>9, <1>10 DEF LaneOk, InElement
<1>12. LaneInv' BY <1>1, <1>3, <1>8, <1>11, MoveLaneInv
<1>13. lane'[l].calls = lane[l].calls BY <1>7, <1>9
<1>14. ASSUME NEW n \in Calls
       PROVE  /\ PastLiterals(l, n)' = PastLiterals(l, n) /\ PastSync1(l, n)' = PastSync1(l, n)
              /\ PastMatch(l, n)' = PastMatch(l, n) /\ PastElement(l, n)' = PastElement(l, n)
              /\ \A j \in Nat : HasLiteral(l, n, j)' = HasLiteral(l, n, j)
                                /\ HasMatch(l, n, j)' = HasMatch(l, n, j)
  BY <1>2, <1>7, <1>9, <1>13
     DEF PastLiterals, PastSync1, PastMatch, PastElement, Past, HasLiteral, HasMatch, InElement
<1>15. Fresh(l) BY <1>1, <1>13, NoCallFresh
<1>16. BarriersMet(l) BY <1>14 DEF BarriersMet
<1>17. CopiesNothing(l) BY <1>14 DEF CopiesNothing
<1>18. BarrierInv' BY <1>1, <1>3, <1>8, <1>12, <1>15, <1>16, MoveBarrierInv
<1>19. DataInv' BY <1>1, <1>2, <1>3, <1>8, <1>12, <1>15, <1>17, MoveDataInv
<1>20. RecordInv'
  <2>0. 0 \in Lanes BY KernelAssumption DEF Lanes
  <2>1. CASE l = 0
    <3>1. record' = [status |-> lane[l].status,
                     bytes_written |-> IF lane[l].status = "OK" THEN script[k].dst_pos ELSE 0]
      BY <1>6, <2>1 DEF Leave
    <3> QED BY <3>1, <2>1, <1>7, <1>9, <1>10 DEF RecordInv
  <2>2. CASE l # 0
    <3>1. lane'[0] = lane[0] BY <1>1, <1>8, <2>0, <2>2, Moved
    <3>2. record' = record BY <2>2 DEF Leave
    <3> QED BY <3>1, <3>2, <1>1, <1>10 DEF RecordInv
  <2> QED BY <2>1, <2>2
<1> QED BY <1>3, <1>12, <1>18, <1>19, <1>20 DEF IInv

-----------------------------------------------------------------------------
(* The copies.                                                             *)

\* Where the regions of the elements lie.
LEMMA Regions ==
  ASSUME ParserTyped, ScriptInv, NEW k \in Calls, Taken(k)
  PROVE  /\ Start(k) \in Nat /\ Mid(k) \in Nat
         /\ Mid(k) = Start(k) + El(k).lit_len
         /\ script[k].dst_pos = Mid(k) + El(k).match_len
         /\ El(k).lit_len > 0 => El(k).lit_dst = Start(k)
         /\ El(k).match_len > 0 => El(k).match_dst = Mid(k) /\ El(k).off \in 1..Mid(k)
         /\ script[k].dst_pos <= dst_pos
         /\ \A n \in Calls : n < k => script[n].dst_pos <= Start(k)
<1>1. /\ script[k].dst_pos \in Nat /\ El(k).lit_len \in Nat /\ El(k).match_len \in Nat
  BY Element
<1>2. /\ Start(k) \in Nat
      /\ El(k).lit_len > 0 => El(k).lit_dst = Start(k)
      /\ El(k).match_len > 0 => El(k).match_dst = Mid(k) /\ El(k).off \in 1..Mid(k)
      /\ script[k].dst_pos <= dst_pos
      /\ \A n \in Calls : n < k => script[n].dst_pos <= Start(k)
  BY DEF ScriptInv
<1>3. /\ Mid(k) \in Nat /\ Mid(k) = Start(k) + El(k).lit_len
      /\ script[k].dst_pos = Mid(k) + El(k).match_len
  BY <1>1, <1>2 DEF Start, Mid
<1> QED BY <1>2, <1>3

\* A match reads below its own region.
LEMMA SourceBelow ==
  ASSUME ParserTyped, ScriptInv, NEW k \in Calls, Taken(k), El(k).match_len > 0, NEW j \in Nat
  PROVE  SourceOf(El(k), j) \in Nat /\ SourceOf(El(k), j) < Mid(k)
<1>1. /\ El(k).off \in Nat /\ El(k).match_dst = Mid(k) /\ El(k).off \in 1..Mid(k)
      /\ Mid(k) \in Nat
  BY Element, Regions
<1>2. El(k).off \in Nat \ {0} BY <1>1
<1>3. j % El(k).off \in 0..El(k).off - 1 BY <1>2, ModRange
<1>4. PICK q \in Nat : q = j % El(k).off BY <1>1, <1>3
<1> QED BY <1>1, <1>3, <1>4 DEF SourceOf

\* What a lane that is past the first barrier of an element may read is written.
LEMMA Covered ==
  ASSUME IInv, NEW k \in Calls, Taken(k), NEW a \in Lanes, PastSync1(a, k),
         NEW p \in Nat, p < Mid(k)
  PROVE  p \in DOMAIN dst
<1>1. ParserTyped /\ ScriptInv /\ LaneInv /\ BarrierInv /\ DataInv BY DEF IInv
<1>3. /\ Mid(k) = Start(k) + El(k).lit_len
      /\ script[k].dst_pos = Mid(k) + El(k).match_len
      /\ script[k].dst_pos <= dst_pos
      /\ Mid(k) \in Nat /\ El(k).match_len \in Nat /\ dst_pos \in Nat
      /\ Start(k) \in Nat /\ El(k).lit_len \in Nat
  BY <1>1, Regions, Element DEF ParserTyped
<1>4. p < dst_pos BY <1>3
<1>5. PICK n \in Calls : Taken(n) /\ Start(n) <= p /\ p < script[n].dst_pos
  BY <1>1, <1>4 DEF ScriptInv
<1>6. n \in Int /\ k \in Int /\ lane[a].calls \in Nat BY <1>1, LaneTyped DEF Calls
<1>7. /\ Mid(n) = Start(n) + El(n).lit_len
      /\ script[n].dst_pos = Mid(n) + El(n).match_len
      /\ Mid(n) \in Nat /\ El(n).match_len \in Nat
      /\ Start(n) \in Nat /\ El(n).lit_len \in Nat
  BY <1>1, <1>5, Regions, Element
<1>8. n <= k
  <2>1. k < n => script[k].dst_pos <= Start(n) BY <1>1, <1>5, Regions
  <2> QED BY <2>1, <1>3, <1>5, <1>6, <1>7
<1>9. PastSync1(a, n)
  <2>1. CASE n = k BY <2>1
  <2>2. CASE n # k BY <2>2, <1>6, <1>8 DEF PastSync1, Past
  <2> QED BY <2>1, <2>2
<1>10. CASE p < Mid(n)
  <2>1. PICK j \in Nat : j = p - Start(n) BY <1>5, <1>7
  <2>2. j < El(n).lit_len /\ El(n).lit_len > 0 BY <2>1, <1>7, <1>10
  <2>3. El(n).lit_dst + j = p BY <2>1, <2>2, <1>1, <1>5, <1>7, Regions
  <2>4. j % WaveSize \in Lanes BY ModRange, KernelAssumption DEF Lanes
  <2>5. HasLiteral(j % WaveSize, n, j) BY <1>1, <1>5, <1>9, <2>4 DEF BarrierInv, HasLiteral
  <2> QED BY <1>1, <1>5, <2>2, <2>3, <2>5 DEF DataInv, LiteralsInPlace
<1>11. CASE p >= Mid(n)
  <2>1. PICK j \in Nat : j = p - Mid(n) BY <1>11, <1>7
  <2>2. j < El(n).match_len /\ El(n).match_len > 0 BY <2>1, <1>5, <1>7, <1>11
  <2>3. El(n).match_dst + j = p BY <2>1, <2>2, <1>1, <1>5, <1>7, Regions
  <2>4. j % WaveSize \in Lanes BY ModRange, KernelAssumption DEF Lanes
  <2>5. n < k BY <1>3, <1>6, <1>8, <1>11
  <2>6. PastElement(a, n) BY <2>5, <1>6 DEF PastSync1, PastElement, Past
  <2>7. HasMatch(j % WaveSize, n, j) BY <1>1, <1>5, <2>2, <2>4, <2>6 DEF BarrierInv, HasMatch
  <2> QED BY <1>1, <1>5, <2>2, <2>3, <2>7 DEF DataInv, MatchesInPlace
<1> QED BY <1>7, <1>10, <1>11

\* A lane's next byte changes nothing but its place in the copy.
LEMMA AdvanceInv ==
  ASSUME IInv, NEW l \in Lanes, lane[l].pc \in {"literals", "match"},
         lane' = [lane EXCEPT ![l].i = @ + WaveSize], UNCHANGED <<parserVars, record>>
  PROVE  /\ ParserTyped' /\ ScriptInv' /\ LaneInv' /\ BarrierInv' /\ RecordInv'
         /\ lane'[l].calls = lane[l].calls /\ lane'[l].pc = lane[l].pc
         /\ lane'[l].i = lane[l].i + WaveSize
         /\ \A m \in Lanes : m # l => lane'[m] = lane[m]
<1>1. ParserTyped /\ ScriptInv /\ LaneInv /\ LaneOk(l) /\ BarrierInv /\ RecordInv
  BY DEF IInv, LaneInv
<1>2. ParserTyped' /\ ScriptInv' /\ Grows BY <1>1, SameScript
<1>3. lane[l].calls \in Nat /\ lane[l].i \in Nat /\ lane[l] \in LaneStates BY <1>1, LaneTyped
<1> PICK k \in Nat : k = lane[l].calls BY <1>3
<1>4. PICK i \in Nat : i = lane[l].i + WaveSize BY <1>3, KernelAssumption
<1> DEFINE r == [lane[l] EXCEPT !.i = i]
<1>5. /\ r.pc = lane[l].pc /\ r.calls = k /\ r.i = i /\ r.fuel = lane[l].fuel
      /\ r.done = lane[l].done /\ r.status = lane[l].status /\ r \in LaneStates
  BY <1>3 DEF LaneStates
<1>6. Moves(l, r) BY <1>4, <1>5 DEF Moves
<1>7. lane'[l] = r /\ \A m \in Lanes : m # l => lane'[m] = lane[m] BY <1>1, <1>6, Moved
<1> HIDE DEF r
<1>8. Current(l)' = Current(l) /\ Taken(k)' = Taken(k) /\ script' = script
  BY <1>5, <1>7 DEF Current, Taken, parserVars
<1>9. i % WaveSize = l BY <1>1, <1>3, <1>4, ModNext, KernelAssumption DEF LaneOk
<1>10. LaneOk(l)'
  BY <1>1, <1>5, <1>7, <1>8, <1>9 DEF LaneOk, InElement, Fuel
<1>11. LaneInv' BY <1>1, <1>2, <1>6, <1>10, MoveLaneInv
<1>12. Fresh(l) BY <1>1, <1>5, <1>7, NoCallFresh
<1>13. BarriersMet(l)
  BY <1>5, <1>7 DEF BarriersMet, PastLiterals, PastMatch, PastSync1, PastElement, Past
<1>14. BarrierInv' BY <1>1, <1>2, <1>6, <1>11, <1>12, <1>13, MoveBarrierInv
<1>15. lane[l].pc # "left" /\ r.pc # "left" BY <1>5
<1>16. RecordInv' BY <1>1, <1>2, <1>6, <1>15, MoveRecordInv
<1> QED BY <1>2, <1>4, <1>5, <1>7, <1>11, <1>14, <1>16

\* The elements' regions lie apart: a byte of element k is a byte of no other.
LEMMA Apart ==
  ASSUME ParserTyped, ScriptInv, NEW k \in Calls, Taken(k), NEW n \in Calls, Taken(n), NEW p \in Nat
  PROVE  /\ Start(k) <= p /\ p < script[k].dst_pos /\ Start(n) <= p /\ p < script[n].dst_pos
              => n = k
         /\ Start(k) <= p /\ n < k => script[n].dst_pos <= p
<1>1. /\ script[k].dst_pos \in Nat /\ script[n].dst_pos \in Nat
      /\ Start(k) \in Nat /\ Start(n) \in Nat
  BY Element, Regions
<1>2. n < k => script[n].dst_pos <= Start(k) BY Regions
<1>3. k < n => script[k].dst_pos <= Start(n) BY Regions
<1>4. n \in Int /\ k \in Int BY DEF Calls
<1> QED BY <1>1, <1>2, <1>3, <1>4

LEMMA Written ==
  ASSUME NEW p, NEW value, WriteByte(p, value)
  PROVE  /\ DOMAIN dst' = DOMAIN dst \cup {p}
         /\ dst'[p] = value
         /\ \A q \in DOMAIN dst : q # p => dst'[q] = dst[q]
BY DEF WriteByte

\* Lane l writes byte p of element k, at or above start and inside the region;
\* what was in place before is still.
LEMMA KeepsData ==
  ASSUME IInv, NEW k \in Calls, Taken(k), NEW l \in Lanes, lane[l].calls = k,
         lane[l].pc \in {"literals", "match"},
         NEW p \in Nat, NEW value, WriteByte(p, value),
         Start(k) <= p, p < script[k].dst_pos,
         lane[l].pc = "match" => Mid(k) <= p
  PROVE  /\ \A n \in Calls : Taken(n) => \A j \in Nat :
              j < El(n).lit_len /\ El(n).lit_dst + j # p /\ HasLiteral(j % WaveSize, n, j) =>
                El(n).lit_dst + j \in DOMAIN dst' /\ dst'[El(n).lit_dst + j] = El(n).lit_src + j
         /\ \A n \in Calls : Taken(n) => \A j \in Nat :
              j < El(n).match_len /\ El(n).match_dst + j # p /\ HasMatch(j % WaveSize, n, j) =>
                /\ El(n).match_dst + j \in DOMAIN dst'
                /\ dst'[El(n).match_dst + j] = dst'[SourceOf(El(n), j)]
<1>1. ParserTyped /\ ScriptInv /\ LaneInv /\ BarrierInv /\ DataInv BY DEF IInv
<1>2. /\ DOMAIN dst' = DOMAIN dst \cup {p}
      /\ \A q \in DOMAIN dst : q # p => dst'[q] = dst[q]
  BY Written
<1>3. ASSUME NEW n \in Calls, Taken(n), NEW j \in Nat,
             j < El(n).lit_len, El(n).lit_dst + j # p, HasLiteral(j % WaveSize, n, j)
      PROVE  El(n).lit_dst + j \in DOMAIN dst' /\ dst'[El(n).lit_dst + j] = El(n).lit_src + j
  <2>1. El(n).lit_dst + j \in DOMAIN dst /\ dst[El(n).lit_dst + j] = El(n).lit_src + j
    BY <1>1, <1>3 DEF DataInv, LiteralsInPlace
  <2> QED BY <2>1, <1>2, <1>3
<1>4. ASSUME NEW n \in Calls, Taken(n), NEW j \in Nat,
             j < El(n).match_len, El(n).match_dst + j # p, HasMatch(j % WaveSize, n, j)
      PROVE  /\ El(n).match_dst + j \in DOMAIN dst'
             /\ dst'[El(n).match_dst + j] = dst'[SourceOf(El(n), j)]
  <2>1. /\ El(n).match_dst + j \in DOMAIN dst
        /\ dst[El(n).match_dst + j] = dst[SourceOf(El(n), j)]
    BY <1>1, <1>4 DEF DataInv, MatchesInPlace
  <2>2. El(n).match_len \in Nat /\ El(n).match_len > 0 BY <1>1, <1>4, Element
  <2>3. PICK s \in Nat : s = SourceOf(El(n), j) /\ s < Mid(n)
    BY <1>1, <1>4, <2>2, SourceBelow
  <2>4. j % WaveSize \in Lanes BY ModRange, KernelAssumption DEF Lanes
  <2>5. PastSync1(j % WaveSize, n)
    BY <1>4, <1>1, <2>4, LaneTyped DEF HasMatch, PastMatch, PastSync1, Past
  <2>6. s \in DOMAIN dst BY <1>4, <2>3, <2>4, <2>5, Covered
  <2>7. PastLiterals(l, n) BY <1>1, <1>4, <2>4, <2>5 DEF BarrierInv
  <2>8. n < k \/ (n = k /\ lane[l].pc = "match")
    <3>1. n \in Int /\ k \in Int BY DEF Calls
    <3> QED BY <2>7, <3>1 DEF PastLiterals, Past
  <2>9. s < p
    <3>1. Mid(n) \in Nat /\ script[n].dst_pos = Mid(n) + El(n).match_len
      BY <1>1, <1>4, Element, Regions
    <3>2. CASE n < k
      <4>1. script[n].dst_pos <= p BY <1>1, <1>4, <3>2, Apart
      <4> QED BY <4>1, <3>1, <2>2, <2>3
    <3>3. CASE n = k /\ lane[l].pc = "match" BY <3>3, <3>1, <2>3
    <3> QED BY <2>8, <3>2, <3>3
  <2>10. dst'[s] = dst[s] BY <1>2, <2>6, <2>9
  <2> QED BY <2>1, <2>3, <2>10, <1>2, <1>4
<1> QED BY <1>3, <1>4

\* What lane l has of element k after it copied byte i is what it had, and i.
LEMMA OneMore ==
  ASSUME LaneInv, NEW l \in Lanes, NEW k \in Calls, lane[l].calls = k,
         NEW i \in Nat, i = lane[l].i,
         lane'[l].calls = k, lane'[l].pc = lane[l].pc, lane'[l].i = i + WaveSize,
         \A m \in Lanes : m # l => lane'[m] = lane[m],
         NEW n \in Calls, NEW j \in Nat
  PROVE  /\ HasLiteral(j % WaveSize, n, j)' =>
              \/ HasLiteral(j % WaveSize, n, j)
              \/ n = k /\ j = i /\ lane[l].pc = "literals"
         /\ HasMatch(j % WaveSize, n, j)' =>
              \/ HasMatch(j % WaveSize, n, j)
              \/ n = k /\ j = i /\ lane[l].pc = "match"
<1>1. j % WaveSize \in Lanes BY ModRange, KernelAssumption DEF Lanes
<1>2. CASE j % WaveSize # l
  <2>1. lane'[j % WaveSize] = lane[j % WaveSize] BY <1>1, <1>2
  <2> QED BY <2>1 DEF HasLiteral, HasMatch, PastLiterals, PastMatch, Past
<1>3. CASE j % WaveSize = l
  <2>1. i % WaveSize = l BY DEF LaneInv, LaneOk
  <2>2. i <= j /\ j < i + WaveSize => i = j BY <1>3, <2>1, OneOfLane, KernelAssumption
  <2>3. j < i + WaveSize => j < i \/ j = i BY <2>2, KernelAssumption
  <2> QED BY <1>3, <2>3 DEF HasLiteral, HasMatch, PastLiterals, PastMatch, Past
<1> QED BY <1>2, <1>3

LEMMA WriteInv ==
  ASSUME IInv, NEW l \in Lanes, NEW k \in Calls, Taken(k), k = lane[l].calls,
         lane[l].pc \in {"literals", "match"},
         NEW i \in Nat, i = lane[l].i, NEW p \in Nat, NEW value, WriteByte(p, value),
         lane' = [lane EXCEPT ![l].i = @ + WaveSize], UNCHANGED <<parserVars, record>>,
         Start(k) <= p, p < script[k].dst_pos,
         lane[l].pc = "literals" =>
           p = El(k).lit_dst + i /\ i < El(k).lit_len /\ value = El(k).lit_src + i,
         lane[l].pc = "match" =>
           /\ p = El(k).match_dst + i /\ i < El(k).match_len
           /\ value = ReadByte(SourceOf(El(k), i))
  PROVE  IInv'
<1>1. ParserTyped /\ ScriptInv /\ LaneInv /\ BarrierInv /\ DataInv BY DEF IInv
<1>2. /\ ParserTyped' /\ ScriptInv' /\ LaneInv' /\ BarrierInv' /\ RecordInv'
      /\ lane'[l].calls = k /\ lane'[l].pc = lane[l].pc /\ lane'[l].i = i + WaveSize
      /\ \A m \in Lanes : m # l => lane'[m] = lane[m]
  BY AdvanceInv
<1>3. /\ DOMAIN dst' = DOMAIN dst \cup {p} /\ dst'[p] = value
      /\ \A q \in DOMAIN dst : q # p => dst'[q] = dst[q]
  BY Written
<1>4. /\ script' = script /\ dst_pos' = dst_pos /\ Calls' = Calls
      /\ \A n : Taken(n)' = Taken(n) /\ El(n)' = El(n)
  BY DEF parserVars, Calls, Taken, El
<1>5. /\ Start(k) \in Nat /\ El(k).lit_len \in Nat /\ El(k).match_len \in Nat
      /\ Mid(k) \in Nat /\ Mid(k) = Start(k) + El(k).lit_len
      /\ script[k].dst_pos = Mid(k) + El(k).match_len
      /\ script[k].dst_pos <= dst_pos /\ dst_pos \in Nat
  BY <1>1, Element, Regions DEF ParserTyped
<1>6. WrittenInside'
  <2>1. p < dst_pos BY <1>5
  <2> QED BY <2>1, <1>1, <1>3, <1>4 DEF DataInv, WrittenInside
<1>7. lane[l].pc = "match" => El(k).match_dst = Mid(k) /\ Mid(k) <= p BY <1>1, <1>5, Regions
<1>8. /\ \A n \in Calls : Taken(n) => \A j \in Nat :
           j < El(n).lit_len /\ El(n).lit_dst + j # p /\ HasLiteral(j % WaveSize, n, j) =>
             El(n).lit_dst + j \in DOMAIN dst' /\ dst'[El(n).lit_dst + j] = El(n).lit_src + j
      /\ \A n \in Calls : Taken(n) => \A j \in Nat :
           j < El(n).match_len /\ El(n).match_dst + j # p /\ HasMatch(j % WaveSize, n, j) =>
             /\ El(n).match_dst + j \in DOMAIN dst'
             /\ dst'[El(n).match_dst + j] = dst'[SourceOf(El(n), j)]
  BY <1>7, KeepsData
<1>9. ASSUME NEW n \in Calls, Taken(n), NEW j \in Nat
      PROVE  /\ HasLiteral(j % WaveSize, n, j)' =>
                  HasLiteral(j % WaveSize, n, j) \/ (n = k /\ j = i /\ lane[l].pc = "literals")
             /\ HasMatch(j % WaveSize, n, j)' =>
                  HasMatch(j % WaveSize, n, j) \/ (n = k /\ j = i /\ lane[l].pc = "match")
  BY <1>1, <1>2, OneMore
<1>10. ASSUME NEW n \in Calls, Taken(n)
       PROVE  /\ Start(n) \in Nat /\ El(n).lit_len \in Nat /\ El(n).match_len \in Nat
              /\ Mid(n) \in Nat /\ Mid(n) = Start(n) + El(n).lit_len
              /\ script[n].dst_pos = Mid(n) + El(n).match_len
              /\ El(n).lit_len > 0 => El(n).lit_dst = Start(n)
              /\ El(n).match_len > 0 => El(n).match_dst = Mid(n)
              /\ Start(n) <= p /\ p < script[n].dst_pos => n = k
  BY <1>1, <1>10, Element, Regions, Apart
<1>11. ASSUME NEW n \in Calls, Taken(n), NEW j \in Nat, j < El(n).lit_len,
              HasLiteral(j % WaveSize, n, j)'
       PROVE  El(n).lit_dst + j \in DOMAIN dst' /\ dst'[El(n).lit_dst + j] = El(n).lit_src + j
  <2>1. CASE El(n).lit_dst + j # p
    <3>1. HasLiteral(j % WaveSize, n, j)
      <4>1. CASE n = k /\ j = i /\ lane[l].pc = "literals" BY <4>1, <2>1
      <4> QED BY <4>1, <1>9, <1>11
    <3> QED BY <3>1, <2>1, <1>8, <1>11
  <2>2. CASE El(n).lit_dst + j = p
    <3>0. El(n).lit_dst = Start(n) /\ El(n).lit_len > 0 BY <1>10, <1>11
    <3>1. n = k BY <3>0, <2>2, <1>10, <1>11
    <3>2. lane[l].pc = "literals" /\ j = i
      <4>1. p = Start(k) + j /\ p < Mid(k) BY <3>0, <3>1, <2>2, <1>5, <1>11
      <4>2. lane[l].pc = "literals" BY <4>1, <1>7, <1>5
      <4> QED BY <4>1, <4>2, <3>0, <3>1, <1>5
    <3> QED BY <3>1, <3>2, <1>3, <2>2
  <2> QED BY <2>1, <2>2
<1>12. ASSUME NEW n \in Calls, Taken(n), NEW j \in Nat, j < El(n).match_len,
              HasMatch(j % WaveSize, n, j)'
       PROVE  /\ El(n).match_dst + j \in DOMAIN dst'
              /\ dst'[El(n).match_dst + j] = dst'[SourceOf(El(n), j)]
  <2>1. CASE El(n).match_dst + j # p
    <3>1. HasMatch(j % WaveSize, n, j)
      <4>1. CASE n = k /\ j = i /\ lane[l].pc = "match" BY <4>1, <2>1
      <4> QED BY <4>1, <1>9, <1>12
    <3> QED BY <3>1, <2>1, <1>8, <1>12
  <2>2. CASE El(n).match_dst + j = p
    <3>0. El(n).match_dst = Mid(n) /\ El(n).match_len > 0 BY <1>10, <1>12
    <3>1. n = k BY <3>0, <2>2, <1>10, <1>12
    <3>2. lane[l].pc = "match" /\ j = i
      <4>1. p = Mid(k) + j BY <3>0, <3>1, <2>2
      <4>2. ASSUME lane[l].pc = "literals" PROVE FALSE
        <5>1. p = El(k).lit_dst + i /\ i < El(k).lit_len BY <4>2
        <5>2. El(k).lit_dst = Start(k) BY <5>1, <1>1, <1>5, Regions
        <5> QED BY <4>1, <5>1, <5>2, <1>5
      <4>3. lane[l].pc = "match" BY <4>2
      <4> QED BY <4>1, <4>3, <3>0, <3>1, <1>5
    <3>3. PICK s \in Nat : s = SourceOf(El(k), i) /\ s < Mid(k)
      <4>1. El(k).match_len > 0 BY <3>2, <1>5
      <4> QED BY <4>1, <1>1, SourceBelow
    <3>4. PastSync1(l, k) BY <3>2 DEF PastSync1, Past
    <3>5. s \in DOMAIN dst BY <3>3, <3>4, Covered
    <3>6. value = dst[s] BY <3>2, <3>3, <3>5 DEF ReadByte
    <3>7. s # p BY <3>3, <1>5, <1>7, <3>2
    <3>8. dst'[s] = dst[s] BY <3>5, <3>7, <1>3
    <3> QED BY <3>1, <3>2, <3>3, <3>6, <3>8, <1>3, <2>2
  <2> QED BY <2>1, <2>2
<1>13. LiteralsInPlace' BY <1>4, <1>11 DEF LiteralsInPlace
<1>14. MatchesInPlace' BY <1>4, <1>12 DEF MatchesInPlace
<1> QED BY <1>2, <1>6, <1>13, <1>14 DEF IInv, DataInv

LEMMA CopyLiteralInv == ASSUME IInv, NEW l \in Lanes, CopyLiteral(l) PROVE IInv'
<1>1. ParserTyped /\ ScriptInv /\ LaneInv BY DEF IInv
<1>2. /\ lane[l].pc = "literals" /\ lane[l].pc \in InElement /\ UNCHANGED <<parserVars, record>>
      /\ lane[l].pc \in {"literals", "match"}
  BY DEF CopyLiteral, InElement
<1>3. lane[l].calls \in Nat /\ lane[l].i \in Nat BY <1>1, LaneTyped
<1>4. lane[l].calls \in Calls /\ Taken(lane[l].calls) /\ Current(l) = El(lane[l].calls)
  BY <1>1, <1>2, AtElement DEF InElement
<1> PICK k \in Calls : k = lane[l].calls BY <1>4
<1> PICK i \in Nat : i = lane[l].i BY <1>3
<1>5. /\ Start(k) \in Nat /\ El(k).lit_len \in Nat /\ El(k).match_len \in Nat
      /\ Mid(k) = Start(k) + El(k).lit_len
      /\ script[k].dst_pos = Mid(k) + El(k).match_len
      /\ El(k).lit_len > 0 => El(k).lit_dst = Start(k)
      /\ El(k).match_len > 0 => El(k).match_dst = Mid(k)
  BY <1>1, <1>4, Element, Regions
<1>6. CASE i < El(k).lit_len
  <2>1. PICK p \in Nat : p = El(k).lit_dst + i BY <1>5, <1>6
  <2>2. WriteByte(p, El(k).lit_src + i) /\ lane' = [lane EXCEPT ![l].i = @ + WaveSize]
    BY <1>4, <1>6, <2>1 DEF CopyLiteral
  <2>3. Start(k) <= p /\ p < script[k].dst_pos BY <2>1, <1>5, <1>6
  <2>4. lane[l].pc # "match" BY <1>2
  <2> QED BY <1>2, <1>4, <1>6, <2>1, <2>2, <2>3, <2>4, WriteInv
<1>7. CASE ~(i < El(k).lit_len)
  <2>1. lane[l].i >= Current(l).lit_len BY <1>4, <1>5, <1>7
  <2>2. lane' = [lane EXCEPT ![l].pc = "sync1"] /\ UNCHANGED dst BY <1>4, <1>7 DEF CopyLiteral
  <2> QED BY <1>2, <2>1, <2>2, LiteralsEndInv
<1> QED BY <1>6, <1>7

LEMMA CopyMatchInv == ASSUME IInv, NEW l \in Lanes, CopyMatch(l) PROVE IInv'
<1>1. ParserTyped /\ ScriptInv /\ LaneInv BY DEF IInv
<1>2. /\ lane[l].pc = "match" /\ lane[l].pc \in InElement /\ UNCHANGED <<parserVars, record>>
      /\ lane[l].pc \in {"literals", "match"}
  BY DEF CopyMatch, InElement
<1>3. lane[l].calls \in Nat /\ lane[l].i \in Nat BY <1>1, LaneTyped
<1>4. lane[l].calls \in Calls /\ Taken(lane[l].calls) /\ Current(l) = El(lane[l].calls)
  BY <1>1, <1>2, AtElement DEF InElement
<1> PICK k \in Calls : k = lane[l].calls BY <1>4
<1> PICK i \in Nat : i = lane[l].i BY <1>3
<1>5. /\ Start(k) \in Nat /\ El(k).lit_len \in Nat /\ El(k).match_len \in Nat
      /\ Mid(k) = Start(k) + El(k).lit_len
      /\ script[k].dst_pos = Mid(k) + El(k).match_len
      /\ El(k).lit_len > 0 => El(k).lit_dst = Start(k)
      /\ El(k).match_len > 0 => El(k).match_dst = Mid(k)
  BY <1>1, <1>4, Element, Regions
<1>6. CASE i < El(k).match_len
  <2>1. PICK p \in Nat : p = El(k).match_dst + i BY <1>5, <1>6
  <2>2. WriteByte(p, ReadByte(SourceOf(El(k), i))) /\ lane' = [lane EXCEPT ![l].i = @ + WaveSize]
    BY <1>4, <1>6, <2>1 DEF CopyMatch
  <2>3. Start(k) <= p /\ p < script[k].dst_pos BY <2>1, <1>5, <1>6
  <2>4. lane[l].pc # "literals" BY <1>2
  <2> QED BY <1>2, <1>4, <1>6, <2>1, <2>2, <2>3, <2>4, WriteInv
<1>7. CASE ~(i < El(k).match_len)
  <2>1. lane[l].i >= Current(l).match_len BY <1>4, <1>5, <1>7
  <2>2. lane' = [lane EXCEPT ![l].pc = "sync2"] /\ UNCHANGED dst BY <1>4, <1>7 DEF CopyMatch
  <2> QED BY <1>2, <2>1, <2>2, MatchEndInv
<1> QED BY <1>6, <1>7

LEMMA NextInv == IInv /\ [Next]_vars => IInv'
<1> SUFFICES ASSUME IInv, [Next]_vars PROVE IInv' OBVIOUS
<1>1. CASE UNCHANGED vars
  <2>1. /\ UNCHANGED <<src_pos, dst_pos, element, outcome, script, lane, dst, record>>
    BY <1>1 DEF vars
  <2>2. ParserTyped' /\ ScriptInv' BY <2>1, SameScript DEF IInv, parserVars
  <2>3. LaneInv'
    BY <2>1 DEF IInv, LaneInv, LaneOk, Taken, Current
  <2>4. BarrierInv' /\ DataInv' /\ RecordInv'
    BY <2>1 DEF IInv, BarrierInv, DataInv, WrittenInside, LiteralsInPlace, MatchesInPlace, RecordInv,
                Calls, Taken, El, PastLiterals, PastSync1, PastMatch, PastElement, Past,
                HasLiteral, HasMatch
  <2> QED BY <2>2, <2>3, <2>4 DEF IInv
<1>2. ASSUME NEW l \in Lanes, Step(l) PROVE IInv'
  BY <1>2, ParseInv, CopyLiteralInv, Sync1Inv, CopyMatchInv, Sync2Inv, LeaveInv DEF Step
<1> QED BY <1>1, <1>2 DEF Next

LEMMA Invariance == Spec => []IInv
<1> QED BY InitInv, NextInv, PTL DEF Spec

-----------------------------------------------------------------------------
(* The theorems.                                                           *)

\* What a lane is about to touch lies in the element it is at, and tells how far
\* it is.
LEMMA Touches ==
  ASSUME IInv, NEW l \in Lanes, NEW p \in Writes(l)
  PROVE  /\ lane[l].calls \in Calls /\ Taken(lane[l].calls) /\ p \in Nat
         /\ Start(lane[l].calls) <= p /\ p < script[lane[l].calls].dst_pos
         /\ lane[l].pc \in {"literals", "match"}
         /\ lane[l].pc = "literals" => p = El(lane[l].calls).lit_dst + lane[l].i
         /\ lane[l].pc = "match" => /\ p = El(lane[l].calls).match_dst + lane[l].i
                                    /\ Mid(lane[l].calls) <= p
                                    /\ El(lane[l].calls).match_len > 0
<1>1. ParserTyped /\ ScriptInv /\ LaneInv BY DEF IInv
<1>2. \/ /\ lane[l].pc = "literals" /\ lane[l].i < Current(l).lit_len
         /\ p = Current(l).lit_dst + lane[l].i
      \/ /\ lane[l].pc = "match" /\ lane[l].i < Current(l).match_len
         /\ p = Current(l).match_dst + lane[l].i
  BY DEF Writes
<1>3. lane[l].pc \in InElement /\ lane[l].pc # "parse" BY <1>2 DEF InElement
<1>4. lane[l].calls \in Calls /\ Taken(lane[l].calls) /\ Current(l) = El(lane[l].calls)
  BY <1>1, <1>3, AtElement
<1> PICK k \in Calls : k = lane[l].calls BY <1>4
<1>5. /\ Start(k) \in Nat /\ El(k).lit_len \in Nat /\ El(k).match_len \in Nat
      /\ Mid(k) = Start(k) + El(k).lit_len
      /\ script[k].dst_pos = Mid(k) + El(k).match_len
      /\ El(k).lit_len > 0 => El(k).lit_dst = Start(k)
      /\ El(k).match_len > 0 => El(k).match_dst = Mid(k)
  BY <1>1, <1>4, Element, Regions
<1>6. PICK i \in Nat : i = lane[l].i BY <1>1, LaneTyped
<1> QED BY <1>2, <1>4, <1>5, <1>6

\* Two lanes that write are at one element and in one copy of it.
LEMMA WritersTogether ==
  ASSUME IInv, NEW l \in Lanes, NEW m \in Lanes,
         lane[l].pc \in {"literals", "match"}, lane[m].pc \in {"literals", "match"},
         lane[l].calls <= lane[m].calls
  PROVE  lane[l].calls = lane[m].calls /\ lane[l].pc = lane[m].pc
<1>1. ParserTyped /\ ScriptInv /\ LaneInv /\ BarrierInv /\ LaneOk(l) BY DEF IInv, LaneInv
<1>2. /\ lane[l].calls \in Calls /\ Taken(lane[l].calls) /\ lane[l].calls > 0
      /\ Current(l) = El(lane[l].calls)
  BY <1>1, AtElement DEF InElement
<1>3. lane[m].calls \in Nat /\ lane[l].calls \in Nat BY <1>1, LaneTyped
<1> PICK k \in Calls : k = lane[l].calls BY <1>2
<1>4. ASSUME lane[m].calls > k PROVE FALSE
  <2>1. PastSync1(m, k) /\ PastElement(m, k) BY <1>4 DEF PastSync1, PastElement, Past
  <2>2. PastLiterals(l, k) /\ (El(k).match_len > 0 => PastMatch(l, k))
    BY <1>1, <1>2, <2>1 DEF BarrierInv
  <2>3. lane[l].pc = "match" BY <2>2, <1>3 DEF PastLiterals, Past
  <2>4. El(k).match_len > 0 BY <2>3, <1>1, <1>2 DEF LaneOk
  <2> QED BY <2>2, <2>3, <2>4, <1>3 DEF PastMatch, Past
<1>5. lane[m].calls = k BY <1>3, <1>4
<1>6. lane[m].pc = "match" => lane[l].pc # "literals"
  <2>1. lane[m].pc = "match" => PastSync1(m, k) BY <1>5 DEF PastSync1, Past
  <2>2. lane[m].pc = "match" => PastLiterals(l, k) BY <1>1, <1>2, <2>1 DEF BarrierInv
  <2> QED BY <2>2, <1>3 DEF PastLiterals, Past
<1>7. lane[l].pc = "match" => lane[m].pc # "literals"
  <2>1. lane[l].pc = "match" => PastSync1(l, k) BY DEF PastSync1, Past
  <2>2. lane[l].pc = "match" => PastLiterals(m, k) BY <1>1, <1>2, <2>1 DEF BarrierInv
  <2> QED BY <2>2, <1>5, <1>3 DEF PastLiterals, Past
<1> QED BY <1>5, <1>6, <1>7

\* Two lanes that are about to write never write the same byte.
LEMMA WritesApart ==
  ASSUME IInv, NEW l \in Lanes, NEW m \in Lanes, l # m, NEW p \in Writes(l), p \in Writes(m)
  PROVE  FALSE
<1>1. ParserTyped /\ ScriptInv /\ LaneInv /\ LaneOk(l) /\ LaneOk(m) BY DEF IInv, LaneInv
<1>2. lane[l].pc \in {"literals", "match"} /\ lane[m].pc \in {"literals", "match"} BY Touches
<1>3. lane[l].calls \in Nat /\ lane[m].calls \in Nat /\ lane[l].i \in Nat /\ lane[m].i \in Nat
  BY <1>1, LaneTyped
<1>4. lane[l].calls = lane[m].calls /\ lane[l].pc = lane[m].pc
  <2>1. CASE lane[l].calls <= lane[m].calls BY <2>1, <1>2, WritersTogether
  <2>2. CASE lane[m].calls <= lane[l].calls BY <2>2, <1>2, WritersTogether
  <2> QED BY <2>1, <2>2, <1>3
<1>5. PICK k \in Calls : k = lane[l].calls /\ k = lane[m].calls BY <1>4, Touches
<1>6. El(k).lit_dst \in Nat /\ El(k).match_dst \in Nat BY <1>1, Element
<1>7. lane[l].i = lane[m].i
  <2>1. CASE lane[l].pc = "literals"
    <3>1. p = El(k).lit_dst + lane[l].i /\ p = El(k).lit_dst + lane[m].i
      BY <2>1, <1>4, <1>5, Touches
    <3> QED BY <3>1, <1>3, <1>6
  <2>2. CASE lane[l].pc = "match"
    <3>1. p = El(k).match_dst + lane[l].i /\ p = El(k).match_dst + lane[m].i
      BY <2>2, <1>4, <1>5, Touches
    <3> QED BY <3>1, <1>3, <1>6
  <2> QED BY <2>1, <2>2, <1>2
<1>8. lane[l].i % WaveSize = l /\ lane[m].i % WaveSize = m BY <1>1 DEF LaneOk
<1> QED BY <1>7, <1>8

\* A lane reads nothing another lane is about to write.
LEMMA ReadsApart ==
  ASSUME IInv, NEW l \in Lanes, NEW m \in Lanes, NEW p \in Reads(m)
  PROVE  p \in DOMAIN dst /\ p \notin Writes(l)
<1>1. ParserTyped /\ ScriptInv /\ LaneInv /\ LaneOk(m) BY DEF IInv, LaneInv
<1>2. /\ lane[m].pc = "match" /\ lane[m].i < Current(m).match_len
      /\ p = SourceOf(Current(m), lane[m].i)
  BY DEF Reads
<1>3. lane[m].calls \in Calls /\ Taken(lane[m].calls) /\ Current(m) = El(lane[m].calls)
  BY <1>1, <1>2, AtElement DEF InElement
<1> PICK k \in Calls : k = lane[m].calls BY <1>3
<1>4. lane[m].i \in Nat /\ El(k).match_len > 0 /\ lane[m].calls \in Nat /\ lane[l].calls \in Nat
  <2>1. lane[m].calls > 0 BY <1>1, <1>2, AtElement
  <2>2. El(k).match_len > 0 BY <1>1, <1>2, <1>3, <2>1 DEF LaneOk
  <2> QED BY <1>1, <2>2, LaneTyped
<1>5. p \in Nat /\ p < Mid(k) BY <1>1, <1>2, <1>3, <1>4, SourceBelow
<1>6. PastSync1(m, k) BY <1>2 DEF PastSync1, Past
<1>7. p \in DOMAIN dst BY <1>3, <1>5, <1>6, Covered
<1>8. ASSUME p \in Writes(l) PROVE FALSE
  <2>1. lane[l].pc \in {"literals", "match"} BY <1>8, Touches
  <2>2. lane[l].calls = lane[m].calls /\ lane[l].pc = lane[m].pc
    <3>1. CASE lane[l].calls <= lane[m].calls BY <3>1, <1>2, <2>1, WritersTogether
    <3>2. CASE lane[m].calls <= lane[l].calls BY <3>2, <1>2, <2>1, WritersTogether
    <3> QED BY <3>1, <3>2, <1>4
  <2>3. Mid(k) <= p BY <1>2, <1>8, <2>2, Touches
  <2>4. Mid(k) \in Nat BY <1>1, <1>3, Regions
  <2> QED BY <1>5, <2>3, <2>4
<1> QED BY <1>7, <1>8

LEMMA RaceFreeInv == IInv => RaceFree
<1> SUFFICES ASSUME IInv PROVE RaceFree OBVIOUS
<1>1. ASSUME NEW l \in Lanes, NEW m \in Lanes, l # m
      PROVE  Writes(l) \cap (Writes(m) \cup Reads(m)) = {}
  <2>1. ASSUME NEW p \in Writes(l), p \in Writes(m) \cup Reads(m) PROVE FALSE
    BY <1>1, <2>1, WritesApart, ReadsApart
  <2> QED BY <2>1
<1>2. ASSUME NEW l \in Lanes PROVE Reads(l) \subseteq DOMAIN dst BY ReadsApart
<1> QED BY <1>1, <1>2 DEF RaceFree

\* No two lanes race for a byte of the destination and no match reads a byte that
\* is not yet written, for every wave size, chunk and answer of a parser: the two
\* barriers of the loop body (chunk_decode.cuh:186, 224) are enough.
THEOREM RaceFreeHolds == Spec => []RaceFree
BY Invariance, RaceFreeInv, PTL

\* When all lanes have left an accepted chunk, each has passed every element.
LEMMA AllPast ==
  ASSUME IInv, Left, record.status = "OK"
  PROVE  /\ Len(script) \in Calls /\ script[Len(script)].outcome = "done"
         /\ record.bytes_written = dst_pos
         /\ \A k \in Calls : Taken(k)
         /\ \A l \in Lanes, k \in Calls : PastLiterals(l, k) /\ PastSync1(l, k) /\ PastMatch(l, k)
<1>1. ParserTyped /\ ScriptInv /\ LaneInv /\ RecordInv BY DEF IInv
<1>2. Len(script) \in Nat BY <1>1 DEF ParserTyped
<1>3. ASSUME NEW l \in Lanes
      PROVE  /\ lane[l].calls = Len(script) /\ Len(script) \in Calls /\ lane[l].pc = "left"
             /\ lane[l].status = IF Taken(Len(script)) THEN "OK" ELSE "REJECTED"
             /\ script[Len(script)].outcome # "more"
  <2>1. lane[l].pc = "left" BY DEF Left
  <2>2. lane[l].calls \in Calls /\ lane[l].calls > 0 BY <1>1, <2>1, AtElement
  <2>3. /\ script[lane[l].calls].outcome # "more"
        /\ lane[l].status = IF Taken(lane[l].calls) THEN "OK" ELSE "REJECTED"
    BY <1>1, <2>1, <2>2 DEF LaneInv, LaneOk
  <2>4. lane[l].calls = Len(script) BY <1>1, <1>2, <2>2, <2>3 DEF ScriptInv, Calls
  <2> QED BY <2>1, <2>2, <2>3, <2>4
<1>4. 0 \in Lanes BY KernelAssumption DEF Lanes
<1>5. record = [status |-> lane[0].status,
                bytes_written |-> IF lane[0].status = "OK"
                                  THEN script[lane[0].calls].dst_pos ELSE 0]
  BY <1>1, <1>3, <1>4 DEF RecordInv
<1>6. lane[0].status = "OK" /\ record.bytes_written = script[Len(script)].dst_pos
  BY <1>3, <1>4, <1>5
<1>7. Taken(Len(script)) /\ Len(script) \in Calls /\ script[Len(script)].outcome # "more"
  BY <1>3, <1>4, <1>6
<1>8. script[Len(script)].outcome = "done"
  <2>1. script[Len(script)] \in Answers BY <1>1, <1>7, Element
  <2> QED BY <2>1, <1>7 DEF Answers, Taken
<1>9. script[Len(script)].dst_pos = dst_pos
  BY <1>1, <1>2, <1>7 DEF ScriptInv, Calls
<1>10. \A k \in Calls : k = Len(script) \/ script[k].outcome = "more"
  BY <1>1, <1>2 DEF ScriptInv, Calls
<1>11. \A k \in Calls : Taken(k) BY <1>7, <1>10 DEF Taken
<1>12. ASSUME NEW l \in Lanes, NEW k \in Calls
       PROVE  PastLiterals(l, k) /\ PastSync1(l, k) /\ PastMatch(l, k)
  <2>1. lane[l].calls = Len(script) /\ lane[l].pc = "left" BY <1>3
  <2>2. Len(script) > k \/ Len(script) = k BY <1>2 DEF Calls
  <2> QED BY <2>1, <2>2 DEF PastLiterals, PastSync1, PastMatch, Past
<1> QED BY <1>6, <1>7, <1>8, <1>9, <1>11, <1>12

LEMMA SequentialInv == IInv => OutputIsSequential
<1> SUFFICES ASSUME IInv PROVE OutputIsSequential OBVIOUS
<1>1. ParserTyped /\ ScriptInv /\ LaneInv /\ DataInv BY DEF IInv
<1>2. ASSUME NEW l \in Lanes, lane[l].pc = "exit" PROVE lane[l].done \/ lane[l].status # "OK"
  <2>1. lane[l].calls \in Calls /\ lane[l].calls > 0 BY <1>1, <1>2, AtElement
  <2>2. script[lane[l].calls].outcome \in {"more", "done", "rejected"}
    <3>1. script[lane[l].calls] \in Answers BY <1>1, <2>1, Element
    <3> QED BY <3>1 DEF Answers
  <2>3. /\ script[lane[l].calls].outcome # "more"
        /\ lane[l].done = (script[lane[l].calls].outcome = "done")
        /\ lane[l].status = IF Taken(lane[l].calls) THEN "OK" ELSE "REJECTED"
    BY <1>1, <1>2, <2>1 DEF LaneInv, LaneOk
  <2>4. CASE script[lane[l].calls].outcome = "done" BY <2>3, <2>4
  <2>5. CASE script[lane[l].calls].outcome = "rejected"
    <3>1. lane[l].status = "REJECTED" BY <2>3, <2>5 DEF Taken
    <3> QED BY <3>1
  <2> QED BY <2>2, <2>3, <2>4, <2>5
<1>3. ASSUME Left, record.status = "OK"
      PROVE  /\ DOMAIN dst = 0..record.bytes_written - 1
             /\ \A k \in DOMAIN script :
                  LET e == script[k].element IN
                  /\ \A i \in 0..e.lit_len - 1 : dst[e.lit_dst + i] = e.lit_src + i
                  /\ \A i \in 0..e.match_len - 1 :
                       dst[e.match_dst + i] = dst[e.match_dst + i - e.off]
  <2>1. /\ Len(script) \in Calls /\ script[Len(script)].outcome = "done"
        /\ record.bytes_written = dst_pos
        /\ \A k \in Calls : Taken(k)
        /\ \A l \in Lanes, k \in Calls : PastLiterals(l, k) /\ PastSync1(l, k) /\ PastMatch(l, k)
    BY <1>3, AllPast
  <2>2. DOMAIN script = Calls BY <1>1 DEF ParserTyped, Calls
  <2>3. DOMAIN dst = 0..record.bytes_written - 1
    <3>1. dst_pos \in Nat BY <1>1 DEF ParserTyped
    <3>2. Mid(Len(script)) = dst_pos
      <4>1. El(Len(script)).match_len = 0 /\ script[Len(script)].dst_pos = dst_pos
        <5>1. Len(script) # 0 BY <2>1 DEF Calls
        <5> QED BY <1>1, <2>1, <5>1 DEF ScriptInv
      <4>2. Mid(Len(script)) \in Nat /\ script[Len(script)].dst_pos = Mid(Len(script)) + 0
        BY <1>1, <2>1, <4>1, Regions
      <4> QED BY <4>1, <4>2
    <3>3. 0 \in Lanes BY KernelAssumption DEF Lanes
    <3>4. \A p \in Nat : p < dst_pos => p \in DOMAIN dst BY <2>1, <3>2, <3>3, Covered
    <3>5. \A p \in DOMAIN dst : p \in Nat /\ p < dst_pos BY <1>1 DEF DataInv, WrittenInside
    <3>6. \A p : p \in 0..dst_pos - 1 <=> p \in Nat /\ p < dst_pos BY <3>1
    <3>7. DOMAIN dst = 0..dst_pos - 1 BY <3>4, <3>5, <3>6
    <3>8. record.bytes_written = dst_pos BY <2>1
    <3> QED BY <3>7, <3>8
  <2>4. ASSUME NEW k \in Calls, NEW i \in 0..El(k).lit_len - 1
        PROVE  dst[El(k).lit_dst + i] = El(k).lit_src + i
    <3>1. El(k).lit_len \in Nat BY <1>1, Element
    <3>2. i \in Nat /\ i < El(k).lit_len BY <3>1
    <3>3. i % WaveSize \in Lanes BY <3>2, ModRange, KernelAssumption DEF Lanes
    <3>4. HasLiteral(i % WaveSize, k, i) BY <2>1, <3>3 DEF HasLiteral
    <3> QED BY <1>1, <2>1, <3>2, <3>4 DEF DataInv, LiteralsInPlace
  <2>5. ASSUME NEW k \in Calls, NEW j \in Nat, j < El(k).match_len
        PROVE  dst[El(k).match_dst + j] = dst[SourceOf(El(k), j)]
    <3>1. j % WaveSize \in Lanes BY ModRange, KernelAssumption DEF Lanes
    <3>2. HasMatch(j % WaveSize, k, j) BY <2>1, <3>1 DEF HasMatch
    <3> QED BY <1>1, <2>1, <2>5, <3>2 DEF DataInv, MatchesInPlace
  <2>6. ASSUME NEW k \in Calls, NEW i \in 0..El(k).match_len - 1
        PROVE  dst[El(k).match_dst + i] = dst[El(k).match_dst + i - El(k).off]
    <3>1. El(k).match_len \in Nat /\ El(k).match_dst \in Nat /\ El(k).off \in Nat
      BY <1>1, Element
    <3>2. i \in Nat /\ i < El(k).match_len /\ El(k).match_len > 0 BY <3>1
    <3>3. El(k).off \in Nat \ {0} BY <1>1, <2>1, <3>2, Regions
    <3> PICK o \in Nat \ {0} : o = El(k).off BY <3>3
    <3>4. CASE i < o
      <4>1. i % o = i BY <3>2, <3>4, ModOfLane
      <4>2. SourceOf(El(k), i) = El(k).match_dst - o + i BY <4>1 DEF SourceOf
      <4>3. El(k).match_dst - o + i = El(k).match_dst + i - o BY <3>1, <3>2
      <4> QED BY <4>2, <4>3, <2>5, <3>2
    <3>5. CASE i >= o
      <4> PICK j \in Nat : j = i - o BY <3>2, <3>5
      <4>1. i = j + o /\ j < El(k).match_len BY <3>1, <3>2
      <4>2. i % o = j % o BY <4>1, ModNext
      <4>3. SourceOf(El(k), i) = SourceOf(El(k), j) BY <4>2 DEF SourceOf
      <4>4. dst[El(k).match_dst + j] = dst[SourceOf(El(k), j)] BY <2>5, <4>1
      <4>5. dst[El(k).match_dst + i] = dst[SourceOf(El(k), i)] BY <2>5, <3>2
      <4>6. El(k).match_dst + j = El(k).match_dst + i - o BY <3>1, <4>1
      <4> QED BY <4>3, <4>4, <4>5, <4>6
    <3> QED BY <3>2, <3>4, <3>5
  <2> QED BY <2>2, <2>3, <2>4, <2>6 DEF El
<1> QED BY <1>2, <1>3 DEF OutputIsSequential

\* A chunk whose record says OK holds, byte for byte, what expanding its elements
\* one after the other would have put there, and no byte more; and no lane leaves
\* the loop without a verdict of the parser, whatever fuel it started with
\* (chunk_decode.cuh:159).
THEOREM OutputIsSequentialHolds == Spec => []OutputIsSequential
BY Invariance, SequentialInv, PTL

-----------------------------------------------------------------------------
(* Any parser in place of Answer.                                          *)

\* Lane l makes a call no lane has made before, and Ask is the parser's step.
Asks(Ask, l) ==
  /\ lane[l].pc = "parse" /\ lane[l].calls = Len(script) /\ outcome = "more"
  /\ Ask /\ Recorded /\ Received(l, lane[l].calls + 1)

\* The wave driven by a parser whose step is Ask.
Driven(Ask) == \E l \in Lanes :
  \/ Asks(Ask, l)
  \/ lane[l].calls < Len(script) /\ Parse(l)
  \/ CopyLiteral(l) \/ Sync1(l) \/ CopyMatch(l) \/ Sync2(l) \/ Leave(l)

LEMMA SeamAnswers ==
  ASSUME Handed = Parser!Elements, Parser!Next
  PROVE  Answer
BY DEF Parser!Next, Parser!Element, Parser!Terminal, Parser!HandBack, Answer

LEMMA DrivenStep ==
  ASSUME IInv, Handed = Parser!Elements, NEW l \in Lanes, Asks(Parser!Next, l)
  PROVE  Parse(l)
<1>1. lane[l].calls \in Nat /\ Len(script) \in Nat BY LaneTyped DEF IInv, ParserTyped
<1>2. ~(lane[l].calls < Len(script)) BY <1>1 DEF Asks
<1>3. Answer BY SeamAnswers DEF Asks
<1> QED BY <1>2, <1>3 DEF Asks, Parse, Called

\* A wave may be driven by any parser whose steps the seam allows, whatever its
\* headers cost and its empty halves hold: race free, and sequential in its output
\* (the promise of src/chunk_decode.cuh:30). The block parsers are two of them.
THEOREM KernelTakesAnyParser ==
  ASSUME NEW ACTION Ask, Handed = Parser!Elements
  PROVE  Init /\ [][Driven(Ask)]_vars /\ [][Ask => Parser!Next]_vars
           => [](RaceFree /\ OutputIsSequential)
<1>1. Init => IInv BY InitInv
<1>2. IInv /\ [Driven(Ask)]_vars /\ [Ask => Parser!Next]_vars => IInv'
  <2>1. CASE IInv /\ UNCHANGED vars BY <2>1, NextInv
  <2>2. ASSUME IInv, Ask => Parser!Next, NEW l \in Lanes, Asks(Ask, l) PROVE IInv'
    <3>1. Asks(Parser!Next, l) BY <2>2 DEF Asks
    <3> QED BY <2>2, <3>1, DrivenStep, ParseInv
  <2>3. ASSUME IInv, NEW l \in Lanes,
               Parse(l) \/ CopyLiteral(l) \/ Sync1(l) \/ CopyMatch(l) \/ Sync2(l) \/ Leave(l)
        PROVE  IInv'
    BY <2>3, ParseInv, CopyLiteralInv, Sync1Inv, CopyMatchInv, Sync2Inv, LeaveInv
  <2> QED BY <2>1, <2>2, <2>3 DEF Driven
<1>3. IInv => RaceFree /\ OutputIsSequential BY RaceFreeInv, SequentialInv
<1> QED BY <1>1, <1>2, <1>3, PTL

-----------------------------------------------------------------------------
(* The same of every launch, whoever makes it.                             *)

LEMMA KernelStep == LaunchesNext => [Next]_vars
BY DEF LaunchesNext, LaunchNext, DirectLaunch, Submission, WaveBody, BlockBody, ThreadBody,
       NextChunk, Returned, BenchBegin, BenchStep, BenchOver, launchVars, Next

LEMMA KernelInvariance == LaunchesSpec => []IInv
<1>1. LaunchesInit => Init BY DEF LaunchesInit, LaunchInit
<1>2. IInv /\ [LaunchesNext]_LaunchesVars => IInv'
  BY KernelStep, NextInv DEF LaunchesVars, launchVars, vars
<1> QED BY <1>1, <1>2, InitInv, PTL DEF LaunchesSpec

\* In every launch, no two lanes of a wave touch the same byte of the destination when
\* one of them writes it, and a match reads only bytes already written.
THEOREM LaunchRaceFree == LaunchesSpec => []RaceFree
BY KernelInvariance, RaceFreeInv, PTL

\* In every launch, a chunk answered OK is the expansion of its elements one byte
\* after the other, whatever the order in which the lanes copied.
THEOREM LaunchIsSequential == LaunchesSpec => []OutputIsSequential
BY KernelInvariance, SequentialInv, PTL

-----------------------------------------------------------------------------
(* The threads of a Zstd block. Between two releases of the barrier every  *)
(* thread walks one interval of the program, and all walk the same one:    *)
(* they took their turns on flags nobody writes meanwhile.                 *)

Sections == {"setup", "header", "block", "decode", "advance", "tail", "result"}
Places == Sections \cup {"fill", "move", "exit"}
Phases == Block!Waiting \cup {"in", "out", "branch", "start", "read", "write", "exit"}
Copies == [dst : {0}, src : Nat, count : 0..DstSize, rle : BOOLEAN]
Frames == [status : {"OK", "CORRUPT_INPUT"}, compressed : BOOLEAN, last_block : BOOLEAN,
           copy : Copies]
Bytes == 0..DstSize - 1

BlockTyped ==
  /\ place \in [Block!Threads -> Places] /\ phase \in [Block!Threads -> Phases]
  /\ step \in [Block!Threads -> Nat] /\ chunk \in [Block!Threads -> Nat]
  /\ copy \in [Block!Threads -> Copies] /\ moved \in [Block!Threads -> Nat]
  /\ byte \in [Block!Threads -> Int] /\ mem \in [Bytes -> Int]
  /\ frame \in Frames
  /\ frame.compressed => frame.copy.src + frame.copy.count <= DstSize

\* Thread t is at a place of the program, in its block and its chunk.
Stands(t, p, ph, k, c) == place[t] = p /\ phase[t] = ph /\ step[t] = k /\ chunk[t] = c

\* The copy the frame asks for is made, the thread's share of it, or what the move
\* has brought down below byte b.
Copied(i) == mem[i] = IF frame.compressed THEN frame.copy.src + i
                      ELSE Block!SourceByte(i, frame.copy.rle)
CopyDone == \A i \in 0..frame.copy.count - 1 : Copied(i)
Filled(t) == \A i \in 0..frame.copy.count - 1 : i % kZstdBlockThreads = t => Copied(i)
Below(b) == \A a \in Bytes : mem[a] = IF a < b /\ a < frame.copy.count THEN a + frame.copy.src ELSE a

Base(m) == m * kZstdBlockThreads

\* What a thread may be doing between two barriers: in step m of a move before the
\* barrier between read and write, and behind it.
ReadsAt(t, k, c, m) ==
  /\ copy[t] = frame.copy /\ moved[t] = m
  /\ \/ Stands(t, "move", "read", k, c)
     \/ /\ Stands(t, "move", "mid", k, c) /\ m # Block!MoveSteps(t)
        /\ Base(m) + t < frame.copy.count => byte[t] = frame.copy.src + Base(m) + t
     \/ Stands(t, "advance", "before", k, c) /\ m = Block!MoveSteps(t)

WritesAt(t, k, c, m) ==
  /\ copy[t] = frame.copy
  /\ \/ /\ Stands(t, "move", "write", k, c) /\ moved[t] = m
        /\ Base(m) + t < frame.copy.count => byte[t] = frame.copy.src + Base(m) + t
     \/ /\ Stands(t, "move", "end", k, c) /\ moved[t] = m + 1
        /\ Base(m) + t < frame.copy.count => mem[Base(m) + t] = frame.copy.src + Base(m) + t

\* Behind the section s of block k of chunk c, on the flags thread 0 left.
Reached(t, s, k, c) ==
  LET OK == frame.status = "OK" IN
  \/ s = "setup" /\ Stands(t, "header", "before", k, c)
  \/ s = "header" /\ Stands(t, IF OK THEN "block" ELSE "result", "before", 0, c)
  \/ s = "block" /\ ~OK /\ Stands(t, "result", "before", k, c)
  \/ s = "block" /\ OK /\ frame.compressed /\ Stands(t, "decode", "before", k, c)
  \/ s = "block" /\ OK /\ ~frame.compressed /\ Stands(t, "advance", "before", k, c) /\ Filled(t)
  \/ s = "decode" /\ ~OK /\ Stands(t, "result", "before", k, c)
  \/ /\ s = "advance"
     /\ Stands(t, IF ~frame.last_block /\ k + 1 < BlockFuel THEN "block" ELSE "tail",
               "before", k + 1, c)
  \/ s = "tail" /\ Stands(t, "result", "before", k, c)
  \/ s = "result" /\ c < BlockFrames /\ Stands(t, "setup", "before", 0, c + 1)
  \/ s = "result" /\ ~(c < BlockFrames) /\ Stands(t, "exit", "exit", 0, c + 1)
OnTheWay(t, s, k, c) ==
  \/ Stands(t, s, "out", k, c)
  \/ /\ frame.status = "OK" /\ s = "block"
     /\ \/ Stands(t, "block", "branch", k, c)
        \/ ~frame.compressed /\ Stands(t, "fill", "start", k, c)
  \/ /\ frame.status = "OK" /\ s = "decode"
     /\ Stands(t, "move", "start", k, c) \/ ReadsAt(t, k, c, 0)

\* The intervals between two barriers: all have come to a section, thread 0 is in it,
\* they leave it, and the two halves of a step of a move.
Gathered(s, k, c) ==
  /\ \A t \in Block!Threads : Stands(t, s, "before", k, c)
  /\ s = "decode" => frame.compressed
  /\ s = "advance" => CopyDone
InsideOf(s, k, c) ==
  /\ \A t \in Block!Threads : Stands(t, s, "after", k, c) \/ (t = 0 /\ Stands(t, s, "in", k, c))
  /\ s = "decode" => frame.compressed
  /\ s = "decode" /\ phase[0] = "after" /\ frame.status = "OK" => Below(0)
  /\ s = "advance" => CopyDone
Leaving(s, k, c) ==
  /\ \A t \in Block!Threads : OnTheWay(t, s, k, c) \/ Reached(t, s, k, c)
  /\ s = "decode" => frame.compressed /\ (frame.status = "OK" => Below(0))
Reading(k, c, m) ==
  /\ \A t \in Block!Threads : ReadsAt(t, k, c, m)
  /\ frame.compressed /\ Below(Base(m))
Writing(k, c, m) ==
  /\ \A t \in Block!Threads : WritesAt(t, k, c, m)
  /\ frame.compressed
  /\ \A a \in Bytes :
       /\ a < Base(m) /\ a < frame.copy.count => mem[a] = a + frame.copy.src
       /\ a >= Base(m) + kZstdBlockThreads \/ a >= frame.copy.count => mem[a] = a

Interval == \E s \in Sections, k \in Nat, c \in Nat, m \in Nat :
  Gathered(s, k, c) \/ InsideOf(s, k, c) \/ Leaving(s, k, c) \/ Reading(k, c, m) \/ Writing(k, c, m)
BlockInv == BlockTyped /\ Interval

LEMMA BlockConsts ==
  /\ kZstdBlockThreads \in Nat \ {0} /\ BlockFrames \in Nat \ {0} /\ BlockFuel \in Nat \ {0}
  /\ DstSize \in Nat /\ CopyLens \subseteq 0..DstSize /\ MoveGaps \subseteq Nat
BY LaunchAssumption DEF Block!ThreadsConstants

LEMMA ThreadZero == 0 \in Block!Threads
BY BlockConsts DEF Block!Threads

\* A thread a step does not touch.
Still(u) ==
  /\ place'[u] = place[u] /\ phase'[u] = phase[u] /\ step'[u] = step[u] /\ chunk'[u] = chunk[u]
  /\ copy'[u] = copy[u] /\ moved'[u] = moved[u] /\ byte'[u] = byte[u]
StillBut(t) == \A u \in Block!Threads : u # t => Still(u)

LEMMA BlockInit == Block!Init => BlockInv
<1> SUFFICES ASSUME Block!Init PROVE BlockInv OBVIOUS
<1>1. Block!NoCopy \in Copies BY BlockConsts DEF Block!NoCopy, Copies
<1>2. /\ place = [t \in Block!Threads |-> "setup"] /\ phase = [t \in Block!Threads |-> "before"]
      /\ step = [t \in Block!Threads |-> 0] /\ chunk = [t \in Block!Threads |-> 1]
      /\ copy = [t \in Block!Threads |-> Block!NoCopy] /\ moved = [t \in Block!Threads |-> 0]
      /\ byte = [t \in Block!Threads |-> -1]
      /\ frame = [status |-> "OK", compressed |-> FALSE, last_block |-> FALSE, copy |-> Block!NoCopy]
      /\ mem = [a \in Bytes |-> -1]
  BY DEF Block!Init, Block!Unwritten, Bytes
<1>3. frame \in Frames /\ ~frame.compressed BY <1>1, <1>2 DEF Frames
<1>4. BlockTyped
  <2>1. "setup" \in Places /\ "before" \in Phases
    BY DEF Places, Sections, Phases, Block!Waiting
  <2> QED BY <1>1, <1>2, <1>3, <2>1 DEF BlockTyped
<1>5. \A t \in Block!Threads : Stands(t, "setup", "before", 0, 1) BY <1>2 DEF Stands
<1>6. Gathered("setup", 0, 1) BY <1>5 DEF Gathered
<1>7. "setup" \in Sections BY DEF Sections
<1> QED BY <1>4, <1>6, <1>7 DEF BlockInv, Interval

\* What going somewhere does, to the thread that goes and to the others.
LEMMA Went ==
  ASSUME BlockTyped, NEW t \in Block!Threads, NEW p \in Places, NEW ph \in Phases,
         Block!GoTo(t, p, ph)
  PROVE  /\ place' \in [Block!Threads -> Places] /\ phase' \in [Block!Threads -> Phases]
         /\ place'[t] = p /\ phase'[t] = ph
         /\ \A u \in Block!Threads : u # t => place'[u] = place[u] /\ phase'[u] = phase[u]
BY DEF BlockTyped, Block!GoTo

LEMMA Followed ==
  ASSUME BlockTyped, NEW t \in Block!Threads, NEW p \in Places, NEW ph \in Phases,
         Block!GoTo(t, p, ph), NEW k \in Nat, NEW c \in Nat,
         step' = [step EXCEPT ![t] = k], chunk' = [chunk EXCEPT ![t] = c],
         UNCHANGED <<copy, moved, byte, frame, mem>>
  PROVE  BlockTyped' /\ Stands(t, p, ph, k, c)' /\ StillBut(t)
<1>1. /\ step' \in [Block!Threads -> Nat] /\ chunk' \in [Block!Threads -> Nat]
      /\ step'[t] = k /\ chunk'[t] = c
      /\ \A u \in Block!Threads : u # t => step'[u] = step[u] /\ chunk'[u] = chunk[u]
  BY DEF BlockTyped
<1>2. BlockTyped' BY <1>1, Went DEF BlockTyped
<1> QED BY <1>1, <1>2, Went DEF Stands, StillBut, Still

\* A step of one thread keeps the others where they were in the interval.
LEMMA OthersOnTheWay ==
  ASSUME NEW u \in Block!Threads, Still(u), UNCHANGED frame, NEW s, NEW k, NEW c,
         OnTheWay(u, s, k, c)
  PROVE  OnTheWay(u, s, k, c)'
BY DEF OnTheWay, ReadsAt, Stands, Still, Block!MoveSteps

LEMMA OthersReached ==
  ASSUME NEW u \in Block!Threads, Still(u), UNCHANGED frame, NEW s, NEW k, NEW c,
         Reached(u, s, k, c), Filled(u) => Filled(u)'
  PROVE  Reached(u, s, k, c)'
BY DEF Reached, Stands, Still

LEMMA KeepsLeaving ==
  ASSUME NEW s \in Sections, NEW k \in Nat, NEW c \in Nat, Leaving(s, k, c),
         NEW t \in Block!Threads, StillBut(t), UNCHANGED <<frame, mem>>, BlockTyped',
         (OnTheWay(t, s, k, c) \/ Reached(t, s, k, c))'
  PROVE  BlockInv'
<1>1. \A u : Filled(u) => Filled(u)' BY DEF Filled, Copied
<1>2. ASSUME NEW u \in Block!Threads
      PROVE  (OnTheWay(u, s, k, c) \/ Reached(u, s, k, c))'
  <2>1. CASE u = t BY <2>1
  <2>2. CASE u # t
    <3>1. Still(u) BY <2>2 DEF StillBut
    <3> QED BY <3>1, <1>1, OthersOnTheWay, OthersReached DEF Leaving
  <2> QED BY <2>1, <2>2
<1>3. Below(0) => Below(0)' BY DEF Below
<1>4. Leaving(s, k, c)' BY <1>2, <1>3 DEF Leaving
<1> QED BY <1>4 DEF BlockInv, Interval

\* Whoever is behind a section shares the interval with all the others.
LEMMA OutIsLeaving ==
  ASSUME BlockInv, NEW t \in Block!Threads, phase[t] \in {"out", "branch", "start"}
  PROVE  \E s \in Sections, k \in Nat, c \in Nat :
           /\ Leaving(s, k, c) /\ OnTheWay(t, s, k, c) /\ step[t] = k /\ chunk[t] = c
           /\ phase[t] = "out" => place[t] = s
           /\ phase[t] = "branch" => s = "block" /\ frame.status = "OK"
           /\ phase[t] = "start" => /\ frame.status = "OK"
                                    /\ \/ s = "block" /\ place[t] = "fill" /\ ~frame.compressed
                                       \/ s = "decode" /\ place[t] = "move"
<1>1. PICK s \in Sections, k \in Nat, c \in Nat, m \in Nat :
        Gathered(s, k, c) \/ InsideOf(s, k, c) \/ Leaving(s, k, c)
        \/ Reading(k, c, m) \/ Writing(k, c, m)
  BY DEF BlockInv, Interval
<1>2. ~Gathered(s, k, c) BY DEF Gathered, Stands
<1>3. ~InsideOf(s, k, c) BY DEF InsideOf, Stands
<1>4. ~Reading(k, c, m) BY DEF Reading, ReadsAt, Stands
<1>5. ~Writing(k, c, m) BY DEF Writing, WritesAt, Stands
<1>6. Leaving(s, k, c) BY <1>1, <1>2, <1>3, <1>4, <1>5
<1>7. ~Reached(t, s, k, c) BY DEF Reached, Stands
<1>8. OnTheWay(t, s, k, c) BY <1>6, <1>7 DEF Leaving
<1>9. /\ step[t] = k /\ chunk[t] = c
      /\ phase[t] = "out" => place[t] = s
      /\ phase[t] = "branch" => s = "block" /\ frame.status = "OK"
      /\ phase[t] = "start" => /\ frame.status = "OK"
                               /\ \/ s = "block" /\ place[t] = "fill" /\ ~frame.compressed
                                  \/ s = "decode" /\ place[t] = "move"
  BY <1>8 DEF OnTheWay, ReadsAt, Stands
<1> QED BY <1>6, <1>8, <1>9

LEMMA KeepsCounters ==
  ASSUME BlockTyped, NEW t \in Block!Threads
  PROVE  /\ step[t] \in Nat /\ chunk[t] \in Nat
         /\ UNCHANGED step => step' = [step EXCEPT ![t] = step[t]]
         /\ UNCHANGED chunk => chunk' = [chunk EXCEPT ![t] = chunk[t]]
BY DEF BlockTyped

\* Following the flags goes on through the interval, or ends it for this thread.
LEMMA Follows ==
  ASSUME BlockInv, NEW t \in Block!Threads, NEW s \in Sections, NEW k \in Nat, NEW c \in Nat,
         Leaving(s, k, c), NEW p \in Places, NEW ph \in Phases, Block!GoTo(t, p, ph),
         NEW k2 \in Nat, NEW c2 \in Nat,
         step' = [step EXCEPT ![t] = k2], chunk' = [chunk EXCEPT ![t] = c2],
         UNCHANGED <<copy, moved, byte, frame, mem>>,
         Stands(t, p, ph, k2, c2)' => (OnTheWay(t, s, k, c) \/ Reached(t, s, k, c))'
  PROVE  BlockInv'
<1>1. BlockTyped BY DEF BlockInv
<1>2. BlockTyped' /\ Stands(t, p, ph, k2, c2)' /\ StillBut(t) BY <1>1, Followed
<1> QED BY <1>2, KeepsLeaving

LEMMA FollowInv == ASSUME BlockInv, NEW t \in Block!Threads, Block!Follow(t) PROVE BlockInv'
<1>0. UNCHANGED <<copy, moved, byte, frame, mem>> /\ BlockTyped
  BY DEF Block!Follow, Block!copying, BlockInv
<1>1. /\ step[t] \in Nat /\ chunk[t] \in Nat /\ step[t] + 1 \in Nat /\ chunk[t] + 1 \in Nat
      /\ UNCHANGED step => step' = [step EXCEPT ![t] = step[t]]
      /\ UNCHANGED chunk => chunk' = [chunk EXCEPT ![t] = chunk[t]]
  <2>1. \A n \in Nat : n + 1 \in Nat OBVIOUS
  <2> QED BY <1>0, <2>1, KeepsCounters
<1>2. /\ Places = {"setup", "header", "block", "decode", "advance", "tail", "result",
                    "fill", "move", "exit"}
      /\ {"before", "out", "branch", "start", "read", "exit"} \subseteq Phases
  BY DEF Places, Sections, Phases, Block!Waiting
<1>3. \A p : Block!ToSection(t, p) => Block!GoTo(t, p, "before")
  BY DEF Block!ToSection, Block!Enter
<1>4. CASE Block!AfterSetup(t)
  <2>1. /\ Block!GoTo(t, "header", "before") /\ phase[t] = "out" /\ place[t] = "setup"
        /\ UNCHANGED <<step, chunk>>
    BY <1>4, <1>3 DEF Block!AfterSetup, Block!Out
  <2>2. PICK s \in Sections, k \in Nat, c \in Nat :
          Leaving(s, k, c) /\ step[t] = k /\ chunk[t] = c /\ s = "setup"
    BY <2>1, OutIsLeaving
  <2>3. Stands(t, "header", "before", k, c)' => Reached(t, s, k, c)'
    BY <2>2 DEF Reached
  <2> QED BY <1>0, <1>1, <1>2, <2>1, <2>2, <2>3, Follows
<1>5. CASE Block!AfterHeader(t)
  <2>0. PICK p \in Places : p = IF frame.status = "OK" THEN "block" ELSE "result"
    BY <1>2
  <2>1. /\ Block!GoTo(t, p, "before") /\ phase[t] = "out" /\ place[t] = "header"
        /\ step' = [step EXCEPT ![t] = 0] /\ UNCHANGED chunk
    BY <1>5, <1>3, <2>0 DEF Block!AfterHeader, Block!OnStatus, Block!Out
  <2>2. PICK s \in Sections, k \in Nat, c \in Nat :
          Leaving(s, k, c) /\ step[t] = k /\ chunk[t] = c /\ s = "header"
    BY <2>1, OutIsLeaving
  <2>3. Stands(t, p, "before", 0, c)' => Reached(t, s, k, c)'
    BY <1>0, <2>0, <2>2 DEF Reached
  <2>4. /\ 0 \in Nat /\ step' = [step EXCEPT ![t] = 0] /\ chunk' = [chunk EXCEPT ![t] = c]
        /\ Block!GoTo(t, p, "before") /\ "before" \in Phases
    BY <1>1, <1>2, <2>1, <2>2
  <2> QED BY <1>0, <2>2, <2>3, <2>4, Follows
<1>6. CASE Block!AfterBlock(t)
  <2>1. /\ phase[t] = "out" /\ place[t] = "block" /\ UNCHANGED <<step, chunk>>
        /\ \/ frame.status # "OK" /\ Block!GoTo(t, "result", "before")
           \/ frame.status = "OK" /\ Block!GoTo(t, "block", "branch")
    BY <1>6, <1>3 DEF Block!AfterBlock, Block!OnStatus, Block!Out
  <2>2. PICK s \in Sections, k \in Nat, c \in Nat :
          Leaving(s, k, c) /\ step[t] = k /\ chunk[t] = c /\ s = "block"
    BY <2>1, OutIsLeaving
  <2>3. frame.status # "OK" /\ Stands(t, "result", "before", k, c)' => Reached(t, s, k, c)'
    BY <1>0, <2>2 DEF Reached
  <2>4. frame.status = "OK" /\ Stands(t, "block", "branch", k, c)' => OnTheWay(t, s, k, c)'
    BY <1>0, <2>2 DEF OnTheWay
  <2>5. CASE frame.status # "OK"
    BY <1>0, <1>1, <1>2, <2>1, <2>2, <2>3, <2>5, Follows
  <2>6. CASE frame.status = "OK"
    BY <1>0, <1>1, <1>2, <2>1, <2>2, <2>4, <2>6, Follows
  <2> QED BY <2>5, <2>6
<1>7. CASE Block!BranchOnCompressed(t)
  <2>1. /\ phase[t] = "branch" /\ UNCHANGED <<step, chunk>>
        /\ \/ frame.compressed /\ Block!GoTo(t, "decode", "before")
           \/ ~frame.compressed /\ Block!GoTo(t, "fill", "start")
    BY <1>7, <1>3 DEF Block!BranchOnCompressed
  <2>2. PICK s \in Sections, k \in Nat, c \in Nat :
          Leaving(s, k, c) /\ step[t] = k /\ chunk[t] = c /\ s = "block" /\ frame.status = "OK"
    BY <2>1, OutIsLeaving
  <2>3. frame.compressed /\ Stands(t, "decode", "before", k, c)' => Reached(t, s, k, c)'
    BY <1>0, <2>2 DEF Reached
  <2>4. ~frame.compressed /\ Stands(t, "fill", "start", k, c)' => OnTheWay(t, s, k, c)'
    BY <1>0, <2>2 DEF OnTheWay
  <2> QED BY <1>0, <1>1, <1>2, <2>1, <2>2, <2>3, <2>4, Follows
<1>8. CASE Block!AfterDecode(t)
  <2>1. /\ phase[t] = "out" /\ place[t] = "decode" /\ UNCHANGED <<step, chunk>>
        /\ \/ frame.status # "OK" /\ Block!GoTo(t, "result", "before")
           \/ frame.status = "OK" /\ Block!GoTo(t, "move", "start")
    BY <1>8, <1>3 DEF Block!AfterDecode, Block!OnStatus, Block!Out
  <2>2. PICK s \in Sections, k \in Nat, c \in Nat :
          Leaving(s, k, c) /\ step[t] = k /\ chunk[t] = c /\ s = "decode"
    BY <2>1, OutIsLeaving
  <2>3. frame.status # "OK" /\ Stands(t, "result", "before", k, c)' => Reached(t, s, k, c)'
    BY <1>0, <2>2 DEF Reached
  <2>4. frame.status = "OK" /\ Stands(t, "move", "start", k, c)' => OnTheWay(t, s, k, c)'
    BY <1>0, <2>2 DEF OnTheWay
  <2> QED BY <1>0, <1>1, <1>2, <2>1, <2>2, <2>3, <2>4, Follows
<1>9. CASE Block!AfterAdvance(t)
  <2>0. PICK p \in Places :
          p = IF ~frame.last_block /\ step[t] + 1 < BlockFuel THEN "block" ELSE "tail"
    BY <1>2
  <2>1. /\ Block!GoTo(t, p, "before") /\ phase[t] = "out" /\ place[t] = "advance"
        /\ step' = [step EXCEPT ![t] = step[t] + 1] /\ UNCHANGED chunk
    BY <1>9, <1>3, <2>0 DEF Block!AfterAdvance, Block!Out
  <2>2. PICK s \in Sections, k \in Nat, c \in Nat :
          Leaving(s, k, c) /\ step[t] = k /\ chunk[t] = c /\ s = "advance"
    BY <2>1, OutIsLeaving
  <2>3. Stands(t, p, "before", k + 1, c)' => Reached(t, s, k, c)'
    BY <1>0, <2>0, <2>2 DEF Reached
  <2>4. /\ k + 1 \in Nat /\ step' = [step EXCEPT ![t] = k + 1] /\ chunk' = [chunk EXCEPT ![t] = c]
        /\ Block!GoTo(t, p, "before") /\ "before" \in Phases
    BY <1>1, <1>2, <2>1, <2>2
  <2> QED BY <1>0, <2>2, <2>3, <2>4, Follows
<1>10. CASE Block!AfterTail(t)
  <2>1. /\ Block!GoTo(t, "result", "before") /\ phase[t] = "out" /\ place[t] = "tail"
        /\ UNCHANGED <<step, chunk>>
    BY <1>10, <1>3 DEF Block!AfterTail, Block!Out
  <2>2. PICK s \in Sections, k \in Nat, c \in Nat :
          Leaving(s, k, c) /\ step[t] = k /\ chunk[t] = c /\ s = "tail"
    BY <2>1, OutIsLeaving
  <2>3. Stands(t, "result", "before", k, c)' => Reached(t, s, k, c)'
    BY <2>2 DEF Reached
  <2> QED BY <1>0, <1>1, <1>2, <2>1, <2>2, <2>3, Follows
<1>11. CASE Block!AfterResult(t)
  <2>1. /\ phase[t] = "out" /\ place[t] = "result"
        /\ chunk' = [chunk EXCEPT ![t] = chunk[t] + 1] /\ step' = [step EXCEPT ![t] = 0]
        /\ \/ chunk[t] < BlockFrames /\ Block!GoTo(t, "setup", "before")
           \/ ~(chunk[t] < BlockFrames) /\ Block!GoTo(t, "exit", "exit")
    BY <1>11, <1>3 DEF Block!AfterResult, Block!Out
  <2>2. PICK s \in Sections, k \in Nat, c \in Nat :
          Leaving(s, k, c) /\ step[t] = k /\ chunk[t] = c /\ s = "result"
    BY <2>1, OutIsLeaving
  <2>3. c < BlockFrames /\ Stands(t, "setup", "before", 0, c + 1)' => Reached(t, s, k, c)'
    BY <2>2 DEF Reached
  <2>4. ~(c < BlockFrames) /\ Stands(t, "exit", "exit", 0, c + 1)' => Reached(t, s, k, c)'
    BY <2>2 DEF Reached
  <2>5. 0 \in Nat OBVIOUS
  <2> QED BY ZenonT(40), <1>0, <1>1, <1>2, <2>1, <2>2, <2>3, <2>4, <2>5, Follows
<1> QED BY <1>4, <1>5, <1>6, <1>7, <1>8, <1>9, <1>10, <1>11 DEF Block!Follow

-----------------------------------------------------------------------------
(* The copies.                                                             *)

LEMMA FrameCopy ==
  ASSUME BlockTyped
  PROVE  /\ frame.copy \in Copies /\ frame.copy.dst = 0 /\ frame.copy.src \in Nat
         /\ frame.copy.count \in Nat /\ frame.copy.count <= DstSize
         /\ frame.compressed => frame.copy.src + frame.copy.count <= DstSize
BY BlockConsts DEF BlockTyped, Frames, Copies

LEMMA FillInv == ASSUME BlockInv, NEW t \in Block!Threads, Block!Fill(t) PROVE BlockInv'
<1>0. /\ BlockTyped /\ place[t] = "fill" /\ UNCHANGED <<step, chunk, copy, moved, byte, frame>>
      /\ Block!GoTo(t, "advance", "before")
      /\ mem' = [a \in DOMAIN mem |->
                   IF a - frame.copy.dst \in {i \in 0..frame.copy.count - 1 : i % kZstdBlockThreads = t}
                   THEN Block!SourceByte(a - frame.copy.dst, frame.copy.rle) ELSE mem[a]]
  BY DEF BlockInv, Block!Fill, Block!ToSection, Block!Enter, Block!copying
<1>1. PICK s \in Sections, k \in Nat, c \in Nat :
        Leaving(s, k, c) /\ Stands(t, "fill", "start", k, c) /\ frame.status = "OK"
        /\ s = "block" /\ ~frame.compressed
  <2>1. PICK s \in Sections, k \in Nat, c \in Nat, m \in Nat :
          Gathered(s, k, c) \/ InsideOf(s, k, c) \/ Leaving(s, k, c)
          \/ Reading(k, c, m) \/ Writing(k, c, m)
    BY DEF BlockInv, Interval
  <2>2. s # "fill" BY DEF Sections
  <2>3. Leaving(s, k, c)
    BY <1>0, <2>1, <2>2 DEF Gathered, InsideOf, Reading, ReadsAt, Writing, WritesAt, Stands
  <2>4. ~Reached(t, s, k, c) BY <1>0 DEF Reached, Stands
  <2>5. OnTheWay(t, s, k, c) BY <2>3, <2>4 DEF Leaving
  <2> QED BY <1>0, <2>2, <2>3, <2>5 DEF OnTheWay, ReadsAt, Stands
<1>2. /\ mem \in [Bytes -> Int] /\ frame.copy.dst = 0 /\ frame.copy.count \in Nat
      /\ frame.copy.count <= DstSize
  BY <1>0, FrameCopy DEF BlockTyped
<1>3. \A a \in Bytes :
        mem'[a] = IF a \in 0..frame.copy.count - 1 /\ a % kZstdBlockThreads = t
                  THEN Block!SourceByte(a, frame.copy.rle) ELSE mem[a]
  <2>1. \A a \in Bytes : a - frame.copy.dst = a BY <1>2, BlockConsts DEF Bytes
  <2> QED BY <1>0, <1>2, <2>1
<1>4. mem' \in [Bytes -> Int]
  <2>1. \A a \in Bytes : Block!SourceByte(a, frame.copy.rle) \in Int
    BY BlockConsts DEF Block!SourceByte, Bytes
  <2>2. DOMAIN mem' = Bytes BY <1>0, <1>2
  <2>3. \A a \in Bytes : mem'[a] \in Int BY <1>2, <1>3, <2>1
  <2>4. mem' = [a \in Bytes |-> mem'[a]] BY <1>0, <2>2
  <2> QED BY <2>3, <2>4
<1>5. 0..frame.copy.count - 1 \subseteq Bytes BY <1>2, BlockConsts DEF Bytes
<1>6. ASSUME NEW u \in Block!Threads, u # t, Filled(u) PROVE Filled(u)'
  <2>1. ASSUME NEW i \in 0..frame.copy.count - 1, i % kZstdBlockThreads = u
        PROVE  Copied(i)'
    <3>1. Copied(i) BY <1>6, <2>1 DEF Filled
    <3>2. mem'[i] = mem[i] BY <1>3, <1>5, <1>6, <2>1
    <3> QED BY <3>1, <3>2, <1>0 DEF Copied
  <2> QED BY <2>1, <1>0 DEF Filled
<1>7. Filled(t)'
  <2>1. ASSUME NEW i \in 0..frame.copy.count - 1, i % kZstdBlockThreads = t
        PROVE  Copied(i)'
    <3>1. mem'[i] = Block!SourceByte(i, frame.copy.rle) BY <1>3, <1>5, <2>1
    <3> QED BY <3>1, <1>0, <1>1 DEF Copied
  <2> QED BY <2>1, <1>0 DEF Filled
<1>8. "advance" \in Places /\ "before" \in Phases
  BY DEF Places, Sections, Phases, Block!Waiting
<1>9. /\ place' \in [Block!Threads -> Places] /\ phase' \in [Block!Threads -> Phases]
      /\ place'[t] = "advance" /\ phase'[t] = "before"
      /\ \A u \in Block!Threads : u # t => place'[u] = place[u] /\ phase'[u] = phase[u]
  BY <1>0, <1>8, Went
<1>10. BlockTyped' BY <1>0, <1>4, <1>9 DEF BlockTyped
<1>11. ASSUME NEW u \in Block!Threads
       PROVE  (OnTheWay(u, s, k, c) \/ Reached(u, s, k, c))'
  <2>1. CASE u = t
    <3>1. Stands(t, "advance", "before", k, c)' BY <1>0, <1>1, <1>9 DEF Stands
    <3> QED BY <2>1, <3>1, <1>0, <1>1, <1>7 DEF Reached
  <2>2. CASE u # t
    <3>1. Still(u) BY <1>0, <1>9, <2>2 DEF Still
    <3> QED BY <3>1, <2>2, <1>0, <1>1, <1>6, OthersOnTheWay, OthersReached DEF Leaving
  <2> QED BY <2>1, <2>2
<1>12. Leaving(s, k, c)' BY <1>1, <1>11 DEF Leaving
<1> QED BY <1>10, <1>12 DEF BlockInv, Interval

LEMMA StartMoveInv ==
  ASSUME BlockInv, NEW t \in Block!Threads, Block!StartMove(t) PROVE BlockInv'
<1>0. /\ BlockTyped /\ place[t] = "move" /\ phase[t] = "start"
      /\ copy' = [copy EXCEPT ![t] = frame.copy] /\ moved' = [moved EXCEPT ![t] = 0]
      /\ Block!GoTo(t, "move", "read") /\ UNCHANGED <<step, chunk, byte, frame, mem>>
  BY DEF BlockInv, Block!StartMove
<1>1. PICK s \in Sections, k \in Nat, c \in Nat :
        /\ Leaving(s, k, c) /\ step[t] = k /\ chunk[t] = c
        /\ frame.status = "OK" /\ s = "decode"
  BY <1>0, OutIsLeaving
<1>2. "move" \in Places /\ "read" \in Phases
  BY DEF Places, Sections, Phases, Block!Waiting
<1>3. /\ copy' \in [Block!Threads -> Copies] /\ moved' \in [Block!Threads -> Nat]
      /\ copy'[t] = frame.copy /\ moved'[t] = 0
      /\ \A u \in Block!Threads : u # t => copy'[u] = copy[u] /\ moved'[u] = moved[u]
  BY <1>0, FrameCopy DEF BlockTyped
<1>4. /\ place' \in [Block!Threads -> Places] /\ phase' \in [Block!Threads -> Phases]
      /\ place'[t] = "move" /\ phase'[t] = "read"
      /\ \A u \in Block!Threads : u # t => place'[u] = place[u] /\ phase'[u] = phase[u]
  BY <1>0, <1>2, Went
<1>5. BlockTyped' BY <1>0, <1>3, <1>4 DEF BlockTyped
<1>6. StillBut(t) BY <1>0, <1>3, <1>4 DEF StillBut, Still
<1>7. ReadsAt(t, k, c, 0)' BY <1>0, <1>1, <1>3, <1>4 DEF ReadsAt, Stands
<1>8. OnTheWay(t, s, k, c)' BY <1>0, <1>1, <1>7 DEF OnTheWay
<1> QED BY <1>0, <1>1, <1>5, <1>6, <1>8, KeepsLeaving

\* The byte a step of the move takes is one no step so far has written.
LEMMA ReadByteRight ==
  ASSUME BlockTyped, NEW t \in Block!Threads, NEW m \in Nat, moved[t] = m, copy[t] = frame.copy,
         frame.compressed, Below(Base(m)), Block!Live(t)
  PROVE  /\ Base(m) + t < frame.copy.count
         /\ mem[copy[t].src + Block!Index(t)] = frame.copy.src + Base(m) + t
<1>1. /\ Base(m) \in Nat /\ t \in Nat
      /\ Block!Index(t) = Base(m) + t
  BY BlockConsts DEF Base, Block!Index, Block!Threads
<1>2. Base(m) + t < frame.copy.count BY <1>1 DEF Block!Live
<1>3. PICK a \in Nat : a = frame.copy.src + (Base(m) + t) BY <1>1, FrameCopy
<1>4. a \in Bytes /\ ~(a < Base(m))
  BY <1>1, <1>2, <1>3, FrameCopy, BlockConsts DEF Bytes
<1>5. mem[a] = a BY <1>4 DEF Below
<1>6. a = frame.copy.src + Base(m) + t BY <1>1, <1>3, FrameCopy
<1> QED BY <1>1, <1>2, <1>3, <1>5, <1>6

LEMMA MoveReads ==
  ASSUME BlockTyped, NEW t \in Block!Threads, NEW k \in Nat, NEW c \in Nat, NEW m \in Nat,
         ReadsAt(t, k, c, m), frame.compressed, Below(Base(m)), Block!MoveRead(t)
  PROVE  BlockTyped' /\ StillBut(t) /\ ReadsAt(t, k, c, m)' /\ UNCHANGED <<frame, mem>>
<1>0. /\ place[t] = "move" /\ phase[t] = "read"
      /\ UNCHANGED <<step, chunk, copy, moved, frame, mem>>
      /\ \/ /\ moved[t] = Block!MoveSteps(t) /\ Block!GoTo(t, "advance", "before")
            /\ UNCHANGED byte
         \/ /\ moved[t] # Block!MoveSteps(t) /\ Block!GoTo(t, "move", "mid")
            /\ byte' = [byte EXCEPT ![t] = IF Block!Live(t) THEN mem[copy[t].src + Block!Index(t)]
                                           ELSE Block!Unwritten]
  BY DEF Block!MoveRead, Block!ToSection, Block!Enter, Block!BetweenReadAndWrite
<1>1. copy[t] = frame.copy /\ moved[t] = m /\ step[t] = k /\ chunk[t] = c
  BY DEF ReadsAt, Stands
<1>2. {"move", "advance"} \subseteq Places /\ {"before", "mid"} \subseteq Phases
  BY DEF Places, Sections, Phases, Block!Waiting
<1>3. Block!MoveSteps(t)' = Block!MoveSteps(t) BY <1>0 DEF Block!MoveSteps
<1>4. CASE m = Block!MoveSteps(t)
  <2>1. Block!GoTo(t, "advance", "before") /\ UNCHANGED byte BY <1>0, <1>1, <1>4
  <2>2. /\ place' \in [Block!Threads -> Places] /\ phase' \in [Block!Threads -> Phases]
        /\ place'[t] = "advance" /\ phase'[t] = "before"
        /\ \A u \in Block!Threads : u # t => place'[u] = place[u] /\ phase'[u] = phase[u]
    BY <1>2, <2>1, Went
  <2>3. BlockTyped' BY <1>0, <2>1, <2>2 DEF BlockTyped
  <2>4. StillBut(t) BY <1>0, <2>1, <2>2 DEF StillBut, Still
  <2>5. ReadsAt(t, k, c, m)' BY <1>0, <1>1, <1>3, <1>4, <2>2 DEF ReadsAt, Stands
  <2> QED BY <1>0, <2>3, <2>4, <2>5
<1>5. CASE m # Block!MoveSteps(t)
  <2>1. /\ Block!GoTo(t, "move", "mid")
        /\ byte' = [byte EXCEPT ![t] = IF Block!Live(t) THEN mem[copy[t].src + Block!Index(t)]
                                       ELSE Block!Unwritten]
    BY <1>0, <1>1, <1>5
  <2>2. /\ place' \in [Block!Threads -> Places] /\ phase' \in [Block!Threads -> Phases]
        /\ place'[t] = "move" /\ phase'[t] = "mid"
        /\ \A u \in Block!Threads : u # t => place'[u] = place[u] /\ phase'[u] = phase[u]
    BY <1>2, <2>1, Went
  <2>3. Base(m) \in Nat /\ t \in Nat /\ Block!Index(t) = Base(m) + t
    BY <1>1, BlockConsts DEF Base, Block!Index, Block!Threads
  <2>4. PICK b \in Int :
          /\ byte' = [byte EXCEPT ![t] = b]
          /\ Base(m) + t < frame.copy.count => b = frame.copy.src + Base(m) + t
    <3>1. CASE Block!Live(t)
      <4>1. mem[copy[t].src + Block!Index(t)] = frame.copy.src + Base(m) + t
        BY <1>1, <3>1, ReadByteRight
      <4>2. PICK b \in Int : b = frame.copy.src + Base(m) + t BY <2>3, FrameCopy
      <4>3. byte' = [byte EXCEPT ![t] = b] BY <2>1, <3>1, <4>1, <4>2
      <4> QED BY <4>2, <4>3
    <3>2. CASE ~Block!Live(t)
      <4>1. ~(Base(m) + t < frame.copy.count) BY <1>1, <2>3, <3>2 DEF Block!Live
      <4>2. PICK b \in Int : b = Block!Unwritten BY DEF Block!Unwritten
      <4>3. byte' = [byte EXCEPT ![t] = b] BY <2>1, <3>2, <4>2
      <4> QED BY <4>1, <4>2, <4>3
    <3> QED BY <3>1, <3>2
  <2>5. /\ byte' \in [Block!Threads -> Int] /\ byte'[t] = b
        /\ \A u \in Block!Threads : u # t => byte'[u] = byte[u]
    BY <2>4 DEF BlockTyped
  <2>6. BlockTyped' BY <1>0, <2>2, <2>5 DEF BlockTyped
  <2>7. StillBut(t) BY <1>0, <2>2, <2>5 DEF StillBut, Still
  <2>8. ReadsAt(t, k, c, m)'
    BY <1>0, <1>1, <1>3, <1>5, <2>2, <2>4, <2>5 DEF ReadsAt, Stands, Base
  <2> QED BY <1>0, <2>6, <2>7, <2>8
<1> QED BY <1>4, <1>5

LEMMA MoveReadInv ==
  ASSUME BlockInv, NEW t \in Block!Threads, Block!MoveRead(t) PROVE BlockInv'
<1>0. BlockTyped /\ place[t] = "move" /\ phase[t] = "read" BY DEF BlockInv, Block!MoveRead
<1>1. PICK s \in Sections, k \in Nat, c \in Nat, m \in Nat :
        Gathered(s, k, c) \/ InsideOf(s, k, c) \/ Leaving(s, k, c)
        \/ Reading(k, c, m) \/ Writing(k, c, m)
  BY DEF BlockInv, Interval
<1>2. Leaving(s, k, c) \/ Reading(k, c, m)
  BY <1>0, <1>1 DEF Gathered, InsideOf, Writing, WritesAt, Stands
<1>3. CASE Leaving(s, k, c)
  <2>1. ~Reached(t, s, k, c) BY <1>0 DEF Reached, Stands
  <2>2. frame.status = "OK" /\ s = "decode" /\ ReadsAt(t, k, c, 0)
    <3>1. OnTheWay(t, s, k, c) BY <1>3, <2>1 DEF Leaving
    <3> QED BY <1>0, <3>1 DEF OnTheWay, Stands
  <2>3. frame.compressed /\ Below(Base(0))
    <3>1. Base(0) = 0 BY BlockConsts DEF Base
    <3> QED BY <1>3, <2>2, <3>1 DEF Leaving
  <2>4. BlockTyped' /\ StillBut(t) /\ ReadsAt(t, k, c, 0)' /\ UNCHANGED <<frame, mem>>
    BY <1>0, <2>2, <2>3, MoveReads
  <2>5. OnTheWay(t, s, k, c)' BY <2>2, <2>4 DEF OnTheWay
  <2> QED BY <1>3, <2>4, <2>5, KeepsLeaving
<1>4. CASE Reading(k, c, m)
  <2>1. BlockTyped' /\ StillBut(t) /\ ReadsAt(t, k, c, m)' /\ UNCHANGED <<frame, mem>>
    BY <1>0, <1>4, MoveReads DEF Reading
  <2>2. ASSUME NEW u \in Block!Threads PROVE ReadsAt(u, k, c, m)'
    <3>1. CASE u = t BY <2>1, <3>1
    <3>2. CASE u # t
      <4>1. Still(u) BY <2>1, <3>2 DEF StillBut
      <4>2. ReadsAt(u, k, c, m) BY <1>4 DEF Reading
      <4> QED BY <2>1, <4>1, <4>2 DEF ReadsAt, Stands, Still, Block!MoveSteps, Base
    <3> QED BY <3>1, <3>2
  <2>3. Below(Base(m))' BY <1>4, <2>1 DEF Reading, Below, Base
  <2>4. Reading(k, c, m)' BY <1>4, <2>1, <2>2, <2>3 DEF Reading
  <2> QED BY <2>1, <2>4 DEF BlockInv, Interval
<1> QED BY <1>2, <1>3, <1>4

LEMMA MoveWriteInv ==
  ASSUME BlockInv, NEW t \in Block!Threads, Block!MoveWrite(t) PROVE BlockInv'
<1>0. /\ BlockTyped /\ place[t] = "move" /\ phase[t] = "write"
      /\ mem' = IF Block!Live(t) THEN [mem EXCEPT ![copy[t].dst + Block!Index(t)] = byte[t]] ELSE mem
      /\ moved' = [moved EXCEPT ![t] = @ + 1] /\ byte' = [byte EXCEPT ![t] = Block!Unwritten]
      /\ Block!GoTo(t, "move", "end") /\ UNCHANGED <<step, chunk, copy, frame>>
  BY DEF BlockInv, Block!MoveWrite
<1>1. PICK k \in Nat, c \in Nat, m \in Nat : Writing(k, c, m)
  <2>1. PICK s \in Sections, k \in Nat, c \in Nat, m \in Nat :
          Gathered(s, k, c) \/ InsideOf(s, k, c) \/ Leaving(s, k, c)
          \/ Reading(k, c, m) \/ Writing(k, c, m)
    BY DEF BlockInv, Interval
  <2>2. ~Reached(t, s, k, c) /\ ~OnTheWay(t, s, k, c)
    BY <1>0 DEF Reached, OnTheWay, ReadsAt, Stands
  <2>3. Writing(k, c, m)
    BY <1>0, <2>1, <2>2 DEF Gathered, InsideOf, Leaving, Reading, ReadsAt, Stands
  <2> QED BY <2>3
<1>2. PICK b \in Nat : b = Base(m) BY BlockConsts DEF Base
<1>3. /\ t \in Nat /\ t < kZstdBlockThreads /\ copy[t] = frame.copy /\ moved[t] = m
      /\ step[t] = k /\ chunk[t] = c
      /\ b + t < frame.copy.count => byte[t] = frame.copy.src + b + t
  BY <1>0, <1>1, <1>2, BlockConsts DEF Writing, WritesAt, Stands, Block!Threads
<1>4. copy[t].dst + Block!Index(t) = b + t /\ (Block!Live(t) <=> b + t < frame.copy.count)
  BY <1>2, <1>3, FrameCopy, <1>0, BlockConsts DEF Block!Live, Block!Index, Base
<1>5. b + t < frame.copy.count => b + t \in Bytes
  BY <1>0, <1>3, FrameCopy, BlockConsts DEF Bytes
<1>6. /\ mem' \in [Bytes -> Int]
      /\ b + t < frame.copy.count => mem'[b + t] = frame.copy.src + b + t
      /\ \A a \in Bytes : a # b + t \/ ~(b + t < frame.copy.count) => mem'[a] = mem[a]
  <2>1. mem \in [Bytes -> Int] /\ byte[t] \in Int BY <1>0 DEF BlockTyped
  <2> QED BY <1>0, <1>3, <1>4, <1>5, <2>1
<1>7. /\ moved' \in [Block!Threads -> Nat] /\ byte' \in [Block!Threads -> Int]
      /\ moved'[t] = m + 1
      /\ \A u \in Block!Threads : u # t => moved'[u] = moved[u] /\ byte'[u] = byte[u]
  <2>1. m + 1 \in Nat /\ Block!Unwritten \in Int BY DEF Block!Unwritten
  <2> QED BY <1>0, <1>3, <2>1 DEF BlockTyped
<1>8. "move" \in Places /\ "end" \in Phases
  BY DEF Places, Sections, Phases, Block!Waiting
<1>9. /\ place' \in [Block!Threads -> Places] /\ phase' \in [Block!Threads -> Phases]
      /\ place'[t] = "move" /\ phase'[t] = "end"
      /\ \A u \in Block!Threads : u # t => place'[u] = place[u] /\ phase'[u] = phase[u]
  BY <1>0, <1>8, Went
<1>10. BlockTyped' BY <1>0, <1>6, <1>7, <1>9 DEF BlockTyped
<1>11. StillBut(t) BY <1>0, <1>7, <1>9 DEF StillBut, Still
<1>12. WritesAt(t, k, c, m)'
  BY <1>0, <1>2, <1>3, <1>6, <1>7, <1>9 DEF WritesAt, Stands, Base
<1>13. ASSUME NEW u \in Block!Threads, u # t PROVE WritesAt(u, k, c, m)'
  <2>1. WritesAt(u, k, c, m) /\ Still(u) BY <1>1, <1>11, <1>13 DEF Writing, StillBut
  <2>2. u \in Nat BY BlockConsts DEF Block!Threads
  <2>3. b + u < frame.copy.count => b + u \in Bytes /\ b + u # b + t
    BY <1>0, <1>3, <1>13, <2>2, FrameCopy, BlockConsts DEF Bytes
  <2>4. b + u < frame.copy.count => mem'[b + u] = mem[b + u] BY <1>6, <2>3
  <2> QED BY <1>0, <1>2, <2>1, <2>4 DEF WritesAt, Stands, Still, Base
<1>14. ASSUME NEW a \in Bytes
       PROVE  /\ a < b /\ a < frame.copy.count => mem'[a] = a + frame.copy.src
              /\ a >= b + kZstdBlockThreads \/ a >= frame.copy.count => mem'[a] = a
  <2>1. /\ a < b /\ a < frame.copy.count => mem[a] = a + frame.copy.src
        /\ a >= b + kZstdBlockThreads \/ a >= frame.copy.count => mem[a] = a
    BY <1>1, <1>2 DEF Writing
  <2>2. a \in Nat BY BlockConsts DEF Bytes
  <2>3. CASE a < b \/ a >= b + kZstdBlockThreads \/ a >= frame.copy.count
    <3>1. a # b + t \/ ~(b + t < frame.copy.count)
      BY <1>0, <1>3, <2>2, <2>3, FrameCopy, BlockConsts
    <3> QED BY <2>1, <3>1, <1>6
  <2>4. CASE ~(a < b \/ a >= b + kZstdBlockThreads \/ a >= frame.copy.count)
    BY <2>4
  <2> QED BY <2>3, <2>4
<1>15. Writing(k, c, m)'
  BY <1>0, <1>1, <1>2, <1>12, <1>13, <1>14 DEF Writing, Base
<1> QED BY <1>10, <1>15 DEF BlockInv, Interval

LEMMA ActInv == ASSUME BlockInv, NEW t \in Block!Threads, Block!Act(t) PROVE BlockInv'
BY FollowInv, FillInv, StartMoveInv, MoveReadInv, MoveWriteInv DEF Block!Act

-----------------------------------------------------------------------------
(* Thread 0's sections.                                                    *)

\* What thread 0 may do to the shared state in section s.
FrameTyped == frame \in Frames /\ (frame.compressed => frame.copy.src + frame.copy.count <= DstSize)

LEMMA InSection ==
  ASSUME BlockInv, NEW s \in Sections, Block!In(s),
         UNCHANGED <<place, step, chunk, copy, moved, byte>>,
         FrameTyped', mem' \in [Bytes -> Int],
         s = "decode" => frame'.compressed = frame.compressed,
         s = "decode" /\ frame'.status = "OK" => Below(0)',
         s = "advance" => UNCHANGED <<frame, mem>>
  PROVE  BlockInv'
<1>0. /\ BlockTyped /\ place[0] = s /\ phase[0] = "in" /\ phase' = [phase EXCEPT ![0] = "after"]
      /\ 0 \in Block!Threads
  BY ThreadZero DEF BlockInv, Block!In
<1>1. PICK s0 \in Sections, k \in Nat, c \in Nat, m \in Nat :
        Gathered(s0, k, c) \/ InsideOf(s0, k, c) \/ Leaving(s0, k, c)
        \/ Reading(k, c, m) \/ Writing(k, c, m)
  BY DEF BlockInv, Interval
<1>2. ~Reached(0, s0, k, c) /\ ~OnTheWay(0, s0, k, c)
  BY <1>0 DEF Reached, OnTheWay, ReadsAt, Stands
<1>3. InsideOf(s0, k, c)
  BY <1>0, <1>1, <1>2 DEF Gathered, Leaving, Reading, ReadsAt, Writing, WritesAt, Stands
<1>4. s0 = s BY <1>0, <1>3 DEF InsideOf, Stands
<1>5. "after" \in Phases BY DEF Phases, Block!Waiting
<1>6. /\ phase' \in [Block!Threads -> Phases] /\ phase'[0] = "after"
      /\ \A u \in Block!Threads : u # 0 => phase'[u] = phase[u]
  BY <1>0, <1>5 DEF BlockTyped
<1>7. BlockTyped' BY <1>0, <1>6 DEF BlockTyped, FrameTyped
<1>8. \A u \in Block!Threads : Stands(u, s, "after", k, c)'
  BY <1>0, <1>3, <1>4, <1>6 DEF InsideOf, Stands
<1>9. /\ s = "decode" => frame.compressed
      /\ s = "advance" => CopyDone
  BY <1>3, <1>4 DEF InsideOf
<1>10. s = "advance" => CopyDone' BY <1>9 DEF CopyDone, Copied
<1>11. InsideOf(s, k, c)' BY <1>8, <1>9, <1>10 DEF InsideOf
<1> QED BY <1>7, <1>11 DEF BlockInv, Interval

LEMMA SectionInv == ASSUME BlockInv, Block!Section PROVE BlockInv'
<1>0. /\ FrameTyped /\ mem \in [Bytes -> Int] /\ DOMAIN mem = Bytes
      /\ UNCHANGED <<place, step, chunk, copy, moved, byte>>
  BY DEF BlockInv, BlockTyped, FrameTyped, Block!Section, Block!copying
<1>1. Block!NoCopy \in Copies BY BlockConsts DEF Block!NoCopy, Copies
<1>2. /\ "setup" \in Sections /\ "header" \in Sections /\ "block" \in Sections /\ "decode" \in Sections
      /\ "advance" \in Sections /\ "tail" \in Sections /\ "result" \in Sections
  BY DEF Sections
<1>3. CASE Block!Setup
  <2>1. /\ Block!In("setup") /\ frame' = [frame EXCEPT !.compressed = FALSE, !.copy = Block!NoCopy]
        /\ mem' = [a \in Bytes |-> Block!Unwritten]
    BY <1>0, <1>3 DEF Block!Setup
  <2>2. FrameTyped' BY <1>0, <1>1, <2>1 DEF FrameTyped, Frames
  <2>3. mem' \in [Bytes -> Int]
    <3>1. Block!Unwritten \in Int BY DEF Block!Unwritten
    <3> QED BY <2>1, <3>1
  <2> QED BY <1>0, <1>2, <2>1, <2>2, <2>3, InSection
<1>4. CASE Block!FrameHeader
  <2>1. Block!In("header") /\ mem' = mem BY <1>4 DEF Block!FrameHeader
  <2>2. FrameTyped'
    <3>1. PICK status_1 \in {"OK", "CORRUPT_INPUT"} :
            frame' = [frame EXCEPT !.status = status_1, !.last_block = FALSE]
      BY <1>4 DEF Block!FrameHeader
    <3>2. frame' \in Frames BY <1>0, <3>1 DEF FrameTyped, Frames
    <3>3. frame'.compressed = frame.compressed /\ frame'.copy = frame.copy
      BY <1>0, <3>1 DEF FrameTyped, Frames
    <3> QED BY <1>0, <3>2, <3>3 DEF FrameTyped
  <2> QED BY <1>0, <1>2, <2>1, <2>2, InSection
<1>5. CASE Block!BlockHeader
  <2>1. Block!In("block") /\ mem' = mem BY <1>5 DEF Block!BlockHeader
  <2>2. \E st \in {"OK", "CORRUPT_INPUT"}, comp \in BOOLEAN, last \in BOOLEAN, cp \in Copies :
          /\ frame' = [status |-> st, compressed |-> comp, last_block |-> last, copy |-> cp]
          /\ comp => cp = Block!NoCopy
    <3>1. CASE \E last \in BOOLEAN :
                 \/ Block!Frame("OK", TRUE, last, Block!NoCopy)
                 \/ Block!Frame("CORRUPT_INPUT", FALSE, last, Block!NoCopy)
      BY <3>1, <1>1 DEF Block!Frame
    <3>2. CASE \E last \in BOOLEAN, n \in CopyLens, rle \in BOOLEAN :
                 Block!Frame("OK", FALSE, last, [dst |-> 0, src |-> 0, count |-> n, rle |-> rle])
      <4>1. PICK last \in BOOLEAN, n \in CopyLens, rle \in BOOLEAN :
              Block!Frame("OK", FALSE, last, [dst |-> 0, src |-> 0, count |-> n, rle |-> rle])
        BY <3>2
      <4>2. [dst |-> 0, src |-> 0, count |-> n, rle |-> rle] \in Copies
        BY BlockConsts DEF Copies
      <4> QED BY <4>1, <4>2 DEF Block!Frame
    <3> QED BY <1>5, <3>1, <3>2 DEF Block!BlockHeader
  <2>3. FrameTyped'
    <3>1. PICK st \in {"OK", "CORRUPT_INPUT"}, comp \in BOOLEAN, last \in BOOLEAN, cp \in Copies :
            /\ frame' = [status |-> st, compressed |-> comp, last_block |-> last, copy |-> cp]
            /\ comp => cp = Block!NoCopy
      BY <2>2
    <3>2. frame' \in Frames /\ frame'.compressed = comp /\ frame'.copy = cp
      BY <3>1 DEF Frames
    <3>3. Block!NoCopy.src + Block!NoCopy.count <= DstSize BY BlockConsts DEF Block!NoCopy
    <3> QED BY <3>1, <3>2, <3>3 DEF FrameTyped
  <2> QED BY <1>0, <1>2, <2>1, <2>3, InSection
<1>6. CASE Block!DecodeBlock
  <2>1. Block!In("decode") BY <1>6 DEF Block!DecodeBlock
  <2>2. CASE Block!Refused /\ UNCHANGED mem
    <3>1. frame' = [frame EXCEPT !.status = "CORRUPT_INPUT"] BY <2>2 DEF Block!Refused
    <3>2. frame' \in Frames /\ frame'.compressed = frame.compressed /\ frame'.copy = frame.copy
          /\ frame'.status = "CORRUPT_INPUT"
      BY <1>0, <3>1 DEF FrameTyped, Frames
    <3>3. FrameTyped' BY <1>0, <3>2 DEF FrameTyped
    <3> QED BY <1>0, <1>2, <2>1, <2>2, <3>2, <3>3, InSection
  <2>3. CASE \E gap \in MoveGaps, n \in CopyLens :
               /\ gap + n <= DstSize
               /\ frame' = [frame EXCEPT !.copy = [dst |-> 0, src |-> gap, count |-> n, rle |-> FALSE]]
               /\ mem' = [a \in DOMAIN mem |-> a]
    <3>1. PICK gap \in MoveGaps, n \in CopyLens :
               /\ gap + n <= DstSize
               /\ frame' = [frame EXCEPT !.copy = [dst |-> 0, src |-> gap, count |-> n, rle |-> FALSE]]
               /\ mem' = [a \in DOMAIN mem |-> a]
      BY <2>3
    <3>2. [dst |-> 0, src |-> gap, count |-> n, rle |-> FALSE] \in Copies
      BY BlockConsts DEF Copies
    <3>3. frame' \in Frames /\ frame'.compressed = frame.compressed
          /\ frame'.copy = [dst |-> 0, src |-> gap, count |-> n, rle |-> FALSE]
      BY <1>0, <3>1, <3>2 DEF FrameTyped, Frames
    <3>4. FrameTyped' BY <3>1, <3>3 DEF FrameTyped
    <3>5. mem' = [a \in Bytes |-> a] BY <1>0, <3>1
    <3>6. mem' \in [Bytes -> Int] BY <3>5, BlockConsts DEF Bytes
    <3>7. Below(0)'
      <4>1. \A a \in Bytes : ~(a < 0) BY BlockConsts DEF Bytes
      <4> QED BY <3>5, <4>1 DEF Below
    <3> QED BY <1>0, <1>2, <2>1, <3>3, <3>4, <3>6, <3>7, InSection
  <2> QED BY <1>6, <2>2, <2>3 DEF Block!DecodeBlock
<1>7. CASE Block!Advance
  <2>1. Block!In("advance") /\ UNCHANGED <<frame, mem>> BY <1>7 DEF Block!Advance
  <2>2. FrameTyped' BY <1>0, <2>1 DEF FrameTyped
  <2> QED BY <1>0, <1>2, <2>1, <2>2, InSection
<1>8. CASE Block!FrameEnd
  <2>1. Block!In("tail") /\ UNCHANGED mem BY <1>8 DEF Block!FrameEnd
  <2>2. FrameTyped'
    <3>1. CASE frame' = frame BY <1>0, <3>1 DEF FrameTyped
    <3>2. CASE Block!Refused
      <4>1. frame' \in Frames /\ frame'.compressed = frame.compressed /\ frame'.copy = frame.copy
        BY <1>0, <3>2 DEF FrameTyped, Frames, Block!Refused
      <4> QED BY <1>0, <4>1 DEF FrameTyped
    <3> QED BY <1>8, <3>1, <3>2 DEF Block!FrameEnd
  <2> QED BY <1>0, <1>2, <2>1, <2>2, InSection
<1>9. CASE Block!Result
  <2>1. Block!In("result") /\ UNCHANGED <<frame, mem>> BY <1>9 DEF Block!Result
  <2>2. FrameTyped' BY <1>0, <2>1 DEF FrameTyped
  <2> QED BY <1>0, <1>2, <2>1, <2>2, InSection
<1> QED BY <1>3, <1>4, <1>5, <1>6, <1>7, <1>8, <1>9 DEF Block!Section

-----------------------------------------------------------------------------
(* The barrier: every interval ends where the next one starts.             *)

AllWait ==
  /\ \E t \in Block!Threads : place[t] # "exit"
  /\ \A t \in Block!Threads : place[t] = "exit" \/ phase[t] \in Block!Waiting

\* Behind a section of no move, the threads have all gone to the same section.
LEMMA LeftGathers ==
  ASSUME BlockTyped, AllWait, NEW s \in Sections, NEW k \in Nat, NEW c \in Nat,
         Leaving(s, k, c), ~(s = "decode" /\ frame.status = "OK")
  PROVE  \E s2 \in Sections, k2 \in Nat, c2 \in Nat : Gathered(s2, k2, c2)
<1>1. \A t \in Block!Threads : Reached(t, s, k, c)
  BY DEF AllWait, Leaving, OnTheWay, Stands, Block!Waiting, Sections
<1>2. k + 1 \in Nat /\ c + 1 \in Nat /\ 0 \in Nat OBVIOUS
<1>3. /\ "setup" \in Sections /\ "header" \in Sections /\ "block" \in Sections
      /\ "decode" \in Sections /\ "advance" \in Sections /\ "tail" \in Sections
      /\ "result" \in Sections
  BY DEF Sections
<1>4. \A p, k2, c2 : /\ \A t \in Block!Threads : Stands(t, p, "before", k2, c2)
                     /\ p # "decode" /\ p # "advance"
                     => Gathered(p, k2, c2)
  BY DEF Gathered
<1>5. CASE s = "setup"
  <2>1. \A t \in Block!Threads : Stands(t, "header", "before", k, c) BY <1>1, <1>5 DEF Reached
  <2> QED BY <2>1, <1>3, <1>4
<1>6. CASE s = "header"
  <2>1. PICK p \in Sections : p = IF frame.status = "OK" THEN "block" ELSE "result" BY <1>3
  <2>2. \A t \in Block!Threads : Stands(t, p, "before", 0, c) BY <1>1, <1>6, <2>1 DEF Reached
  <2>3. Gathered(p, 0, c) BY <2>1, <2>2, <1>4
  <2> QED BY <2>3, <1>2
<1>7. CASE s = "block"
  <2>1. CASE frame.status # "OK"
    <3>1. \A t \in Block!Threads : Stands(t, "result", "before", k, c)
      BY <1>1, <1>7, <2>1 DEF Reached
    <3> QED BY <3>1, <1>3, <1>4
  <2>2. CASE frame.status = "OK" /\ frame.compressed
    <3>1. \A t \in Block!Threads : Stands(t, "decode", "before", k, c)
      BY <1>1, <1>7, <2>2 DEF Reached
    <3>2. Gathered("decode", k, c) BY <3>1, <2>2 DEF Gathered
    <3> QED BY <3>2, <1>3
  <2>3. CASE frame.status = "OK" /\ ~frame.compressed
    <3>1. \A t \in Block!Threads : Stands(t, "advance", "before", k, c) /\ Filled(t)
      BY <1>1, <1>7, <2>3 DEF Reached
    <3>2. CopyDone
      <4>1. ASSUME NEW i \in 0..frame.copy.count - 1 PROVE Copied(i)
        <5>1. i \in Nat BY FrameCopy
        <5>2. PICK t \in 0..kZstdBlockThreads - 1 : t = i % kZstdBlockThreads
          BY <5>1, BlockConsts, ModRange
        <5>3. t \in Block!Threads BY DEF Block!Threads
        <5> QED BY <3>1, <5>2, <5>3 DEF Filled
      <4> QED BY <4>1 DEF CopyDone
    <3>3. Gathered("advance", k, c) BY <3>1, <3>2 DEF Gathered
    <3> QED BY <3>3, <1>3
  <2> QED BY <2>1, <2>2, <2>3
<1>8. CASE s = "decode"
  <2>1. \A t \in Block!Threads : Stands(t, "result", "before", k, c) BY <1>1, <1>8 DEF Reached
  <2> QED BY <2>1, <1>3, <1>4
<1>9. CASE s = "advance"
  <2>1. PICK p \in Sections :
          p = IF ~frame.last_block /\ k + 1 < BlockFuel THEN "block" ELSE "tail"
    BY <1>3
  <2>2. \A t \in Block!Threads : Stands(t, p, "before", k + 1, c)
    BY <1>1, <1>9, <2>1 DEF Reached
  <2>3. Gathered(p, k + 1, c) BY <2>1, <2>2, <1>4
  <2> QED BY <2>3, <1>2
<1>10. CASE s = "tail"
  <2>1. \A t \in Block!Threads : Stands(t, "result", "before", k, c) BY <1>1, <1>10 DEF Reached
  <2> QED BY <2>1, <1>3, <1>4
<1>11. CASE s = "result"
  <2>1. CASE c < BlockFrames
    <3>1. \A t \in Block!Threads : Stands(t, "setup", "before", 0, c + 1)
      BY <1>1, <1>11, <2>1 DEF Reached
    <3>2. Gathered("setup", 0, c + 1) BY <3>1, <1>4
    <3> QED BY <3>2, <1>2, <1>3
  <2>2. CASE ~(c < BlockFrames)
    <3>1. \A t \in Block!Threads : place[t] = "exit" BY <1>1, <1>11, <2>2 DEF Reached, Stands
    <3> QED BY <3>1 DEF AllWait
  <2> QED BY <2>1, <2>2
<1> QED BY <1>5, <1>6, <1>7, <1>8, <1>9, <1>10, <1>11 DEF Sections

\* And behind the section that asked for a move they are all in its first step.
LEMMA LeftReads ==
  ASSUME AllWait, NEW k \in Nat, NEW c \in Nat,
         Leaving("decode", k, c), frame.status = "OK"
  PROVE  Reading(k, c, 0)
<1>1. ASSUME NEW t \in Block!Threads PROVE ReadsAt(t, k, c, 0)
  <2>1. ~Reached(t, "decode", k, c) BY DEF Reached
  <2>2. OnTheWay(t, "decode", k, c) BY <2>1 DEF Leaving
  <2> QED BY <2>2 DEF OnTheWay, Stands, AllWait, Block!Waiting
<1>2. Base(0) = 0 BY BlockConsts DEF Base
<1> QED BY <1>1, <1>2 DEF Reading, Leaving

LEMMA Release ==
  ASSUME BlockTyped, Block!Barrier
  PROVE  /\ BlockTyped' /\ AllWait
         /\ UNCHANGED <<place, step, chunk, copy, moved, byte, frame, mem>>
         /\ \A t \in Block!Threads :
              phase'[t] = CASE phase[t] = "before" -> IF t = 0 THEN "in" ELSE "after"
                            [] phase[t] = "after" -> "out"
                            [] phase[t] = "mid" -> "write"
                            [] phase[t] = "end" -> "read"
                            [] OTHER -> phase[t]
<1>1. /\ phase' = [t \in Block!Threads |-> Block!Released(t)]
      /\ UNCHANGED <<place, step, chunk, copy, moved, byte, frame, mem>>
      /\ AllWait
  BY DEF Block!Barrier, Block!copying, AllWait
<1>2. \A t \in Block!Threads :
        Block!Released(t) = CASE phase[t] = "before" -> IF t = 0 THEN "in" ELSE "after"
                              [] phase[t] = "after" -> "out"
                              [] phase[t] = "mid" -> "write"
                              [] phase[t] = "end" -> "read"
                              [] OTHER -> phase[t]
  BY DEF Block!Released, Block!PastBarrier
<1>3. ASSUME NEW t \in Block!Threads PROVE Block!Released(t) \in Phases
  BY <1>2 DEF BlockTyped, Phases, Block!Waiting
<1>4. BlockTyped' BY <1>1, <1>3 DEF BlockTyped
<1> QED BY <1>1, <1>2, <1>4

LEMMA GatheredInv ==
  ASSUME BlockTyped, NEW s \in Sections, NEW k \in Nat, NEW c \in Nat, Gathered(s, k, c),
         Block!Barrier
  PROVE  BlockInv'
<1>1. \A t \in Block!Threads : Stands(t, s, IF t = 0 THEN "in" ELSE "after", k, c)'
  BY Release DEF Gathered, Stands
<1>2. phase'[0] = "in" BY <1>1, ThreadZero DEF Stands
<1>3. CopyDone => CopyDone' BY Release DEF CopyDone, Copied
<1>4. InsideOf(s, k, c)'
  <2>1. ASSUME NEW t \in Block!Threads
        PROVE  (Stands(t, s, "after", k, c) \/ (t = 0 /\ Stands(t, s, "in", k, c)))'
    <3>1. CASE t = 0
      <4>1. Stands(t, s, "in", k, c)' BY <1>1, <3>1 DEF Stands
      <4> QED BY <3>1, <4>1
    <3>2. CASE t # 0
      <4>1. Stands(t, s, "after", k, c)' BY <1>1, <3>2 DEF Stands
      <4> QED BY <4>1
    <3> QED BY <3>1, <3>2
  <2> QED BY <1>2, <1>3, <2>1, Release DEF InsideOf, Gathered
<1> QED BY <1>4, Release DEF BlockInv, Interval

LEMMA InsideInv ==
  ASSUME BlockTyped, NEW s \in Sections, NEW k \in Nat, NEW c \in Nat, InsideOf(s, k, c),
         Block!Barrier
  PROVE  BlockInv'
<1>1. \A t \in Block!Threads : Stands(t, s, "after", k, c)
  <2>1. s # "exit" /\ "in" \notin Block!Waiting BY DEF Sections, Block!Waiting
  <2> QED BY <2>1, Release DEF AllWait, InsideOf, Stands
<1>2. \A t \in Block!Threads : Stands(t, s, "out", k, c)' BY <1>1, Release DEF Stands
<1>3. phase[0] = "after" BY <1>1, ThreadZero DEF Stands
<1>4. Below(0) => Below(0)' BY Release DEF Below
<1>5. Leaving(s, k, c)'
  <2>1. \A t \in Block!Threads : OnTheWay(t, s, k, c)' BY <1>2 DEF OnTheWay
  <2> QED BY <1>3, <1>4, <2>1, Release DEF Leaving, InsideOf
<1> QED BY <1>5, Release DEF BlockInv, Interval

\* All threads make the same number of steps.
LEMMA SameSteps ==
  ASSUME NEW k \in Nat, NEW c \in Nat, NEW m \in Nat, Reading(k, c, m), NEW t \in Block!Threads
  PROVE  Block!MoveSteps(t) = (frame.copy.count + kZstdBlockThreads - 1) \div kZstdBlockThreads
BY DEF Reading, ReadsAt, Block!MoveSteps

\* After its last step a move is complete.
LEMMA StepsSuffice ==
  ASSUME NEW count \in Nat, NEW n \in Nat \ {0}
  PROVE  /\ (count + n - 1) \div n \in Nat
         /\ ((count + n - 1) \div n) * n >= count
<1>1. PICK a \in Nat : a = count + n - 1 OBVIOUS
<1>2. a \div n \in Nat /\ a = n * (a \div n) + (a % n) /\ a % n \in 0..n - 1
  BY DivMod, ModRange
<1>3. PICK q \in Nat : q = a \div n BY <1>2
<1>4. PICK p \in Int : p = n * q BY <1>3
<1>5. a = p + (a % n) BY <1>2, <1>3, <1>4
<1>6. p >= count BY <1>1, <1>2, <1>5
<1>7. q * n = p BY <1>3, <1>4
<1> QED BY <1>1, <1>2, <1>3, <1>6, <1>7

LEMMA ReadingInv ==
  ASSUME BlockTyped, NEW k \in Nat, NEW c \in Nat, NEW m \in Nat, Reading(k, c, m),
         Block!Barrier
  PROVE  BlockInv'
<1>1. PICK steps : steps = (frame.copy.count + kZstdBlockThreads - 1) \div kZstdBlockThreads
  OBVIOUS
<1>2. \A t \in Block!Threads : ReadsAt(t, k, c, m) /\ Block!MoveSteps(t) = steps
  BY <1>1, SameSteps DEF Reading
<1>3. \A t \in Block!Threads : phase[t] \in {"mid", "before"}
  BY <1>2, Release DEF AllWait, ReadsAt, Stands, Block!Waiting
<1>4. CASE m = steps
  <2>1. \A t \in Block!Threads : Stands(t, "advance", "before", k, c)
    BY <1>2, <1>3, <1>4 DEF ReadsAt, Stands
  <2>2. Base(m) >= frame.copy.count BY <1>1, <1>4, FrameCopy, BlockConsts, StepsSuffice DEF Base
  <2>3. CopyDone
    <3>1. Base(m) \in Nat /\ frame.compressed /\ Below(Base(m)) BY BlockConsts DEF Base, Reading
    <3>2. ASSUME NEW i \in 0..frame.copy.count - 1 PROVE Copied(i)
      <4>1. i \in Bytes /\ i < Base(m) /\ i < frame.copy.count /\ i \in Nat
        BY <2>2, <3>1, FrameCopy, BlockConsts DEF Bytes
      <4>2. mem[i] = i + frame.copy.src BY <3>1, <4>1 DEF Below
      <4>3. i + frame.copy.src = frame.copy.src + i BY <4>1, FrameCopy
      <4> QED BY <3>1, <4>2, <4>3 DEF Copied
    <3> QED BY <3>2 DEF CopyDone
  <2>4. Gathered("advance", k, c) BY <2>1, <2>3 DEF Gathered
  <2>5. "advance" \in Sections BY DEF Sections
  <2> QED BY <2>4, <2>5, GatheredInv
<1>5. CASE m # steps
  <2>1. \A t \in Block!Threads :
          /\ Stands(t, "move", "mid", k, c) /\ copy[t] = frame.copy /\ moved[t] = m
          /\ Base(m) + t < frame.copy.count => byte[t] = frame.copy.src + Base(m) + t
    BY <1>2, <1>3, <1>5 DEF ReadsAt, Stands
  <2>2. \A t \in Block!Threads : WritesAt(t, k, c, m)'
    BY <2>1, Release DEF WritesAt, Stands, Base
  <2>3. ASSUME NEW a \in Bytes
        PROVE  /\ a < Base(m) /\ a < frame.copy.count => mem[a] = a + frame.copy.src
               /\ a >= Base(m) + kZstdBlockThreads \/ a >= frame.copy.count => mem[a] = a
    <3>1. mem[a] = IF a < Base(m) /\ a < frame.copy.count THEN a + frame.copy.src ELSE a
      BY DEF Reading, Below
    <3>2. Base(m) \in Nat /\ a \in Nat BY BlockConsts DEF Base, Bytes
    <3>3. a >= Base(m) + kZstdBlockThreads \/ a >= frame.copy.count
          => ~(a < Base(m) /\ a < frame.copy.count)
      BY <3>2, FrameCopy, BlockConsts
    <3> QED BY <3>1, <3>3
  <2>4. frame.compressed' BY Release DEF Reading
  <2>5. Writing(k, c, m)' BY <2>2, <2>3, <2>4, Release DEF Writing, Base
  <2>6. "advance" \in Sections BY DEF Sections
  <2> QED BY <2>5, <2>6, Release DEF BlockInv, Interval
<1> QED BY <1>4, <1>5

LEMMA WritingInv ==
  ASSUME BlockTyped, NEW k \in Nat, NEW c \in Nat, NEW m \in Nat, Writing(k, c, m),
         Block!Barrier
  PROVE  BlockInv'
<1>1. \A t \in Block!Threads :
        /\ Stands(t, "move", "end", k, c) /\ copy[t] = frame.copy /\ moved[t] = m + 1
        /\ Base(m) + t < frame.copy.count => mem[Base(m) + t] = frame.copy.src + Base(m) + t
  BY Release DEF AllWait, Writing, WritesAt, Stands, Block!Waiting
<1>2. PICK b \in Nat : b = Base(m) BY BlockConsts DEF Base
<1>3. Base(m + 1) = b + kZstdBlockThreads BY <1>2, BlockConsts DEF Base
<1>4. m + 1 \in Nat /\ "advance" \in Sections BY DEF Sections
<1>5. \A t \in Block!Threads : ReadsAt(t, k, c, m + 1)'
  BY <1>1, Release DEF ReadsAt, Stands
<1>6. ASSUME NEW a \in Bytes
      PROVE  mem[a] = IF a < b + kZstdBlockThreads /\ a < frame.copy.count
                      THEN a + frame.copy.src ELSE a
  <2>1. /\ a < b /\ a < frame.copy.count => mem[a] = a + frame.copy.src
        /\ a >= b + kZstdBlockThreads \/ a >= frame.copy.count => mem[a] = a
    BY <1>2 DEF Writing
  <2>2. a \in Nat BY BlockConsts DEF Bytes
  <2>3. CASE a < b BY <2>1, <2>2, <2>3, <1>2, FrameCopy, BlockConsts
  <2>4. CASE a >= b /\ a < b + kZstdBlockThreads /\ a < frame.copy.count
    <3>1. PICK t \in Nat : t = a - b BY <2>2, <2>4
    <3>2. t \in Block!Threads /\ b + t = a BY <2>2, <2>4, <3>1, BlockConsts DEF Block!Threads
    <3>3. mem[a] = frame.copy.src + b + t BY <1>1, <1>2, <2>4, <3>2
    <3>4. frame.copy.src + b + t = a + frame.copy.src BY <3>1, <3>2, FrameCopy, <2>2
    <3> QED BY <2>4, <3>3, <3>4
  <2>5. CASE a >= b + kZstdBlockThreads \/ a >= frame.copy.count
    BY <2>1, <2>2, <2>5, FrameCopy, BlockConsts
  <2> QED BY <2>2, <2>3, <2>4, <2>5, FrameCopy, BlockConsts
<1>7. Below(Base(m + 1))' BY <1>3, <1>6, Release DEF Below, Base
<1>8. frame.compressed' BY Release DEF Writing
<1>9. Reading(k, c, m + 1)' BY <1>5, <1>7, <1>8 DEF Reading
<1> QED BY <1>4, <1>9, Release DEF BlockInv, Interval

LEMMA BarrierInvariant == ASSUME BlockInv, Block!Barrier PROVE BlockInv'
<1>0. BlockTyped /\ AllWait BY Release DEF BlockInv
<1>1. PICK s \in Sections, k \in Nat, c \in Nat, m \in Nat :
        Gathered(s, k, c) \/ InsideOf(s, k, c) \/ Leaving(s, k, c)
        \/ Reading(k, c, m) \/ Writing(k, c, m)
  BY DEF BlockInv, Interval
<1>2. CASE Leaving(s, k, c) /\ ~(s = "decode" /\ frame.status = "OK")
  BY <1>0, <1>2, LeftGathers, GatheredInv
<1>3. CASE Leaving(s, k, c) /\ s = "decode" /\ frame.status = "OK"
  BY <1>0, <1>3, LeftReads, ReadingInv
<1> QED BY <1>0, <1>1, <1>2, <1>3, GatheredInv, InsideInv, ReadingInv, WritingInv

-----------------------------------------------------------------------------
(* The theorems about a Zstd block.                                        *)

LEMMA BlockStep ==
  ASSUME BlockInv, [LaunchesNext]_LaunchesVars PROVE BlockInv'
<1>1. CASE Block!Barrier BY <1>1, BarrierInvariant
<1>2. CASE Block!Section BY <1>2, SectionInv
<1>3. CASE \E t \in Block!Threads : Block!Act(t) BY <1>3, ActInv
<1>4. CASE UNCHANGED blockVars
  <2>1. UNCHANGED <<place, phase, step, chunk, copy, moved, byte, frame, mem>>
    BY <1>4 DEF blockVars
  <2>2. BlockTyped' BY <2>1 DEF BlockInv, BlockTyped
  <2>3. PICK s \in Sections, k \in Nat, c \in Nat, m \in Nat :
          Gathered(s, k, c) \/ InsideOf(s, k, c) \/ Leaving(s, k, c)
          \/ Reading(k, c, m) \/ Writing(k, c, m)
    BY DEF BlockInv, Interval
  <2>4. CopyDone => CopyDone' BY <2>1 DEF CopyDone, Copied
  <2>5. \A b : Below(b) => Below(b)' BY <2>1 DEF Below
  <2>6. \A t \in Block!Threads : Still(t) BY <2>1 DEF Still
  <2>7. CASE Gathered(s, k, c)
    <3>1. Gathered(s, k, c)' BY <2>1, <2>4, <2>7 DEF Gathered, Stands
    <3> QED BY <2>2, <3>1 DEF BlockInv, Interval
  <2>8. CASE InsideOf(s, k, c)
    <3>1. InsideOf(s, k, c)' BY <2>1, <2>4, <2>5, <2>8 DEF InsideOf, Stands
    <3> QED BY <2>2, <3>1 DEF BlockInv, Interval
  <2>9. CASE Leaving(s, k, c)
    <3>1. \A t : Filled(t) => Filled(t)' BY <2>1 DEF Filled, Copied
    <3>2. \A t \in Block!Threads : (OnTheWay(t, s, k, c) \/ Reached(t, s, k, c))'
      BY <2>1, <2>6, <2>9, <3>1, OthersOnTheWay, OthersReached DEF Leaving
    <3>3. Leaving(s, k, c)' BY <2>1, <2>5, <2>9, <3>2 DEF Leaving
    <3> QED BY <2>2, <3>3 DEF BlockInv, Interval
  <2>10. CASE Reading(k, c, m)
    <3>1. Reading(k, c, m)'
      BY <2>1, <2>5, <2>10 DEF Reading, ReadsAt, Stands, Base, Block!MoveSteps, Below
    <3> QED BY <2>2, <3>1 DEF BlockInv, Interval
  <2>11. CASE Writing(k, c, m)
    <3>1. Writing(k, c, m)' BY <2>1, <2>11 DEF Writing, WritesAt, Stands, Base
    <3> QED BY <2>2, <3>1 DEF BlockInv, Interval
  <2> QED BY <2>3, <2>7, <2>8, <2>9, <2>10, <2>11
<1>5. CASE ~UNCHANGED blockVars
  <2>1. Block!Barrier \/ Block!Section \/ \E t \in Block!Threads : Block!Act(t)
    BY <1>5 DEF LaunchesNext, LaunchNext, DirectLaunch, Submission, WaveBody, BlockBody,
       ThreadBody, NextChunk, Returned, BenchBegin, BenchStep, BenchOver, launchVars, LaunchesVars
  <2> QED BY <1>1, <1>2, <1>3, <2>1
<1> QED BY <1>4, <1>5

LEMMA BlockInvariance == LaunchesSpec => []BlockInv
<1>1. LaunchesInit => BlockInv BY BlockInit DEF LaunchesInit, LaunchInit
<1>2. BlockInv /\ [LaunchesNext]_LaunchesVars => BlockInv' BY BlockStep
<1> QED BY <1>1, <1>2, PTL DEF LaunchesSpec

\* Every barrier of a Zstd block is met by all its threads at one place of the program,
\* so no thread reads the flags while thread 0 writes them (zstd_decode.cuh:47), for
\* every number of threads, frames and blocks and whatever the frames hold.
THEOREM LaunchNeverSplits == LaunchesSpec => []BlockNeverSplits
<1>1. BlockInv => BlockNeverSplits
  <2> SUFFICES ASSUME BlockInv PROVE BlockNeverSplits OBVIOUS
  <2>1. PICK s \in Sections, k \in Nat, c \in Nat, m \in Nat :
          Gathered(s, k, c) \/ InsideOf(s, k, c) \/ Leaving(s, k, c)
          \/ Reading(k, c, m) \/ Writing(k, c, m)
    BY DEF BlockInv, Interval
  <2>2. ASSUME phase[0] = "in", NEW t \in Block!Threads \ {0}
        PROVE  place[t] = place[0] /\ phase[t] = "after"
    <3>1. ~Reached(0, s, k, c) /\ ~OnTheWay(0, s, k, c)
      BY <2>2 DEF Reached, OnTheWay, ReadsAt, Stands
    <3>2. InsideOf(s, k, c)
      BY <2>1, <2>2, <3>1, ThreadZero DEF Gathered, Leaving, Reading, ReadsAt, Writing, WritesAt,
                                          Stands
    <3> QED BY <2>2, <3>2, ThreadZero DEF InsideOf, Stands
  <2>3. ASSUME \A v \in Block!Threads : place[v] = "exit" \/ phase[v] \in Block!Waiting,
               NEW t \in Block!Threads, NEW u \in Block!Threads
        PROVE  place[t] = place[u] /\ phase[t] = phase[u] /\ chunk[t] = chunk[u]
    <3>1. CASE AllWait
      <4>1. CASE Leaving(s, k, c) /\ ~(s = "decode" /\ frame.status = "OK")
        BY <3>1, <4>1, LeftGathers DEF Gathered, Stands, BlockInv
      <4>2. ASSUME NEW n \in Nat, Reading(k, c, n)
            PROVE  place[t] = place[u] /\ phase[t] = phase[u] /\ chunk[t] = chunk[u]
        <5>1. Block!MoveSteps(t) = Block!MoveSteps(u) BY <4>2, SameSteps
        <5> QED BY <2>3, <4>2, <5>1 DEF Reading, ReadsAt, Stands, Block!Waiting
      <4>3. CASE Leaving(s, k, c) /\ s = "decode" /\ frame.status = "OK"
        <5>1. Reading(k, c, 0) BY <3>1, <4>3, LeftReads
        <5> QED BY <4>2, <5>1
      <4>4. CASE Gathered(s, k, c) BY <4>4 DEF Gathered, Stands
      <4>5. CASE InsideOf(s, k, c)
        <5>1. s # "exit" /\ "in" \notin Block!Waiting BY DEF Sections, Block!Waiting
        <5> QED BY <2>3, <4>5, <5>1 DEF InsideOf, Stands
      <4>6. CASE Writing(k, c, m)
        BY <2>3, <4>6 DEF Writing, WritesAt, Stands, Block!Waiting
      <4> QED BY <2>1, <4>1, <4>2, <4>3, <4>4, <4>5, <4>6
    <3>2. CASE \A v \in Block!Threads : place[v] = "exit"
      <4>1. s # "exit" BY DEF Sections
      <4>2. Leaving(s, k, c)
        BY <2>1, <3>2, <4>1, ThreadZero DEF Gathered, InsideOf, Reading, ReadsAt, Writing, WritesAt,
                                            Stands
      <4>3. \A v \in Block!Threads : Stands(v, "exit", "exit", 0, c + 1)
        BY <3>2, <4>1, <4>2 DEF Leaving, OnTheWay, Reached, ReadsAt, Stands
      <4> QED BY <4>3 DEF Stands
    <3> QED BY <2>3, <3>1, <3>2 DEF AllWait
  <2> QED BY <2>2, <2>3 DEF BlockNeverSplits, Block!BlockNeverSplits
<1> QED BY <1>1, BlockInvariance, PTL

\* When the walk steps past a block of a frame, the bytes it asked for are all in place,
\* though the threads made the copy together and a move reads what it overwrites
\* (src/zstd_decode.cuh): for every number of threads, length and distance.
THEOREM LaunchCopies == LaunchesSpec => []CopyComplete
<1>1. BlockInv => CopyComplete
  <2> SUFFICES ASSUME BlockInv, place[0] = "advance", phase[0] = "in",
                      NEW i \in 0..frame.copy.count - 1
               PROVE  mem[frame.copy.dst + i] = IF frame.compressed THEN frame.copy.src + i
                                                ELSE Block!SourceByte(i, frame.copy.rle)
    BY DEF CopyComplete, Block!CopyComplete
  <2>1. PICK s \in Sections, k \in Nat, c \in Nat, m \in Nat :
          Gathered(s, k, c) \/ InsideOf(s, k, c) \/ Leaving(s, k, c)
          \/ Reading(k, c, m) \/ Writing(k, c, m)
    BY DEF BlockInv, Interval
  <2>2. ~Reached(0, s, k, c) /\ ~OnTheWay(0, s, k, c)
    BY DEF Reached, OnTheWay, ReadsAt, Stands
  <2>3. InsideOf(s, k, c)
    BY <2>1, <2>2, ThreadZero DEF Gathered, Leaving, Reading, ReadsAt, Writing, WritesAt, Stands
  <2>4. s = "advance" BY <2>3, ThreadZero DEF InsideOf, Stands
  <2>5. Copied(i) BY <2>3, <2>4 DEF InsideOf, CopyDone
  <2>6. frame.copy.dst + i = i BY FrameCopy DEF BlockInv
  <2> QED BY <2>5, <2>6 DEF Copied
<1> QED BY <1>1, BlockInvariance, PTL

=============================================================================
