--------------------------- MODULE MCZstdEntropy ---------------------------
(***************************************************************************)
(* The entropy-coded parts of a Zstd block, each decoded by one thread     *)
(* from its own bytes: a table description, a weight stream, the literals, *)
(* the sequences. A behaviour decodes one of them, on tables of four       *)
(* cells: codes with and without extra bits, symbols less likely than one  *)
(* cell, and fields of one symbol.                                         *)
(***************************************************************************)
EXTENDS ZstdLiterals, ZstdSequences, TLC

vars == <<n, l, q, w>>

Init ==
  \/ InitDistribution /\ l = NoLiterals /\ q = NoSequences /\ w = NoWeights
  \/ InitLiterals /\ n = NoDistribution /\ q = NoSequences /\ w = NoWeights
  \/ InitSequences /\ n = NoDistribution /\ l = NoLiterals /\ w = NoWeights
  \/ InitWeights /\ n = NoDistribution /\ l = NoLiterals /\ q = NoSequences

Next ==
  \/ NextDistribution /\ UNCHANGED <<l, q, w>>
  \/ NextLiterals /\ UNCHANGED <<n, q, w>>
  \/ NextSequences /\ UNCHANGED <<n, l, w>>
  \/ NextWeights /\ UNCHANGED <<n, l, q>>

Spec == Init /\ [][Next]_vars

-----------------------------------------------------------------------------
Log == 2
Counts(last, some) == [s \in 0..last |-> IF s \in DOMAIN some THEN some[s] ELSE 0]
Table(counts) == [log |-> Log, cells |-> FseBuildDTable(counts, Log)]
One(symbol) == [log |-> 0, cells |-> RleTable(symbol)]

LitLen == Table(Counts(16, (0 :> 2) @@ (1 :> 1) @@ (16 :> 1)))
Offset == Table(Counts(2, (0 :> 1) @@ (1 :> 2) @@ (2 :> -1)))
MatchLen == Table(Counts(33, (0 :> 3) @@ (33 :> -1)))

MCTableChoices ==
  { [litlen |-> LitLen, offset |-> Offset, matchlen |-> MatchLen],
    [litlen |-> LitLen, offset |-> One(1), matchlen |-> MatchLen],
    [litlen |-> One(16), offset |-> Offset, matchlen |-> One(32)] }

MCWeightTables ==
  { Table(Counts(2, (0 :> 1) @@ (1 :> 2) @@ (2 :> 1))),
    Table(Counts(3, (1 :> -1) @@ (2 :> 2) @@ (3 :> -1))),
    Table(Counts(1, (1 :> 4))) }
=============================================================================
