-------------------------- MODULE MCGDeflateLengths --------------------------
(* Four lanes; a precode of two lengths, "repeat previous" and "zeros". *)
EXTENDS GDeflateLengths

Declared(l, d, e) == [litlen |-> l, dist |-> d, explicit |-> e]
MCCounts == {Declared(2, 1, 3), Declared(2, 2, 4), Declared(3, 2, 4)}
MCOrder == [i \in 0..3 |-> (i + 2) % 4]
MCExtraBits == [s \in 2..3 |-> 1]
MCRuns == [s \in 2..3 |-> IF s = 2 THEN {2, 3} ELSE {3}]
=============================================================================
