--------------------------- MODULE MCGDeflateTeams ---------------------------
(* Three lanes and a small page for the two residencies. *)
EXTENDS GDeflateTeams

Literal(w) == [kind |-> "literal", width |-> w, value |-> 1]
Length(w, v) == [kind |-> "length", width |-> w, value |-> v]
MCLitLens == {Literal(3), Literal(8), Length(5, 1), Length(5, 2),
              [kind |-> "end", width |-> 2, value |-> 0],
              [kind |-> "bad", width |-> 1, value |-> 0]}
MCDists == {[kind |-> "dist", width |-> 3, value |-> 1],
            [kind |-> "dist", width |-> 8, value |-> 2],
            [kind |-> "bad", width |-> 1, value |-> 1]}
MCHeaders == [final : BOOLEAN, type : BlockTypes]
=============================================================================
