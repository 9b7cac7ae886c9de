---------------------------- MODULE MCZstdFrame ----------------------------
(* Blocks and headers for TLC. *)
EXTENDS ZstdFrame

Lit(type, n) == [type |-> type, size |-> n]
Seq3(l, m, o) == [literals_length |-> l, match_length |-> m, offset_value |-> o]
Plain(lit, seqs, repeat, fault) ==
  [type |-> "compressed", size |-> 1, body |-> 1, lit |-> lit, seqs |-> seqs,
   repeat |-> repeat, fault |-> fault]
Simple(type, n) == [type |-> type, size |-> n]

Short == {Seq3(l, m, o) : l \in 0..1, m \in 1..2, o \in {1, 3, 5}}
Long == {Seq3(l, 1, o) : l \in 0..1, o \in {2, 4}}

Single == [magic |-> "zstd", reserved |-> FALSE, dictionary |-> FALSE, fcs_flag |-> 1,
           single_segment |-> TRUE, checksum |-> FALSE, content |-> 1, window |-> 0]
Windowed(window, content) == [Single EXCEPT !.single_segment = FALSE, !.window = window, !.content = content]
\* Accepted with a window below the content, with one of the same size, with a
\* checksum, past the capacity; and a descriptor for every refusal.
MCHeaders ==
  {Windowed(3, 0), Single, [Single EXCEPT !.checksum = TRUE], [Single EXCEPT !.content = 2],
   [Single EXCEPT !.fcs_flag = 2, !.content = 6],
   Windowed(7, 0), [Single EXCEPT !.magic = "skippable"], [Single EXCEPT !.magic = "other"],
   [Single EXCEPT !.reserved = TRUE], [Single EXCEPT !.dictionary = TRUE],
   [Windowed(3, 0) EXCEPT !.fcs_flag = 0], [Windowed(3, 0) EXCEPT !.fcs_flag = 3]}

\* Execution: up to two sequences of any kind, or three short ones.
MCExec ==
  {Plain(Lit("raw", n), s, {}, "none") :
     n \in 0..3, s \in {<<>>} \cup {<<a>> : a \in Short} \cup (Short \X Short) \cup (Long \X Long \X Long)}
\* Tables carried or not, and every malformed part.
MCTables ==
  {Plain(Lit(t, 1), s, r, f) :
     t \in {"compressed", "treeless", "rle"}, s \in {<<>>, <<Seq3(1, 1, 4)>>},
     r \in {{}, {"litlen"}, {"offset", "matchlen"}}, f \in {"none", "literals", "tables"}}
  \cup {Plain(Lit("raw", 1), <<Seq3(1, 1, 4), Seq3(0, 1, 4)>>, {}, "sequences")}
MCRaw == {Simple("raw", n) : n \in 0..2} \cup {Simple("rle", n) : n \in {0, 3}}
\* As many sequences as a block of four bytes admits, and one more; a window of
\* three refuses both.
Many(n) == [i \in 1..n |-> Seq3(0, 1, IF i = 1 THEN 4 ELSE 1)]
MCMany == {Plain(Lit("raw", 0), Many(n), {}, "none") : n \in 4..5}
MCBlocks == MCExec \cup MCTables \cup MCMany \cup MCRaw
=============================================================================
