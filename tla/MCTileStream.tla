----------------------------- MODULE MCTileStream -----------------------------
(* Envelopes of up to three tiles of two bytes, in three-bit words: a header *)
(* of two bytes, entries of one.  The table is full of every chain of        *)
(* offsets and sizes, the pages decode to less, as much or more.             *)
EXTENDS TileStream

MCFile(size, count, last, toc, pages, flaw) ==
  [size |-> size, complement |-> flaw # "complement", count |-> count,
   index_ok |-> flaw # "index", reserved |-> IF flaw = "reserved" THEN 1 ELSE 0,
   last_tile_size |-> last, toc |-> toc, pages |-> pages]

MCPages == {Refused, 0, 1, 2, 3}

(* Every table, decoding as declared or not; and every flaw of the header. *)
MCFiles ==
  UNION {{MCFile(size, count, 1, toc, [i \in 0 .. count - 1 |-> IF i = count - 1 THEN 1 ELSE 2], "none") :
            size \in {2, 4, 5, 7, 9}, toc \in [0 .. count - 1 -> 0 .. 7]} : count \in 0 .. 3}
  \cup {MCFile(7, 2, last, [i \in 0 .. 1 |-> IF i = 0 THEN 1 ELSE 5], pages, flaw) :
          last \in 0 .. 2, pages \in [0 .. 1 -> MCPages],
          flaw \in {"none", "complement", "index", "reserved"}}
  \cup {MCFile(1, 2, 0, [i \in 0 .. 1 |-> 5], [i \in 0 .. 1 |-> 2], "none")}
=============================================================================
