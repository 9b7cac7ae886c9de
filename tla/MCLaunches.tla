----------------------------- MODULE MCLaunches -----------------------------
(* What a parser may hand the wave; the runs of the benchmarks and their corpora. *)
EXTENDS Launches

\* The elements a parser may hand back: runs and matches of the lengths that matter
\* to a wave of three lanes, at every place and distance; a literal is told by the
\* position it goes to, and an empty half says nothing.
MCHanded ==
  {[lit_src |-> IF lit = 0 THEN 0 ELSE IF p < SrcSize - lit THEN p ELSE SrcSize - lit,
    lit_dst |-> IF lit = 0 THEN 0 ELSE p, lit_len |-> lit,
    off |-> IF match = 0 THEN 1 ELSE off, match_dst |-> IF match = 0 THEN 0 ELSE p + lit,
    match_len |-> match] :
      p \in 0..DstCap, lit \in {0, 1, 4}, off \in 1..DstCap, match \in {0, 2, 4}}

Multiples == <<0, 1, 2>>

Plain == [bench |-> "lz4", kernel |-> "chunk", mode |-> "", malformed |-> FALSE, generated |-> {}, shapes |-> {},
          files |-> FALSE, warmup |-> 1, runs |-> 2,
          counts_given |-> FALSE, gpu |-> FALSE, context |-> FALSE, frame |-> FALSE, literals |-> FALSE, selfcheck |-> FALSE]
Lz4Jobs ==
  {Plain, [Plain EXCEPT !.malformed = TRUE],
   [Plain EXCEPT !.gpu = TRUE, !.context = TRUE, !.literals = TRUE],
   [Plain EXCEPT !.context = TRUE, !.warmup = 0, !.runs = 1],
   [Plain EXCEPT !.generated = {"worst4b"}, !.gpu = TRUE, !.selfcheck = TRUE],
   [Plain EXCEPT !.generated = {"worst4b", "longmatch"}],
   [Plain EXCEPT !.generated = {"longmatch"}, !.files = TRUE],
   [Plain EXCEPT !.frame = TRUE], [Plain EXCEPT !.frame = TRUE, !.gpu = TRUE],
   [Plain EXCEPT !.frame = TRUE, !.files = TRUE],
   [Plain EXCEPT !.frame = TRUE, !.selfcheck = TRUE]}
Streams == [Plain EXCEPT !.bench = "snappy"]
SnappyJobs ==
  {Streams, [Streams EXCEPT !.malformed = TRUE], [Streams EXCEPT !.selfcheck = TRUE, !.gpu = TRUE],
   [Streams EXCEPT !.files = TRUE, !.literals = TRUE],
   [Streams EXCEPT !.files = TRUE, !.shapes = {"chunked"}, !.gpu = TRUE, !.runs = 1],
   [Streams EXCEPT !.selfcheck = TRUE], [Streams EXCEPT !.selfcheck = TRUE, !.files = TRUE, !.shapes = {"whole"}],
   [Streams EXCEPT !.generated = {"worst"}, !.selfcheck = TRUE],
   [Streams EXCEPT !.generated = {"worstlit"}, !.gpu = TRUE, !.runs = 1],
   [Streams EXCEPT !.generated = {"worst", "worstlit"}],
   [Streams EXCEPT !.generated = {"worst"}, !.files = TRUE]}
Pages == [Plain EXCEPT !.bench = "gdeflate", !.kernel = "gdeflate"]
GDeflateJobs ==
  {Pages, [Pages EXCEPT !.files = TRUE, !.gpu = TRUE],
   [Pages EXCEPT !.selfcheck = TRUE], [Pages EXCEPT !.selfcheck = TRUE, !.gpu = TRUE],
   [Pages EXCEPT !.generated = {"blocktypes"}, !.selfcheck = TRUE],
   [Pages EXCEPT !.generated = {"blockmix", "assetlike"}, !.selfcheck = TRUE],
   [Pages EXCEPT !.generated = {"blockmix"}, !.files = TRUE],
   [Pages EXCEPT !.generated = {"blockmix", "blocktypes"}],
   [Pages EXCEPT !.generated = {"worstrounds"}, !.gpu = TRUE],
   [Pages EXCEPT !.generated = {"worstrounds", "worstheaders"}],
   [Pages EXCEPT !.generated = {"tailwaste", "worstheaders"}],
   [Pages EXCEPT !.generated = {"tailwaste"}, !.files = TRUE, !.runs = 1],
   [Pages EXCEPT !.generated = {"tailwaste", "assetlike"}, !.selfcheck = TRUE]}
Frames == [Plain EXCEPT !.bench = "zstd"]
ZstdJobs ==
  {Frames, [Frames EXCEPT !.files = TRUE, !.counts_given = TRUE], [Frames EXCEPT !.selfcheck = TRUE],
   [Frames EXCEPT !.literals = TRUE, !.files = TRUE], [Frames EXCEPT !.literals = TRUE, !.selfcheck = TRUE],
   [Frames EXCEPT !.literals = TRUE, !.files = TRUE, !.counts_given = TRUE],
   [Frames EXCEPT !.literals = TRUE, !.generated = {"worst"}],
   [Frames EXCEPT !.generated = {"coverage"}, !.selfcheck = TRUE],
   [Frames EXCEPT !.generated = {"coverage"}, !.files = TRUE],
   [Frames EXCEPT !.generated = {"worst"}, !.counts_given = TRUE],
   [Frames EXCEPT !.generated = {"worst"}, !.selfcheck = TRUE],
   [Frames EXCEPT !.generated = {"worst", "coverage"}]}
MCJobs == Lz4Jobs \cup SnappyJobs \cup GDeflateJobs \cup ZstdJobs

Chunk == [round_trips |-> TRUE, parses |-> TRUE, device |-> "whole"]
Corpus(chunks) == [chunks |-> chunks, in_shape |-> TRUE, readable |-> TRUE, chunks_fit |-> TRUE,
                   pinned |-> TRUE, guards_bite |-> TRUE,
                   rungs |-> <<[blocks |-> 1, decodes |-> "same"],
                                                [blocks |-> 2, decodes |-> "same"]>>]
Good == Corpus(<<Chunk, Chunk, Chunk>>)
MCBatches ==
  {Good, Corpus(<<>>), Corpus(<<Chunk>>),
   Corpus(<<Chunk, [Chunk EXCEPT !.round_trips = FALSE]>>),
   Corpus(<<Chunk, [Chunk EXCEPT !.parses = FALSE]>>),
   Corpus(<<Chunk, [Chunk EXCEPT !.device = "short"]>>),
   Corpus(<<[Chunk EXCEPT !.device = "refused"]>>),
   [Good EXCEPT !.in_shape = FALSE], [Good EXCEPT !.readable = FALSE],
   [Good EXCEPT !.chunks_fit = FALSE], [Good EXCEPT !.pinned = FALSE],
   [Good EXCEPT !.guards_bite = FALSE],
   [Good EXCEPT !.rungs = <<[blocks |-> 0, decodes |-> "same"]>>],
   [Good EXCEPT !.rungs = <<[blocks |-> 1, decodes |-> "same"], [blocks |-> 2, decodes |-> "other"]>>]}
=============================================================================
