------------------------------ MODULE TileStream ------------------------------
(***************************************************************************)
(* A whole GDeflate TileStream (src/tilestream.h, src/tilestream.cpp): the *)
(* envelope's table of offsets, the plan it becomes, and the decode of its *)
(* tiles on a streaming context.  The context is what StreamCtx shows it   *)
(* to be: it decodes each tile or refuses it, may fault and is then dead.  *)
(***************************************************************************)
EXTENDS Integers, Sequences, FiniteSetsExt

CONSTANTS
  Files,         \* the envelopes a caller may hold, records as below
  DstCaps,       \* capacities of the caller's destination
  ResultCaps,    \* lengths of the caller's array of tile records
  MaxCalls,      \* bound on the calls made
  HeaderBytes,   \* 8
  EntryBytes,    \* 4
  TileSize,      \* 65536
  WordMax        \* the largest 32-bit word

(* What an envelope's bytes say.  toc[0] is the last tile's compressed size *)
(* and toc[i] the offset of tile i.  pages is what each tile's page would   *)
(* decode to, were the capacity no limit; Refused stands for a bad page.    *)
Refused == -1
IsFile(f) ==
  /\ f.size \in Nat /\ f.complement \in BOOLEAN /\ f.count \in Nat
  /\ f.index_ok \in BOOLEAN /\ f.reserved \in Nat /\ f.last_tile_size \in Nat
  /\ f.toc \in [0 .. f.count - 1 -> 0 .. WordMax]
  /\ f.pages \in [0 .. f.count - 1 -> Nat \cup {Refused}]

ASSUME TileStreamAssumption ==
  /\ \A f \in Files : IsFile(f)
  /\ DstCaps \subseteq Nat /\ ResultCaps \subseteq Nat
  /\ {MaxCalls, HeaderBytes, EntryBytes, TileSize, WordMax} \subseteq Nat \ {0}

VARIABLES
  file,          \* the container every call is about
  ctx,           \* "none", "live", "poisoned"
  info,          \* the last answer of cudec_gdeflate_tilestream_info
  asked,         \* by the last decode: the caller's two capacities
  answer,        \* its status, and whether the envelope was accepted
  records,       \* the caller's h_tile_results
  bytes_written,
  dst,           \* the caller's destination: which tile's decode wrote each byte
  calls

vars == <<file, ctx, info, asked, answer, records, bytes_written, dst, calls>>

Untouched == [status |-> "untouched", bytes |-> 0]
NotDecoded == [status |-> "cuda", bytes |-> 0]
NoInfo == [status |-> "none", tiles |-> 0, size |-> 0]
NoAnswer == [status |-> "none", accepted |-> FALSE]
Caller == -1   \* who wrote the bytes a decode has not
Tiles(f) == 0 .. f.count - 1
Slots == UNION {0 .. n - 1 : n \in ResultCaps}
Bytes == UNION {0 .. n - 1 : n \in DstCaps}

Init ==
  /\ file \in Files
  /\ ctx = "none" /\ calls = 0
  /\ info = NoInfo /\ answer = NoAnswer /\ asked = [dst |-> 0, results |-> 0]
  /\ records = [s \in Slots |-> Untouched] /\ bytes_written = 0
  /\ dst = [b \in Bytes |-> Caller]

-----------------------------------------------------------------------------
(* The envelope *)

TocEnd(f) == HeaderBytes + EntryBytes * f.count

(* Where tile i's bytes start: tile 0's after the table. *)
SrcOff(f, i) == IF i = 0 THEN TocEnd(f) ELSE f.toc[i]

(* What the last tile spans is its own entry; another's, up to the next. *)
SrcSize(f, i) ==
  IF i = f.count - 1 THEN f.toc[0] ELSE SrcOff(f, i + 1) - SrcOff(f, i)

(* Bug the runs must catch: offset and size meet in 32 bits. *)
LastEndNarrow(f) == (SrcOff(f, f.count - 1) + SrcSize(f, f.count - 1)) % (WordMax + 1)

(* The only end no following offset implies, summed in 64 bits. *)
LastEnd(f) == SrcOff(f, f.count - 1) + SrcSize(f, f.count - 1)

(* Zero is the full tile's spelling for the last one. *)
DstSize(f, i) ==
  IF i = f.count - 1 /\ f.last_tile_size # 0 THEN f.last_tile_size ELSE TileSize

(* In closed form, as the parser computes it. *)
Total(f) ==
  f.count * TileSize
    - IF f.last_tile_size # 0 THEN TileSize - f.last_tile_size ELSE 0

Ascends(f) == \A i \in 1 .. f.count - 1 : f.toc[i] > SrcOff(f, i - 1)

(* TileStreamParse into an array of `capacity` entries. *)
Parse(f, capacity) ==
  IF \/ f.size < HeaderBytes \/ ~f.complement \/ f.count = 0
     \/ ~f.index_ok \/ f.reserved # 0 \/ f.last_tile_size >= TileSize
  THEN "corrupt"
  ELSE IF capacity < f.count THEN "invalid_argument"
  ELSE IF \/ f.size < TocEnd(f) \/ f.toc[0] = 0 \/ ~Ascends(f)
          \/ LastEnd(f) > f.size
       THEN "corrupt"
  ELSE "ok"

(* TileStreamDeclaredTileCount: what the array is sized from. *)
DeclaredTileCount(f) ==
  IF f.size < HeaderBytes \/ ~f.complement THEN 0 ELSE f.count

ParseEnvelope(f) == Parse(f, DeclaredTileCount(f))

-----------------------------------------------------------------------------
(* The plan and its run *)

(* BuildTileStreamPlan, once the pointers are not null. *)
PlanStatus(f, dst_capacity, results_capacity) ==
  IF ParseEnvelope(f) # "ok" THEN ParseEnvelope(f)
  ELSE IF results_capacity < f.count THEN "invalid_argument"
  ELSE IF dst_capacity < Total(f) THEN "output_too_small"
  ELSE "ok"

(* out_off, as the tiles before i leave it. *)
DstOff(f, i) ==
  LET out_off[k \in 0 .. i] == IF k = 0 THEN 0 ELSE out_off[k - 1] + DstSize(f, k - 1)
  IN  out_off[i]

(* The capacity a tile decodes into is its declared size. *)
DstCap(f, i) == DstSize(f, i)

(* What the page decoder reports for a tile: its own bytes, no more than    *)
(* the capacity, with no comparison from below.                            *)
PageResult(f, i) ==
  IF f.pages[i] = Refused THEN [status |-> "corrupt", bytes |-> 0]
  ELSE IF f.pages[i] > DstCap(f, i) THEN [status |-> "output_too_small", bytes |-> 0]
  ELSE [status |-> "ok", bytes |-> f.pages[i]]

(* DecodeOnStreamCtx of the tiles: those in `done` finished before any      *)
(* fault, the others read not produced.                                     *)
Decoded(f, done) ==
  [s \in Slots |-> IF s \notin Tiles(f) THEN records[s]
                   ELSE IF s \in done THEN PageResult(f, s) ELSE NotDecoded]

(* The first bad status in tile order. *)
Aggregate(f, r) ==
  LET bad == {i \in Tiles(f) : r[i].status # "ok"}
  IN  IF bad = {} THEN "ok" ELSE r[Min(bad)].status

(* Bytes a decode has put in the caller's destination, by tile; the others  *)
(* are what the caller had there.                                           *)
Stored(f, r, delivered) ==
  [b \in Bytes |->
     LET mine == {i \in delivered : /\ r[i].status = "ok"
                                    /\ b \in DstOff(f, i) .. DstOff(f, i) + r[i].bytes - 1}
     IN  IF mine = {} THEN Caller ELSE Max(mine)]

(* Bug the runs must catch: what a tile produced is not compared. *)
AcceptShort(f, r) == r

(* A tile that decoded must have decoded exactly what was declared. *)
RefuseShort(f, r) ==
  [s \in Slots |-> IF s \in Tiles(f) /\ r[s].bytes # DstCap(f, s)
                   THEN [status |-> "corrupt", bytes |-> 0] ELSE r[s]]

(* RunTileStreamPlan over what the context answered: a stream that did not  *)
(* decode is answered as it is, one that did is held to its declaration.    *)
RunPlan(f, r, st, delivered) ==
  LET whole == IF st = "ok" THEN RefuseShort(f, r) ELSE r
      final == IF st = "ok" THEN Aggregate(f, whole) ELSE st
  IN  /\ records' = whole
      /\ dst' = Stored(f, r, delivered)
      /\ answer' = [status |-> final, accepted |-> TRUE]
      /\ bytes_written' = IF final = "ok" THEN Total(f) ELSE 0

(* Every tile was decoded or refused. *)
Completes(f) ==
  LET r == Decoded(f, Tiles(f))
  IN  RunPlan(f, r, Aggregate(f, r), Tiles(f))

(* A fault between any two waves.  A copy to the host that fails leaves a   *)
(* finished tile undelivered.                                               *)
Faults(f) ==
  \E done \in SUBSET Tiles(f) : \E delivered \in SUBSET done :
    RunPlan(f, Decoded(f, done), "cuda", delivered)

(* The page decoder declines the device: nothing was launched. *)
Declines(f) == RunPlan(f, Decoded(f, {}), "unsupported", {})

(* Nothing ran: a dead context, or none could be made.  Every tile stamped. *)
NeverRuns(f) == RunPlan(f, Decoded(f, {}), "cuda", {})

-----------------------------------------------------------------------------
(* The entries *)

Counted == calls < MaxCalls /\ calls' = calls + 1

(* cudec_gdeflate_tilestream_info, which may not find the memory for the    *)
(* table it parses into.                                                    *)
Info ==
  /\ Counted
  /\ \/ info' = [NoInfo EXCEPT !.status = "cuda"]
     \/ info' = IF ParseEnvelope(file) = "ok"
                THEN [status |-> "ok", tiles |-> file.count, size |-> Total(file)]
                ELSE [NoInfo EXCEPT !.status = ParseEnvelope(file)]
  /\ UNCHANGED <<file, ctx, asked, answer, records, bytes_written, dst>>

CreateContext ==
  /\ ctx = "none" /\ Counted /\ ctx' = "live"
  /\ UNCHANGED <<file, info, asked, answer, records, bytes_written, dst>>

Asks(dst_capacity, results_capacity) ==
  /\ Counted
  /\ asked' = [dst |-> dst_capacity, results |-> results_capacity]
  /\ UNCHANGED <<file, info>>

(* Either entry, before a context is looked at or made: the envelope and    *)
(* the capacities, or no memory for the plan.                               *)
Refuse(dst_capacity, results_capacity) ==
  /\ Asks(dst_capacity, results_capacity)
  /\ \E st \in {"cuda", PlanStatus(file, dst_capacity, results_capacity)} \ {"ok"} :
       answer' = [status |-> st, accepted |-> FALSE]
  /\ bytes_written' = 0 /\ dst' = [b \in Bytes |-> Caller]
  /\ UNCHANGED <<ctx, records>>

Accepts(dst_capacity, results_capacity) ==
  /\ Asks(dst_capacity, results_capacity)
  /\ PlanStatus(file, dst_capacity, results_capacity) = "ok"

(* cudec_gdeflate_tilestream_decompress_ctx, the envelope accepted. *)
DecompressCtx(dst_capacity, results_capacity) ==
  /\ Accepts(dst_capacity, results_capacity)
  /\ \/ ctx = "live" /\ (Completes(file) \/ Declines(file)) /\ UNCHANGED ctx
     \/ ctx = "live" /\ Faults(file) /\ ctx' = "poisoned"
     \/ ctx = "poisoned" /\ NeverRuns(file) /\ UNCHANGED ctx

(* cudec_gdeflate_tilestream_decompress, the envelope accepted: a context   *)
(* of its own, if it can be made, destroyed whatever came of it.            *)
OneShot(dst_capacity, results_capacity) ==
  /\ ctx = "none"
  /\ Accepts(dst_capacity, results_capacity)
  /\ Completes(file) \/ Declines(file) \/ Faults(file) \/ NeverRuns(file)
  /\ UNCHANGED ctx

Next ==
  \/ Info \/ CreateContext
  \/ \E d \in DstCaps, r \in ResultCaps : Refuse(d, r) \/ DecompressCtx(d, r) \/ OneShot(d, r)

Spec == Init /\ [][Next]_vars

-----------------------------------------------------------------------------
(* Properties *)

SrcRange(i) == SrcOff(file, i) .. SrcOff(file, i) + SrcSize(file, i) - 1
DstRange(i) == DstOff(file, i) .. DstOff(file, i) + DstCap(file, i) - 1

(* An envelope that is accepted gives every tile bytes of its own: the      *)
(* compressed ranges are not empty, do not overlap and lie between the      *)
(* table and the end of the stream although only an upper bound on the last *)
(* is compared; the output ranges fill the declared total exactly and fit   *)
(* the caller's destination, and each tile has a record                     *)
(* (src/tilestream.h TileStreamParse, src/tilestream.cpp                    *)
(* BuildTileStreamPlan).                                                    *)
TilesHaveTheirOwn ==
  answer.accepted =>
    /\ \A i \in Tiles(file) :
         /\ SrcRange(i) # {} /\ SrcRange(i) \subseteq TocEnd(file) .. file.size - 1
         /\ DstRange(i) # {} /\ DstRange(i) \subseteq 0 .. asked.dst - 1
         /\ i < asked.results
    /\ \A i, j \in Tiles(file) :
         i # j => SrcRange(i) \cap SrcRange(j) = {} /\ DstRange(i) \cap DstRange(j) = {}
    /\ UNION {DstRange(i) : i \in Tiles(file)} = 0 .. Total(file) - 1

(* The answer is about the whole stream: success covers exactly the bytes   *)
(* the tiles' own pages decoded to, with no byte the caller had there       *)
(* before, and every record says so; anything else claims no byte           *)
(* (src/tilestream.cpp RunTileStreamPlan).  And what the sizing entry       *)
(* answers holds for the decode that follows: a caller who brings that many *)
(* bytes and records is not refused for want of room, and a stream it       *)
(* refused is refused for the same reason, dead context or none             *)
(* (src/tilestream.cpp ParseEnvelope).                                      *)
StreamIsWhole ==
  /\ IF answer.status = "ok"
     THEN /\ bytes_written = Total(file)
          /\ \A b \in 0 .. bytes_written - 1 : dst[b] # Caller /\ b \in DstRange(dst[b])
          /\ \A i \in Tiles(file) : records[i] = [status |-> "ok", bytes |-> file.pages[i]]
     ELSE bytes_written = 0
  /\ info.status \notin {"none", "cuda"} /\ answer.status # "none" /\ ~answer.accepted =>
       \/ answer.status \in {"cuda", info.status}
       \/ info.status = "ok" /\ (asked.dst < info.size \/ asked.results < info.tiles)

(* include/cudec.h says that every tile must produce exactly what the       *)
(* envelope declared for it, and that one that falls short is corrupt: no   *)
(* record of an accepted call reads decoded with fewer bytes.               *)
OkTileIsWhole ==
  answer.accepted => \A i \in Tiles(file) :
    records[i].status = "ok" => records[i].bytes = DstCap(file, i)
=============================================================================
