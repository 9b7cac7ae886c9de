# TLA+ model of cudec

cudec is a library that decodes batches of LZ4, Snappy, GDeflate and Zstd data
on a GPU (CUDA, with a HIP port). This directory holds TLA+ modules of its
host/device protocol and of its decoding algorithms, TLC runs that check them
on small instances, and TLAPS proofs for every value of the constants.

## 1. Inventory of the system

Paths are relative to the repository root. "HD" marks host/device headers: the
same text is compiled for the CPU (where the tests run it) and for the GPU.

| Component | Files | State it keeps | Operations | Hard part |
| --- | --- | --- | --- | --- |
| Streaming context | `src/stream.cpp`, `src/stream_decode.h`, `src/vendor_raii.h` | one stream, one event, seven grow-only buffers, the `poisoned` latch | create, decode, one-shot decode, destroy | the host overwrites pinned memory the device may still read; every runtime call may fail; a fault must poison, a refusal must not |
| Wave sizing | `src/stream.cpp:77-106, 245-309` | loop variables | choose the chunks per wave, size the staging | `size_t` overflow, hostile mixes of sizes |
| Batch submission | `src/batch.cu`, `src/batch_limits.h`, `src/vendor_rt.h` | the thread's pending error | validate, query the wave width, launch | which error belongs to which call |
| Chunk decode kernel | `src/chunk_decode.cuh` | per warp: parser state in lane 0, copied to all lanes | parse a sequence, broadcast it, copy literals and match together | overlapping matches copied by 32 or 64 lanes at once |
| LZ4 block parser (HD) | `src/lz4_block.h`, `src/decode_sequence.h` | input and output offsets | `Next` | termination rule, length accumulation, bounds |
| Snappy block parser (HD) | `src/snappy_block.h` | offsets, declared length | `Begin`, `Next` | varint preamble, three copy forms |
| LZ4 frame (HD + host) | `src/lz4_frame.h`, `src/frame.cpp`, `src/xxhash32.h` | descriptor, list of blocks, output cursor | parse, walk, decode the compressed blocks on the device, merge stored runs, verify | order of rejects, assembling runs of stored and decoded blocks, per-block and content checksums |
| GDeflate schedule (HD) | `src/gdeflate_schedule.h` | 32 lanes' bit buffers, shared word cursor, pool of rights to read ahead | `Init`, `Ensure`, `Pop`, `Remove`, `Advance`, `Reset` | the words of 32 lanes are interleaved in one stream; who reads which word depends on the order of refills |
| GDeflate tables (HD) | `src/gdeflate_tables.h` | canonical decode tables, code lengths | build, resolve, read the dynamic header in rounds | over- and under-subscribed codes, repeat codes across alphabets |
| GDeflate block decode (HD + device) | `src/gdeflate_block.h`, `src/gdeflate_decode.cuh` | pending matches per lane, the output cursor | decode a page in rounds, retire deferred copies | a match may read bytes that an earlier lane of the round has yet to write |
| GDeflate TileStream | `src/tilestream.h`, `src/tilestream.cpp` | envelope, tile plan | info, decode on a context, one-shot | offsets that do not grow, the last tile's size |
| Zstd frame (HD) | `src/zstd_frame.h`, `src/xxhash64.h` | frame and block headers | parse, verify | descriptor-dependent field widths, window and size limits |
| Zstd bitstream (HD) | `src/zstd_bitstream.h` | backward bit cursor | init, read | overrun is allowed to be noticed late |
| Zstd FSE / Huffman (HD) | `src/zstd_fse.h`, `src/zstd_huf.h` | decoding tables | read the distribution, spread, decode | exact probability accounting, last weight implied |
| Zstd literals (HD) | `src/zstd_literals.h` | carried Huffman table | parse the header, decode one or four streams | treeless blocks need an earlier block's table |
| Zstd sequences (HD) | `src/zstd_seq.h`, `src/zstd_repcode.h` | three FSE states, three repeat offsets | decode a sequence, resolve its offset | repeat modes need earlier tables; offset history with no literals shifts by one |
| Zstd execution (HD) | `src/zstd_exec.h` | prefix sums per tile of sequences | execute a block | sequences of a tile copied at once must equal one after the other |
| Zstd blocks / kernel | `src/zstd_blocks.h`, `src/zstd_decode.cuh` | the frame state carried from block to block | decode all blocks of a frame | tables, window and offsets carried across blocks; barriers between the roles of a thread block |
| Vendor seam | `src/vendor_rt.h` | none | one inline function per runtime call | pure dispatch |
| ABI | `include/cudec.h`, `src/version.c` | none | declarations | documentation is the contract |
| Benchmark timing and reports | `bench/gpu_bench.cu`, `bench/bench_lz4.cpp`, `bench/bench_snappy.cpp`, `bench/bench_gdeflate.cpp`, `bench/bench_zstd.cpp`, `bench/literal_hist.h` | the corpus, the samples and medians, the exit code; a stream, two events, a context | build and check a corpus, time it on CPU and device, print rows, check digests | what a sample covers: warm-ups, growth of staging, launches still queued; which failure makes which number void |
| Tests, fuzzers, docs, CI | `tests/`, `fuzz/`, `docs/`, `.github/` | - | - | read for what they promise; not modelled |

How they interact. A caller hands a batch to `submit_batch` (device memory) or
to a streaming context (host memory). The context cuts the batch into waves,
stages each wave through ONE pinned buffer, and calls the same batch entry on
its stream; the kernel gives each chunk to a warp, whose lane 0 parses and
whose lanes copy together. The LZ4 frame entry and the GDeflate TileStream
entry are host drivers above those two: they parse a container, turn it into
chunks, decode, and assemble. Zstd frames go to one thread block each.
Everything is fail-closed: each chunk ends with one defined record, and the
return aggregates the records.

What makes each correct, in one line: streaming - nothing read while it is
overwritten, nothing in flight after return, no record that is not this
call's, a fault poisons and nothing else does; sizing - no overflow, no wave
past the budget; parsers - every offset handed to a copy is in bounds, every
input ends; copies - many lanes at once give what one byte at a time gives;
GDeflate schedule - the lanes consume exactly the interleaved words in the
order the encoder wrote; containers - the accepted inputs are exactly those
whose parts tile the file; Zstd - the state carried across blocks is that of a
sequential decoder, and what an entropy-coded stream decodes to encodes back to
its bits; benchmarks - a printed number was taken over what its row says.

## 2. Plan and what is done of it

In order of importance; the names are modules of this directory.

| | Part | Modules | Checked | Proved |
| --- | --- | --- | --- | --- |
| done | streaming context, wave sizing | `WavePlan`, `WaveSizing`, `StreamCtx`, `StreamContract` | yes | sizing, every safety invariant, the safety half of the contract |
| done | one chunk: parsers, warp copy | `ParserSeam`, `Lz4Block`, `SnappyBlock`, `BlockParsers`, `ChunkKernel` | yes | both parsers: bounds, lengths, they implement the seam; the kernel over any of them: race free, sequential |
| done | a batch: submission, geometry, launch | `BatchSubmit`, `GridStride`, `Launches` | yes | every chunk taken once; the wave and the Zstd block in every launch |
| done | GDeflate schedule and rounds, both residencies | `GDeflateLanes`, `GDeflateTeam`, `GDeflateHost`, `GDeflateWarp`, `GDeflateTeams` | yes | words dealt once, no backstop reached, a page is its tokens expanded, the warp agrees round by round |
| done | GDeflate dynamic header and tables, both residencies | `GDeflateLengths` | yes | - |
| done | containers: LZ4 frame, GDeflate TileStream | `Lz4Frame`, `TileStream` | yes | both invariants of each |
| done | Zstd frame: blocks on host and device, threads of a block | `ZstdBlock`, `ZstdFrame`, `ZstdThreads` | yes | repeat offsets, tables of the frame, barriers and copies of the block |
| done | Zstd entropy decoding: bit cursor, FSE, Huffman, four streams, sequences | `ZstdFse`, `ZstdLiterals`, `ZstdSequences` | yes | - |
| done | benchmarks: timing, contexts, the four mains, the literal histogram | `BenchTiming`, `BenchStreams`, `Benches`, `Launches`, `LiteralHistogram` | yes | reports are honest |
| next | proofs | the two residencies of the dynamic header; the prefix sum by tiles stays below the ceiling | - | - |

## 3. Modules

The modules use the source's names. A program counter `pc` (or `stage`,
`phase`, `at`) says where a thread of control is; a value a module calls
*history* is not in the program and exists for the properties. `PROJECT.json`
maps each definition to its lines.

### Streaming: `WavePlan`, `WaveSizing`, `StreamCtx`, `StreamContract`

`WavePlan` is the closed form of how a call is cut into waves: the charge of a
chunk, chunks per wave, the bytes of each wave, the largest. `WaveSizing` is the
code: `ChargeChunk` and `PickWave` are the loop and the end of
`ChooseWaveChunks`, `SumChunk`, `CloseWave`, `FinishSizing` the second loop, in
arithmetic that refuses what passes `SIZE_MAX` where the code does.

`StreamCtx` has the host thread and the device.

| State | In the code |
| --- | --- |
| `pc`, `plan`, `wave`, `waveStatus`, `entryRefused` | where `DecodeStreamCtx` is, its arguments cut into waves, its locals |
| `live`, `poisoned`, `cap` | the `cudec_stream_ctx`: whether it exists, its latch, the capacity of its seven buffers |
| `pSrc`, `pMeta`, `pResults` | pinned staging: which wave's bytes it holds; the mirror of the records |
| `dSrc`, `dMeta`, `dDst`, `dResults` | device staging, the same way |
| `dst`, `hResults`, `ret` | the caller's destinations and records, and what the call returned |
| `queue`, `dead`, `lastErr` | external: the stream's operations in order, a sticky device fault, the thread's pending error |
| `calls`, `oneShot` | bound on the calls; whether the one-shot entry is running |

Actions follow the wave loop: `GrowOk`/`GrowFails` (the whole `GROW` list, the
k-th failing), `Stage` (gate, then overwrite source and metadata staging),
`SubmitSrc`, `SubmitMeta`, `RecordReuse`, `LaunchOk`/`LaunchRefused`
(`submit_batch`), `Readback`, `SyncWave`, `CopyOut` and its two failures,
`Drain` (everything after the loop, the poisoning decision and the aggregate).
Any runtime call may fail, by itself or because the device has. `DeviceRun` and
`DeviceFault` run or lose the oldest operation at any moment. A buffer's content
is the number of the wave whose bytes it holds; a wave's kernel answers each
chunk with the verdict of its plan, if its staging still holds its own bytes.

`StreamContract` is the caller's view: request, one answer, a context that
answered a fault is dead. `Contract` at the end of `StreamCtx` maps the one to the other.

Left out: a second context (contexts share nothing but the device and the
thread's pending error, which `CallerError` and `DeviceFault` stand for); creating
a context on a device that has already faulted; the `catch` around the context's
decode, which nothing inside can reach; the not-implemented answer, which the
model does not tell from the unsupported one.

### Chunks and launches: `ParserSeam`, `Lz4Block`, `SnappyBlock`, `BlockParsers`, `ChunkKernel`, `GridStride`, `BatchSubmit`, `Launches`

`ParserSeam` is the abstract specification between parsers and kernel, from the
comment at the head of `src/chunk_decode.cuh`: every element lies in both buffers
and continues the output, every call consumes a byte, the only success has
consumed the source, and what follows it is a rejection. `Lz4Block` cuts
`Lz4Parser::Next` at its reads: `Token`, `Extend` (one extension byte),
`LastRun`/`LiteralsRejected`/`LiteralsAndOffset` (the terminal rule, the literal
run, the offset), `Match`. `SnappyBlock` is `SnappyParser` with a step per
preamble byte (`Begin`) and per element (`Literal`, `Copy`, `Terminal`). Input bytes are chosen when
read. `BlockParsers` puts them behind the seam, as `src/batch.cu` does.

`ChunkKernel` is one wave in `chunk_decode_batch`: each lane parses, copies every
`WaveSize`-th literal byte, meets the others at `__syncwarp`, copies its match
bytes, meets again; byte copies of different lanes are steps of their own. Its
parser is any that keeps the seam (`Answer`): an element of any cost in source
bytes, from one upwards, the success at any cost or none, or a rejection. So the two
formats need not be checked again with it; `Handed` bounds the elements for TLC.
`GridStride` has the geometry of the three kernels: grid, block and wave
indices, the guard against shapes that are not whole waves, the 32-bit wave index
and the 64-bit stride. `BatchSubmit` is `submit_batch`: the arguments, the pending
error drained, the width asked for and a kernel selected, the launch, the answer.
`Launches` composes them: a call through an entry, or a launch of any shape,
runs its grid; in a grid of one whole wave over one chunk the lanes of
`ChunkKernel` show the loop body, in a grid of one Zstd block the threads of
`ZstdThreads` do. Chunks do not interact, so the others take a chunk as one step.

### GDeflate: `GDeflateLanes`, `GDeflateTeam`, `GDeflateHost`, `GDeflateWarp`, `GDeflateTeams`, `GDeflateLengths`

`GDeflateLanes` has the lanes' bit buffers and the words dealt to them, and how a
team agrees on a refusal. `GDeflateTeam` has what the two residencies share: the
deferred copy and the round driver of `GDeflateDecodePageRounds` as functions on
its locals. `GDeflateHost` steps the lanes of a round one after the other
(`Header`, `StoredLength`, `StoredByte`, `Symbol`, `RetireCopy`, `DrainIdle`).
`GDeflateWarp` has the same round as the warp runs it: `Resolve` (peek and claim
by prefix sum), `Commit` lane by lane in any order, `Meet`, `CopyBytes` (one copy
at a time by the whole wave), `Refill` (ballot, rank, unified verdict).
`GDeflateTeams` runs both on one page and compares them after each round.

A bit buffer is the list of words dealt to the lane and the bits removed; what
the bits read as is chosen at the first reading and remembered in `page`, so both
residencies read the same. Words have 8 bits for 32, a length 4 for 16, a byte 2
for 8, which keeps their proportions to the refill watermark. A code table is
abstracted to the symbols a lane may resolve, unassigned codes among them; the
header of a dynamic block is not read again here. A round refused by a lower lane may
still write a hole's content in the warp; the page is refused at the round's end.

`GDeflateLengths` is that header: the three counts on lane 0 (`Counts`), a precode
length a lane, then rounds in which each lane reads one code length or one repeat
and writes its lengths where the ones before it end. The sequential team reads a
round lane by lane; the warp reads the same bits in the parts between two
collectives, its lanes in any order: resolve and claim by prefix sum, write
lengths, refill. Its first part turns a length vector into counts, first codes, a
sorted alphabet and a root table, or refuses it, and resolves a window of bits
through the root or bit by bit.

### LZ4 frame: `Lz4Frame`

`cudec_lz4f_decompress`: `Descriptor`, `Walk` (a block header a step), `Stage` and
`Launch` (the compressed blocks as one batch), `Records`, `Measure` (sizes, then
the capacity), `CopyStored`/`CopyDecoded` (blocks contiguous on both sides join the
open run), `FlushLast`, `DrainCopies`, `VerifyTail`, `Exit` (the drain guard on
every path). The device executes the batch and each copy later, or faults. Bytes
are identified by where they come from (`<<"frame", i>>`, `<<"device", i>>`), so
the output is right when each byte is the right one. A checksum matches or not.

### TileStream: `TileStream`

The `cudec_gdeflate_tilestream_*` entries: the envelope's parse over its table of
offsets (`Parse`), the sizing entry (`Info`), the plan with each tile's source range
and destination slot (`PlanStatus`, `DstOff`),
and `RunTileStreamPlan` over a context or in one shot, with the comparison
of each tile's bytes with its declaration. The context is what `StreamCtx` shows it
to be: each tile decodes or is refused, or the device faults and the context is dead
for later calls. Offsets and sums have the width the code gives them.

### Zstd frames: `ZstdBlock`, `ZstdFrame`, `ZstdThreads`

`ZstdBlock` has the units of a block as operators - presence of tables
(`LiteralsStatus`, `TablesStatus`, `LoadTables`), repeat offsets (`Resolve`),
prefix sum by tiles (`PrefixSumTile`, `PrefixSumFinish`), execution
(`ExecuteSequence`, byte by byte upwards) - and the host's decode of a block out of
them (`HostBlock`, from `src/zstd_blocks.h`), the reference for the device. A
block comes with its literals and sequences already decoded, or with the part
that is malformed.

`ZstdFrame` is thread 0 of the kernel over all frames of a thread block:
`FrameHeader` (the ladder of `HeaderStatus` over the descriptor's fields), `BlockHeader`, `Literals` (into the tail of the remaining
destination), `SequenceTables`, `Tile`, `Finish` (with the move of the leftover
literals), `NextBlock`, `FrameEnd`, `Result`. Table cells survive from frame to
frame, as shared memory does; only the presence flags are reset. A refused
section may leave some tables replaced.

`ZstdThreads` is the block's control: where each thread is, the flags in shared
memory, and a barrier that releases its threads when all wait at some barrier, the
same or not. Thread 0's sections have any outcome `ZstdFrame`'s have. The
leftover move is its two steps, read and write, per thread.

### Zstd entropy: `ZstdFse`, `ZstdLiterals`, `ZstdSequences`

Each coded part of a block is decoded by one thread from its own bytes, so each is
a machine of its own and a behaviour of `MCZstdEntropy` runs one of them. `ZstdFse`
has the backward bit reader and reads a table description field by field
(`ReadLog`, `ReadProbability`, `ReadRun`) and builds the table (`Spread`,
`HandOutStates`), for the three predefined distributions too. `ZstdLiterals` takes
the written weights, implies the last, builds the Huffman table, splits the payload
in one or four streams and decodes each (`StartStream`, `DecodeSymbol`,
`EndStream`). `ZstdSequences` decodes the three interleaved states in the code's
three different orders, a tile at a call (`Begin`, `StartTile`, `DecodeSequence`,
`EndTile`), and the two-state stream of Huffman weights (`NextSymbol`).

### Benchmarks: `BenchTiming`, `BenchStreams`, `Benches`, `Launches`, `LiteralHistogram`

`BenchTiming` is `bench/gpu_bench.cu` and the loops the mains share: upload, the
decode that is checked, warm-ups, the launch between two events, the streaming
contexts warm and cold. The stream is a queue of launches and records that the
device works off in order over `GridStride`'s grids; a sample is the list of
launches that completed between its two events, a context's sample what it did
meanwhile (growing staging, decoding). Any runtime call or kernel may fail.
`BenchStreams` (LZ4, Snappy, Zstd) and `Benches` (GDeflate) are the mains: options and
their conflicts, the gates a corpus must pass, the rows, digests, the exit code. A corpus
is what its chunks really are - whether the oracle decodes it, the parser accepts
it, the device decodes it - and the facts the gates look at (shape, digest).
`Benches` puts the four side by side, and `Launches` has them launch over
the one grid model: the device runs one caller's launches.

`LiteralHistogram` walks a stream with either parser of `BlockParsers` and counts
literal lengths as `bench/literal_hist.h` does; what the kernel would copy for the
same elements is kept as history beside it.

## 4. Runs

| Run | Question | Bounds |
| --- | --- | --- |
| `wave_sizing` | do the sizing loops stay in `size_t` and within the budget | every batch of up to 3 chunks, all sizes 0..3, `SIZE_MAX` 3, at most 2 chunks a wave |
| `stream` | is the streaming context safe, right and an implementation of its contract | 2 calls of up to 3 chunks in up to 3 waves, host or device output, `SIZE_MAX` 7, budget 4; a failure at every runtime call, a fault at every operation |
| `block_parsers` | do both parsers stay in bounds, end, and keep the seam | blocks of 14 bytes into 10; format constants scaled so that every comparison can go both ways |
| `decode_launch` | is every chunk decoded once, race free and as one lane would; do the threads of a Zstd block stay together; what are the benchmarks' numbers worth | wave of 3 lanes, 4 source bytes into 6, literal runs of 0, 1 or 4 bytes and matches of 0, 2 or 4 at every distance, headers of any length; grids to 4 blocks, up to 8 chunks, wave index wrapping at 12; a Zstd block of 3 threads over 2 frames, moves of up to 4 bytes with a gap of 1 or 2; 47 benchmark runs over 14 corpora, at most 2 timed launches a series, one failure |
| `gdeflate` | deferred copies, dealing of words, agreement of warp and host | 3 lanes, 6 words, 4 bytes of output |
| `gdeflate_header` | is the header's length vector the expansion of its codes, in both residencies; do its tables decode | 4 lanes, 12 words of 4 bits, a precode of two lengths, "repeat previous" and "zeros" |
| `lz4_frame` | is the assembled output the frame's, and nothing in flight at return | frames of 2, 7 or 12 bytes, blocks of up to 2, at most 4 blocks, 7 bytes of output |
| `tilestream` | does each tile get bytes of its own, and does success cover what was declared | up to 3 tiles of 2 bytes, words of 3 bits, every table of offsets, pages that decode short, right or long; 3 calls |
| `zstd_frame` | does the device decode a block as the host does, in place, with this frame's tables | 2 frames of 3 or 4 bytes after the header in the same memory, every refusal of a header, blocks of up to 3 sequences in tiles of 2, and of the 4 a block admits and one more; ceiling 4, shortest match 1, capacity 5 |
| `zstd_entropy` | is what each coded stream decodes to what its bits encode | bytes of 2 bits, tables of 4 cells, payloads to 12 bytes; descriptions of up to 40 bits over 4 symbols; the predefined distributions at full size |
| `doc_ok_tile`, `doc_histogram` | two promises the code does not keep, see below | as `tilestream`; blocks of 6 bytes into 6 |

Deadlock is checked except in `tilestream` and `doc_ok_tile`, where the calls are
bounded, and in `zstd_entropy`, where a decode ends.

Why these are enough. A wave-staging bug shows with two waves and a third to see
its result; a bug across calls with two calls, the second larger or smaller. The
parsers' verdicts depend on comparisons of the distance to both ends with the
format's margins, and the sizes chosen let every distance from zero to beyond the
largest margin occur. Races between lanes need two; three distinguish neighbours
from others and give widths that are no multiple of the wave. The longest parse
the fuel has to cover occurs: elements of one source byte each to its end, then a
success that consumes nothing. A GDeflate page
needs two blocks or a drain round to expose a deferred copy, and three lanes
for a rank that is neither first nor last. A merged frame copy needs three blocks
(run, break, run); the fourth shows a run after a run. Zstd tiles need a block of
more sequences than a tile; two frames show what survives in shared memory. A
header of four lanes has a lane past the last length in every round but a full one,
repeats that cross from one alphabet into the other, and one that overruns. Three
tiles have one that is neither first nor last, and 3-bit offsets can decrease, run
past the file and overflow the sums. Streams of two-bit bytes have every alignment
of a field to a byte's end, and fields that cross it. A benchmark needs a warm-up and
two timed launches for one sample to reach into another.

What the properties say, beyond types:

- `WaveSizing`: no legal batch reaches the overflow refusals
  (`NoOverflowReject`); a wave of several chunks is within the budget
  (`WaveWithinBudget`).
- `StreamCtx`: a copy in flight finds the staging of its own wave
  (`StagingNotOverwritten`) and stays inside live allocations
  (`InFlightInBounds`); nothing is in flight after a return
  (`NothingOutlivesCall`); success means delivery, a chunk reported OK was produced
  by this call, no record is an earlier call's (`OkChunkProduced`); faults poison
  and refusals do not (`DeviceFaultPoisons`, `RefusalSparesContext`); the contract,
  its liveness included (`ImplementsContract`).
- Parsers: `ReadsInBounds`, `LengthBounded`, `ParserKeepsSeam` for both, with the
  declared length of a successful Snappy block, `ParseEnds`.
- Launch: `OutputIsSequential` (and the fuel is not what ended it), `RaceFree`
  (between two barriers no lane writes what another reads or writes),
  `EachChunkOnce` (of every entry's launch, and the answer tells whether there was
  one), `LaunchEnds`; for the threads of a Zstd block `BlockNeverSplits` (no barrier
  is met by some threads only or at two places) and `CopyComplete`.
- Benchmarks: `ReportIsHonest`. Each row has as many samples as asked for, each
  over exactly one decode of every page of the corpus the row names, one that the
  row's decoder decodes and of the shape its name claims; exit code 0 means all
  rows asked for were printed, every digest held and every guard of the harness
  bites, 2 that none was.
- GDeflate: `WordsDealtOnce` (in the order of the schedule, and no lane is starved
  where the code has only a backstop), `OutputIsExpansion` for the sequential team;
  `ResidenciesAgree` and `WarpTouchesOwnBytes` for the warp.
- Dynamic header: `LengthsAreExpansion`, `HeaderResidenciesAgree` after every round,
  `TablesDecode` (a vector is accepted exactly when it is a code by the textbook
  definition, and the root and the walk resolve every window to its symbol).
- Containers: `OutputIsFrame` (with the table inside the frame and the merged copies
  in any order), `NothingOutlivesDecode`, `DecodeReturns`; `TilesHaveTheirOwn` (tiles
  of an accepted envelope overlap neither in the file nor in the output, and the
  sizing entry's answer holds for the decode), `StreamIsWhole` (success covers exactly
  the declared bytes, all of them new).
- Zstd frames: `DeviceDecodesAsHost` (an action property: each block ends with the
  host's status, bytes, tables and offset history), `TablesOfThisFrame`. Both sides resolve
  offsets by the one function the code shares, so `DeviceDecodesAsHost` is about the
  carry of the history between tiles and blocks; that the rule itself is right is what
  `GeneratorAgrees` and `HistoryStaysPositive` prove.
- Zstd entropy: `FseTableInverts` (from each state exactly one cell of a symbol leads
  back, so an encoder exists; any layout of the cells with the right counts has one,
  so the order the spread lays them in is translated and not checked: what makes it right
  is only that encoders use it too), `TreeIsPrefixCode`, and three that read the decoder
  against its inverse: `LiteralsAreStreams`, `SequencesAreTheStream`,
  `WeightsAreTheStream`.

Each property of these runs is also run against a mutated definition, named in
`PROJECT.json`, that a plausible slip in the code would amount to and that
violates it.

### Where documentation and code differ

Two runs check a promise of the documentation and find it violated.

- `doc_histogram` (`HistogramCountsAll`): `bench/literal_hist.h:12` says that the
  elements it counts are the elements the decoder executes. `AccumulateLiteralLengths`
  looks at `done` before it counts (`:94`), but `Lz4Parser::Next` returns the last
  literal run together with `done`, and the kernel copies it: every LZ4 stream's last
  run is missing from the distribution. Snappy's last element is empty, so its
  counts are complete and the two formats are not counted alike. Counting before
  the test is looked at makes the property hold.
- `doc_ok_tile` (`OkTileIsWhole`): `include/cudec.h:417-425` says that a tile that
  produces less than its declaration is `CUDEC_ERR_CORRUPT_INPUT`. When another tile
  failed, `RunTileStreamPlan` returns before it compares (`tilestream.cpp:183-188`),
  and the short tile keeps `CUDEC_OK`. The call itself returns a failure.

Seen while modelling, without a run of their own: `docs/BENCHMARKS.md:778` bounds
device staging by the wave budget, but source and destination staging are grown to
the largest of each, which may come from different waves; `include/cudec.h:327`
promises the bytes of every chunk reported OK, but when a copy to host memory fails
later chunks of the wave are still reported OK (the call returns a failure);
`include/cudec.h:498` gives the one-shot entry the fail-closed behaviour of the
context entry, but it does not write the records when it cannot create its context;
`src/chunk_decode.cuh:135` says that a grid past the 32-bit index only repeats work,
but the index wraps and the stride does not, so chunks are left out (the library's
own launches stay far below it); `src/gdeflate_tables.h:803` has a repeat code's missing
extra bits refused after the repeat with nothing before it, but they are already in the
read's verdict, which is asked first, and the branch kept for them is never taken (a
lane holds the bits of a code and its extra bits, so neither order can be observed).

### Fairness

- `StreamCtx`, `Lz4Frame`: weak fairness of the host's steps inside a call (a
  thread that runs) and of the device (a stream executes or faults); the gate and
  the drain wait for the device only. Nobody has to call, so no fairness of the
  caller's actions.
- `BlockParsers`: the sequential parser keeps running.
- `Launches`: each lane of the shown wave by itself, since a warp's lanes are all
  scheduled, each thread of the shown Zstd block and the block's barrier, and the
  grid's next chunk. The benchmarks have none: nobody waits for a report.
- The other specifications have no fairness and no liveness property. Where deadlock
  is checked on them, their state graphs show that a page, a header and a frame stop
  only where they say they are done.

## 5. Proofs

All for every value of the constants that satisfies the named assumptions.

- `StreamProofs`, of the sizing loops (`WavePlanAssumption`, `BatchesAssumption`):
  `NoOverflowReject` and `WaveWithinBudget`. Neither is inductive. `ChargeInv` says
  that the charges so far are below the maximum; `SumInv` that the wave being
  summed is worth at most its number of chunks times that maximum, which the
  choice of the wave keeps within the budget, which is a `size_t`. Division and
  multiplication are handled by lemmas of their own.
- `StreamProofs`, of the context (`StreamAssumption`: plans are plans): type correctness with
  the drain (`Typed`), because a step's type depends on no wave of an earlier call
  being in the queue; poisoning and refusal (`Outcome`); the reuse gate (`Gate`),
  whose strengthening is that a copy out of pinned staging is followed by the
  event in the queue, unless the host is between the two or has left the loop;
  allocation (`CapInv`), that all buffers hold what the call needs from the first
  wave on. `OkChunkProduced` needs the whole pipeline: the operations of a wave are
  queued in order and those of the next behind them (`OrderInv`), each finds its
  input where the one before put it (`FeedInv`), what the device still has to do or
  has done of a wave is one of a few stages (`AnswerInv`), and so the mirror and the
  caller's records hold verdicts of this call's plan only (`MirrorInv`, `TruthInv`,
  `RecordInv`). `ContractSafety` is the safety half of the refinement of
  `StreamContract`: initial states map to initial states, and each action to one of
  the contract's or to a stutter. Also `PoisonedIsInertHolds`, an action property
  no run repeats.
- `BlockParserProofs` (`Lz4Assumption`, `SnappyAssumption`: few relations among the
  margins, which the formats' own values satisfy): reads in bounds, no overflow of a
  length, and that each parser, and the pair behind the entry the caller takes,
  implements `ParserSeam`. The invariants are where the cursors are relative to the
  last return, at each place of the call (`CursorInv`, `SnappyCursors`). Snappy's
  powers of the varint base are a recursive function; that they are naturals is
  induction (below).
- `KernelProofs` (`KernelAssumption`, `LaunchAssumption`). Of a
  wave, for every wave size and every parser the seam admits: `RaceFree` and
  `OutputIsSequential`. The elements cut the
  destination into regions one after the other (`ScriptInv`); each lane is where its
  calls and its index say (`LaneInv`); the two barriers keep all lanes within one
  phase of each other (`BarrierInv`), so a byte a lane has put in place is touched by
  nobody until all have passed (`DataInv`). `KernelTakesAnyParser` says
  the same of a wave driven by any parser whatsoever whose steps the seam allows, if
  every element may be handed over: headers of any length, a success that consumes
  nothing, empty halves that name any place. `ParsersKeepSeam` of `BlockParserProofs`
  shows the two block parsers' steps to be such. The same two hold
  for every launch by any caller of `Launches`; so do `BlockNeverSplits`
  and `CopyComplete` of the threads of a Zstd block. Between two releases of the
  barrier all threads walk one interval of the program, because they take their turns
  on flags nobody writes meanwhile; the leftover move stays right because the barrier
  between read and write keeps the gap from being overrun.
- `LaunchProofs` (`LaunchAssumption`, `BenchAssumption`, `GridAssumption`):
  `EachChunkOnce` and `ReportIsHonest`. `EachChunkOnce` is about
  quotients and remainders: the threads of a block are whole waves and the index wraps
  at a whole wave (`Seats`, `WrapsWhole`), so the threads that come to a chunk in one
  lane and in another are equally many (`SameNumber`, by a bijection), and below the
  index limit just one (`OneEach`); after p passes the chunks below p times the stride
  are taken (`Passed`). Who launches matters for what the grid may be: `SubmitInv`
  follows `submit_batch` to its answer, `BenchTyped` the series of the benchmarks to
  the launches on their stream. `ReportIsHonest` rests on all of that, because a sample
  is a decode of every page once only over a grid that takes every chunk once, and on
  `ReportInv`, by the place a main is at (`PlaceInv`): the gates the corpus has passed
  (`CorpusInv`); what is on the stream, on the device and in the log between two events
  (`StreamInv`), so that what the events enclose is one launch of the series under way;
  how often a context has been used (`ContextInv`); what the samples and the numbers so
  far are worth (`SamplesInv`, `NumbersInv`); which rows are printed, in which order, and
  how many are to come (`RowsInv`, `ProgressInv`), from which the exit code follows with
  the digests that drifted (`DriftInv`, `ExitInv`). A failing call or a faulting kernel
  at any place leaves it at "failed", where the rows are too few for success.
  `BenchAssumption` says what a job is (`JobRecords`: what the option loops of the four
  mains let through) and `GridAssumption` that no grid a benchmark picks for a device
  has more threads than the 32-bit index counts: 8192 blocks by the cap, and at most
  eight times the blocks the device holds at once in the sweep.
- `Lz4FrameProofs` (`FrameAssumption`): both invariants of the frame decode. The
  walk: every turn costs a header, so the fuel covers what is left of the frame
  (`FrameInv`). The answer: nothing is on the device or written where the capacity is
  measured (`QuietInv`). The assembly (`AssemblyInv`): `off` and `k` are the sums of
  the table up to the block at hand; the copies in the queue and the open run are in
  order and disjoint; each takes, byte for byte, what the batch decoded for the block
  the byte lies in (`Right`); and a byte in front of `off` is in place, or in a copy
  yet to run, or the device has faulted (`Brought`), which the drain excludes.
- `ZstdFrameProofs` (no assumption): `TablesOfThisFrame`, by the presence flags: a frame
  begins with none and a table becomes present only by being described (`InFrame`), so
  that cells of an earlier frame are never used. `HistoryStaysPositive`, why the newest
  offset minus one never goes below zero, by cases on what the offset value names; and
  `GeneratorAgrees`: the repeat-offset rule is stated twice in the repository, by the
  decoder (`zstd_repcode.h`) and by the generator of the benchmark's worst case
  (`bench_zstd.cpp`), which must find the code of an offset, and each is the other's
  inverse on every history.
- `GDeflateProofs` (`LaneAssumption`, `TeamAssumption`): first what the sequential
  residency promises. `WordsDealtOnce` rests on `HostInv`: whoever reads next holds a whole word of
  bits, except lane 0 behind a stored block's length, which still has a byte
  (`HostBits`); every header's bits come from a word dealt to lane 0, so the limit on
  blocks exceeds the headers a page can pay for (`HostBlocks`, `FuelCovers`); each round
  lane 0 claims output or retires a reservation, so the limit on rounds exceeds what
  the capacity admits (`HostOutput`). `OutputIsExpansion` rests on `HostOut`: the
  reservations lie one after the other in the order in which they will be retired
  (`PlacesOK`), all that is claimed is written but for what is reserved (`OutOK`), and
  every token is what the bytes say or has its lane's reservation (`TokensOK`); so a
  match, when it is retired, has everything before it in place. `ForwardIsGather`: the
  byte-by-byte copy and the wave's closed form are one function, overlap included.
  Then the warp. `ResidenciesAgree` and `WarpTouchesOwnBytes` rest on `TeamsInv`, which
  compares the two residencies within a round. While the sequential team steps its
  lanes the warp stands at the round's start, and `SoFar` says what the lanes stepped so
  far resolved, wrote and were dealt, as a function of the state the warp still holds;
  at the end the round is done or stopped at a lane (`Told`). While the warp runs, its
  lanes in any order, `RoundAgrees` says that what it has done and what its lanes have
  yet to do make up what the sequential team did: the words dealt by rank, the
  positions claimed by prefix sums, the copies retired in order; `StopAgrees(i)` that
  lane i is the lowest that refuses, so that the collective hands all lanes the rung
  the sequential team stopped on.
- `TileStreamProofs` (`TileStreamAssumption`): `TilesHaveTheirOwn` and `StreamIsWhole`
  for every envelope, tile size, capacity and series of calls. The offsets ascend
  (`SourceAscends`), so a tile ends where the next begins and only the last tile's end
  must be compared with the stream's (`SourceRange`); the running sum of the declared
  sizes is a multiple of the tile size (`Offsets`, by induction), so the tiles fill the
  declared total, each byte having one owner (`OutputRange`, `Owner`). `IInv` says that
  what was accepted has a plan, what was refused a reason (`AnswerInv`), and that the
  sizing entry spoke of the same file (`InfoInv`).

Induction over data: the library's induction theorems take an operator as a
parameter, which the installed provers cannot instantiate. Where a recursive function
is a table over the naturals (Snappy's powers, the offsets of a frame's blocks or a stream's tiles, a match copied byte by byte) the
proofs use induction as a fact about sets of naturals (`Induction`, from the
well-foundedness of `<`): that the function exists and what it adds up to.

Only model-checked: liveness everywhere, and with it the liveness half of the
refinement of `StreamContract` (its specification states fairness); the GDeflate
headers; and of Zstd what the entropy-coded streams decode to and that the device
decodes a block as the host does. What the definitions of those compute
over sequences (the expansion of a header's codes, the tables' codespace sums, the
encodings the Zstd streams are compared with, the execution of a block) is recursion
over data no proof here reaches.

## 6. Not modelled

- Hash functions: a checksum matches or does not.
- The byte layout of the two Zstd section headers (a header is what it declares), and the nibble spelling of Huffman weights (taken as
  the list it gives).
- The block rounds of GDeflate do not go through the header and its tables again:
  `GDeflateLengths` checks those, `GDeflateTeams` takes resolved symbols.
- Vendor dispatch, version and error-string functions; diagnostics such as reject
  ordinals and reports no decision reads.
- Corpus generators of the benchmarks, beyond the facts their gates look at; the
  arithmetic of throughput and percentages; the size buckets of the Zstd census of
  literals; tests and fuzzers. The parse-only
  kernel is a launch in `BenchTiming` and no more.
