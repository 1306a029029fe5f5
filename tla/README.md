# TLA+ models of the NIST live CVT1 feed

This directory specifies and checks the program that turns the NIST RDS
`modern.db` into the `clean_{md5,sha1,sha256}.bin` feed: the streaming source,
the native carve engine, the ring pipeline it falls back to, the sinks of the
Python carve, the part uploader, the k-way merge, the asset splitter and the
jobs of the workflow that tie them together. TLC checks the models on small
instances, TLAPS proves theorems about them for all values of the constants:
every invariant a passing run checks is also a theorem.

Run from this directory:

    tlc -workers 2 -config MCCarveEngine.cfg MCCarveEngine
    tlapm EngineScan_proofs.tla

## 1. The system

One workflow run (`src/.github/workflows/sync_clean_hashes.yml`) is a chain of
jobs: a speed probe; a *carve* job, which streams the zip file, inflates the
database, reads its pages and uploads *parts*; a *merge* job, which merges the
parts to one pack per algorithm, splits the packs and publishes them; a text
export and release notes. A row of the database carries three digests, and each
algorithm has its own files.

| Component | Code | State it keeps | Operations |
|---|---|---|---|
| HTTP and zip source | `stream_http_hash_filter.py` 847-1190 | connection, `_buf`, `_raw_offset`, `_eof`; place in the archive | open, fill, reconnect with Range, read, discard; walk the local headers, inflate |
| Carve engine | `carve_engine.hpp` | two arenas with their `carving_` flags, `prefix_`, `db_offset_`, `error_`, the carve thread, `part_seq_` | write, close_writer, fail; carve an arena; checkpoint; write_packs, finalize_chunked; destructor |
| Shard sink | `shard_sink.hpp` | per-thread buckets, 256 shard files per algorithm, `resident_bytes_` | offer, flush |
| Leaf-page parser | `sqlite_carve.hpp` | none | a page's bytes to digests |
| Part uploader | `stream_http_hash_filter.py` 1301-1387 | `_stop` event, files in `parts_dir`, assets of the scratch release | poll, upload, unlink, stop and join |
| Producer and main | `stream_http_hash_filter.py` 1390-1610, 2050-2090 | the recorded exception, exit status | start and join threads, finalize, clean up |
| K-way merge | `stream_http_hash_filter.py` 480-540 | heap of one digest per run, last digest written | prime, pop, copy a single run |
| Merge tool | `merge_cvt1_parts.py` | none between calls | check headers, merge per algorithm |
| Digest sinks | `stream_http_hash_filter.py` 345-480 | window of digests, run files | offer, spill, close |
| Ring pipeline (fallback) | `stream_http_hash_filter.py` 240-310, 780-845 | bounded byte ring with EOF and error flags | write, read, fail, close_writer |
| Pack splitter | `pack_release_assets.py` | pieces on disk | plan, write, verify, retry with more pieces |
| Workflow | `sync_clean_hashes.yml` | releases `latest-feed` and scratch, job results | the jobs in order, cancellation, reruns |
| Text export, notes, probe, binding, other modes | `cvt1_to_text.py`, `render_release_notes.py`, `speed_probe.py`, `module.cpp`, rest of the filter | none that outlives a call | |

How they interact. The producer thread calls `engine.write` for each block of
inflated data, with the GIL released. `write` copies into the arena being
filled; a full arena is handed to a carve thread, which runs a pool of workers
over its pages while `write` fills the other arena. Workers offer digests to
the shard sink; after each arena the carve thread may turn all shards into one
part per algorithm. The uploader thread sees parts only as files in a
directory. The main thread waits for the producer, writes what is left, stops
the uploader and removes the spool; the destructor of the engine joins what is
still running. The merge job sees only what was uploaded.

What is hard, and what makes each component correct:

* **Source** - connections break, end early, resume; descriptors of unknown
  form must be stepped over. Correct: the carver gets the member's bytes in
  order, each once; the end is reported only behind all of them.
* **Carve engine** - two arenas that swap under a lock while flags are read
  without it; pages that straddle arenas; failures of either thread at any
  point; checkpoints in the middle of the run. Correct: every page is read
  whole and once, no digest is lost between a page and a pack, success is
  reported only for the exact result, no thread waits for ever.
* **Uploader** - uploads that fail, time out or are done twice; parts that
  appear during a poll; a job that is killed. Correct: no part leaves the disk
  before it is in the release; the last round takes everything.
* **Merge** - duplicates across runs dropped with one digest of memory; runs
  cut short. Correct: the sorted union, or an exception.
* **Ring** - counters that never wrap over positions that do; either thread may
  leave the other alone. Correct: a bounded queue; the pages come out whole and
  in order; the pipeline ends, and nobody waits without need.
* **Sinks** - a window that fills in the middle of a row, runs numbered across
  sizes, a spill that fails and is repeated by `close()`, a cap that ends row,
  page and carve at once. Correct: packs hold exactly the digests of the pages,
  or the first of them up to the cap; a pack left by a run that failed is not
  mistaken for a whole one.
* **Splitter** - ceilings that decide the records of a piece, a header that
  counts only in the first, a retry with twice the pieces. Correct: every piece
  fits, and `cat` gives the pack back.
* **Workflow** - `latest-feed` is shared by all runs and is never cleared; runs
  overlap, jobs fail at any step and are run again. Correct: what is exported is
  one run's whole pack, and the run's own unless another deployed in between.
  The second half of this does not hold: an unsplit pack of an earlier run is
  read in place of the run's own pieces (finding 5).

## 2. Modules

| Module | Models | Kind |
|---|---|---|
| `PageScan` | what a full scan promises: pages, published digests, outcome | abstract specification |
| `CarveEngine` | the native engine with its producer and main thread, and the shard sink as seen from them | detailed; implements `PageScan` |
| `ChunkUpload` | parts directory, uploader, scratch release, the process and its job | detailed |
| `HttpStream` | HTTP stream, reconnection, zip walk, inflater | detailed |
| `BoundedFifo` | what a ring promises its two threads | abstract specification |
| `ByteRing` | the ring, its writer thread, the page loop and the join | detailed; implements `BoundedFifo` |
| `KWayMerge` | `merge_sorted_raw_runs` | algorithm as a state machine |
| `SortedLists` | the payload of a pack | operators |
| `UniqueSink` | Python leaf-page carve, `ExternalUniqueSink`, `MemoryDigestSink`, the packs written from them | detailed |
| `PackSplit` | `pack_release_assets.py`, `cat`, `cvt1_to_text.py` | operators |
| `FeedPipeline` | the jobs of `sync_clean_hashes.yml` over several runs, with `merge_cvt1_parts.py` | composes the job models on `PackSplit` |
| `MC*` | constants of the checked instances | for TLC |
| `*_proofs` | inductive invariants and theorems | for TLAPS |

They compose by their interfaces. `HttpStream` ends in `done` or `raised` after
handing on blocks; `CarveEngine` has this as `NextBlock`, `EndOfMember`,
`SourceError`, and `ByteRing` as `NextBlock`, `Close`, `SourceFails`.
`CarveEngine` publishes parts with rising numbers that are never changed again
(`PartsImmutable`); `ChunkUpload` has this as `NewPart`. `KWayMerge` takes
sorted lists without duplicates, which is what `DrainShards` and `SpillSize`
write; its result, `MergeExact`, is the union that `UniqueSink` has in
`MergeRuns`, and the theorem `MergeSorts` shows that it is `Sorted` of that
union, the list that `FeedPipeline` has in `Pack`. The outcome of `ChunkUpload`
- all parts in the scratch release, or some missed, or a job that was killed -
is what `FeedPipeline` starts from in `CarveEnds` and `CarveFails`. The sink of
`ByteRing.PageRead`, full or raising, is `UniqueSink`.

### CarveEngine

The stream is counted in units and a unit is named by its position, so whatever
is read back from an arena tells where it came from. `arena`, `fill_idx`,
`fill_used`, `carving`, `error`, `header_ok`, `db_offset`, `prefix`, `part_seq`
are the engine's members; `job` is what the lambda of `submit_fill_arena_`
captures; `buf` is the local copy made when a prefix is prepended; `shards`,
`resident`, `parts` are the disk and its counter. `wpc`, `tpc`, `mpc` are the
places of the three threads.

| Code | Actions |
|---|---|
| `write` | `WriteCheck` (unlocked read of `error_`), `WriteWait`, `Copy` |
| `submit_fill_arena_` | `SubmitWait`, `SubmitLaunch`, `EofJoin` |
| `close_writer` | `CloseCheck`, then the submit actions, `CloseWait` |
| `writer_inflate_db_to_engine` | `NextBlock`, `EndOfMember`, `SourceError`, `WriterFails` |
| `carve_arena_` | `CarveNothing`, `BadHeader`, `Paginate`, `CarvePage` per page, `PoolAborts`, `PoolJoin` |
| `do_checkpoint_`, `finalize_algo` | `StartFinalize`, `CheckpointDrain`, `CheckpointPublish`, `CheckpointThrows`; the same by the main thread in `Final*` |
| lambda around `carve_arena_` | `CarveFails`, `CarveClear` |
| `stream_rds_zip_carve_full`, `main`, destructor | `MainJoin`, `RemoveSpool`, `Exit` |

Data is abstracted to what the properties tell apart. The parser is a function
`RowsOn` from a page to rows, and it finds the rows of page `q` only if it is
given exactly the units of page `q` and the right header flag. A row stands for
its three digests. The work of one batch is one set of rows: buckets are per
thread and flushed at the latest when the pool ends, and the counter may grow
by anything from the distinct rows to all offers, as each bucket drops only its
own duplicates.

`DiskMayFill` says whether the disk may be full. No result of a write of digests
is examined, be it to a shard, to a payload or to a pack; `Written` is what such a
write may then leave: any of the rows, and `Torn`, which stands for records that
are no row's digest - one cut short, or one read out of step because a cut record
stands before it. `finalize_algo` refuses a shard whose size is no multiple of the
digest size; sizes that add up again are what `Written` allows beside the refusals
of `CheckpointThrows` and `FinalThrows`.

The tests of `writer_closed_` in `write_packs` and `finalize_chunked` (132-134,
164-166) are left out. The main thread gets there only behind the join of a
producer that did not raise, and such a producer has returned from
`close_writer`: the tests always succeed. The model is the stricter for it, as what
they would guard is shown to follow from the join alone.

The image is the set of whole pages of the stream *as it was delivered*. That
the stream is the whole member is the business of `HttpStream`.

### ChunkUpload

`local` is the parts directory, `remote` the assets of the scratch release,
`queue` what the current round still has to try. `UploadFails` covers a
non-zero status, the 300 s timeout and `--clobber` having deleted the old asset
without sending the new one. A process that exits or is killed cuts an upload
in any of those states (`CutOff`); after a kill the runner's disk is gone. When
the producer has raised, the carve thread may still publish parts while the main
thread unwinds, until the engine's destructor joins it (`LatePart`).

### HttpStream

The file is a sequence of four-byte units with their kind: signature, rest of a
local header, data, descriptor. An archive `zip` is its entries, its units and
the place of each local header; `LaidOut` says that these three agree, so that
the model works with places and no definition has to sum up lengths. A unit of a
descriptor never has the value of a signature: that a checksum or a size equals
`PK\x07\x08` by chance is left out. Stored entries of unknown size (bit 3, size
0) are left out as well (`WellFormed`): `_inflate_zip_entry` takes them for
empty (1077-1087), hands nothing on and reports no error, so that a wanted one
makes the engine raise on an empty stream, and one in front of it leaves the
walk in the middle of data. The first `_open` (891) is not retried, as the code
has it; a failure there counts as `trouble`. `buf`, `offset`, `eof` are the
members of `HttpByteStream`; `attempt` is the loop variable of `_reconnect`;
`Want` is the argument of the `read` under way, `Block` what it returns, and the
network's actions happen only while `_fill` runs (`Filling`). `discard` drops
all of the buffer it may (`Discarding`), where `read` takes a chunk at most.
`requests` and `urlopen` differ in one point: a response cut short is an error
to the first (`ReadFails`) and looks like the end to the second (`CutShort`).
The model has both.

### ByteRing

`w`, `r`, `eof`, `error`, `buf` are the ring's members. A byte is named by its
position in the stream, so a byte overwritten too early is recognised. `block`
is the rest of the view `mv` in `write`; `want` and `got` are the argument and
the result of the `read` under way, and `rpc` says which of the three reads of
`carve_sqlite_stream_from_ring` that is. `quit` is a history variable: the
reader left before the end of the stream.

| Code | Actions |
|---|---|
| `write`, one turn of its loop | `Write` |
| `read`, one turn of its loop | `ReadSome`, `ReadRaises`; its return is part of the actions below |
| `writer_inflate_db_to_ring` | `NextBlock`, `Close`, `SourceFails` |
| `carve_sqlite_stream_from_ring` | `HeaderRead`, `PageRead` (with a sink that may be full or raise), `StreamRead` |
| `_run_zip_carve_pipeline` | `Join`, `JoinTimesOut`, `Ended` |

Only the writer calls `fail`, so the error test in `write` never succeeds: a
writer whose reader has gone stays in `write` until the process ends, and the
join spends its whole limit. `PatientOnlyIfQuit` states when this can happen.

### KWayMerge

A digest is a number, a run file a sequence of them and whether it ends in a
partial digest. `NoRuns`, `OneRun`, `PrimeHeap` and `Pop` are the four parts of
the function; the heap is a set of pairs and `Smallest` the order of tuples.

### UniqueSink

A page is a sequence of cells, and a cell says what the reader makes of it: a row
with its columns, something to pass over, or a pointer that ends the page.
`sets`, `runs`, `runSeq`, `closed` are the members of the sink; `disk` the run
files by name, so a name used twice overwrites; `turn` is the place in a loop
over the sizes, `back` where `_spill_all` returns to.

| Code | Actions |
|---|---|
| page loop, `_carve_leaf_table_page` | `ReadPage`, `ReadCell`, `ReadFails` |
| `_digests_from_record_payload`, `offer_hex` | `ColumnEnds`, `Offer` |
| `_spill_all`, `close`, `__exit__` | `SpillSize`, `SpillDone`, `SpillFails`; `Raise` is what an exception does |
| `finalize_external_unique_to_packs`, `write_clean_packs` | `Finalize`, `MergeRuns`, `MergeFails`, `WritePack`, `WriteFails`, `AllWritten` |

A merge of several runs that fails removes all of them in its `finally`, while
`sink.runs` still lists them, and leaves a part of its result behind: `MergeFails`
does both, and `TypeOK` says that a listed run is on disk except after it.

### PackSplit and FeedPipeline

A file is a sequence of units, a header or a record each; a record carries the
run it was made by, so pieces of two runs can be told apart. `SplitInto`,
`FirstParts`, `SplitFile` are `split_bin_into` and `split_txt_into`,
`process_bin` and `process_txt`, `_split_verify_retry`. `Readable` and `Lines`
are what `cvt1_to_text.py` accepts and writes.

| Job | Actions |
|---|---|
| probe | `ProbeFits`, `ProbeRefuses` |
| carve | `CreateScratch`, `CarveEnds`, `CarveFails` |
| merge-parts | `MergeParts`, `Withdraw` and `Deploy` per asset, `DeployEnds`, `MergeFails`, `DeployFails`, each with the deletion of the scratch release |
| export-txt, per algorithm | `Download`, `ExportText`, `ExportFails` |
| publish-release-notes | `PublishNotes` |
| "re-run failed jobs" | `Rerun` |

`feed` is `latest-feed`, a function from asset names to files. The history
variable `alone` says that no other run has deployed since a run's deploy began.
`Put` is `gh release upload --clobber`: an asset replaces its namesake. The deploy
step deletes an old asset (`Withdraw`) before it uploads the new one (`Deploy`), for
several assets at once; other jobs may run and the step may break off in between.
`Upload` abstracts `ChunkUpload` to which parts are there and which are short.

## 3. Runs

| Run | Result | What it shows |
|---|---|---|
| `carve_engine` | 12 847 states, no error | all properties of `CarveEngine`, with refinement and termination, when no write is lost |
| `carve_disk_full` | `ExactOnSuccess` violated | a full disk loses or tears digests and the run reports success (finding 1) |
| `chunk_upload` | 8 057 states, no error | nothing is dropped, the last round is complete unless it fails, no part starves |
| `chunk_last_drain` | `SuccessMeansUploaded` violated | finding 2 |
| `chunk_kill` | `AtMostOneWindowLost` violated | finding 3 |
| `http_stream` | 60 766 states, no error | in order, each byte once, whole unless cut short, never refused for a broken connection, small buffer, ends |
| `http_dropped` | `DoneMeansWhole` violated | finding 4 |
| `byte_ring` | 4 876 states, no error | the ring is a bounded queue; pages whole and in order; success means all of them; only a reader that left early waits for its writer; the pipeline ends |
| `kway_merge` | 37 090 states, no error | the merge is exact or refuses |
| `unique_sink` | 220 482 states, no error | nothing is lost between page and pack through spills, failures and the cap |
| `feed_pipeline` | 455 250 states, no error | assets fit, join to the pack, and exports read a whole one, with overlapping runs, failures and reruns |
| `feed_stale` | `SelfTesting` violated | finding 5 |

Every property of a passing run has a mutant of the code's translation in
`PROJECT.json` that breaks it.

### The properties

*CarveEngine.* `PagesIntact`: no arena switch or leftover ever shifts or
overwrites what a worker reads. `CarveExclusive`: the writer is never in the
arena being carved, and the main thread never compacts shards beside a carve
thread - there is no lock for that. `NoDigestLost`: until a failure, the digests
of scanned pages are in a bucket, a shard, a payload or a pack. `WindowBounded`:
what is not yet in a part is covered by the resident counter, which stays below
the checkpoint size between batches. `ExactOnSuccess`: exit status 0 means all
pages and exactly their digests. `PartsImmutable`, `NoCarveAfterError` are
action properties, `Termination` is liveness, `ImplementsPageScan` refinement.

*ChunkUpload.* `NoPartDropped`, `CompleteUnlessMissed` (what makes the drain
after the stop event enough), `EventuallyUploaded`.

*HttpStream.* `InOrder`, `WholeUnlessCut`, `NeverRefused` (an archive that can
be walked is refused only for a reason), `BufferBounded`, `SourceEnds`. What the
walk cannot step over is named in `Skippable`: a descriptor with 64-bit sizes, a
descriptor without signature behind data of unknown size, and data of unknown
size that is not deflated; then it raises.

*ByteRing.* `RingHolds`: no unread byte is overwritten, with a ring that is
exactly full, exactly empty or written over its end. `PagesInOrder`,
`OkMeansAll`, `PatientOnlyIfQuit`, `PipelineEnds`, and the refinement
`ImplementsFifo`.

*KWayMerge.* `StrictlyAscending`, `NothingLost` (with a pair on the heap for
every run that has more to give), `MergeExact`, `CutRunRefused`.

*UniqueSink.* `NothingDropped`: window and runs together are exactly the digests
of the pages passed, at every step, spills and failed spills included.
`PacksExact`: a whole pack has the digests the database holds, or the first of
them up to the cap.

*FeedPipeline.* `PiecesFit`; `PacksExact`: the pieces a run made join to a pack
of all parts its carve uploaded, whatever failed and was run again in between;
`NoMixedText`: pieces of other runs beside those of a pack do not get into the
text, which is one run's whole list, and the run's own if it is alone, made
pieces and has no unsplit file of another run before them; `ExportAfterDeploy`: a
run that is alone has all its pieces in its download. `SelfTesting` is what the
workflow says of its own export - the published command yields the run's pack,
the text is the run's list - and does not hold.

## 4. Bounds

* `MCCarveEngine`: pages of 3 units, header of 2, arenas of 5, blocks up to 4.
  5 is not a multiple of 3, so pages straddle arenas, leftovers of 1 and 2 units
  occur, and a block may straddle arenas. Stream lengths 0 (empty), 1 (shorter
  than the header), 10 (a trailing partial page) and 18 (six pages, four
  arenas: each arena is used twice, and a carve follows a carve that follows a
  carve). Three rows with duplicates across pages, an interior page with none,
  checkpoints after two rows, so that several occur in a run and a digest turns
  up again after it was published. Valid and invalid header, both modes.
* `MCChunkUpload`: two checkpoints of two parts; one part in the directory
  while another is being uploaded, and two groups to lose.
* `MCHttpStream`: archives of up to three entries with every method, size
  known or not and every form of descriptor; blocks of any length up to the
  chunk; two attempts per break, any number of breaks. The chunk of six units
  is longer than what follows the last member and shorter than some entries,
  so reads end inside an entry, at its end, behind it and at the end of the file.
* `MCByteRing`: a ring of 4 bytes, a header of 1, pages of 3 and blocks up to 6.
  Blocks are longer than the ring, and neither blocks nor pages divide it, so
  every position is a beginning, an end and a place where a copy is cut in two;
  the ring is full and empty at each of them. Streams of 0 and 2 bytes (no
  header, no first page), 3 (one page), 11 (a trailing partial page) and 15
  (nearly four times around).
* `MCKWayMerge`: all lists of up to three sorted runs over three digests, each
  cut short or not: none, one and many runs, empty runs, duplicates in two and
  three runs. The theorems cover the rest.
* `MCUniqueSink`: every database of up to two pages with up to two cells out of
  five: three-column rows that share digests, a row cut by the page end, a
  refused column, a digest in the column of another size, an unreadable cell, a
  cut pointer; pages that are no leaf. A window of two digests fills in every
  column of a row, three rows make several runs per size, and caps 1, 2, 4 end
  the carve within a row, at its end, or never. The theorems cover the rest.
* `MCFeedPipeline`: two runs in any order and interleaving. With a limit of 5 and
  a header of 2, an asset holds three digests of 1 byte and two of 2, one behind
  a header; of the algorithms, one is made by one run only, the other in three
  pieces (at the second attempt) by one and in two pieces or one file by the
  other. One missed or short part per run and one rerun are enough for a part
  that is refused, a pack that is missing a part, and a job that starts again
  over its own half-done deploy. The run `feed_stale` has runs one after the other
  only (`SequentialSpec`) and no fault or rerun, so that nothing but the assets an
  earlier run left behind can be the cause; of its two algorithms one is split for
  the first time and one for the last time, in either order of the runs.

## 5. Fairness

* `CarveEngine`: weak fairness of each thread. Waits are guards: every
  predicate changes under `mu_` and is followed by `notify_all`, so a waiting
  thread whose guard holds does run. The producer is assumed to get a block, the
  end or an exception, which is `SourceEnds`.
* `ChunkUpload`: weak fairness of the uploader, whose command has a timeout;
  strong fairness of each upload: failures are transient, the comment at
  `PartUploader` says so. Without that a release that refuses one part for ever
  would never have it. Nothing is assumed of the carve.
* `HttpStream`: weak fairness of client and network (a read has a timeout) and
  strong fairness of `Deliver`. The last is an assumption about the server, not
  something the code enforces: `max_retries` counts per break, so a server that
  accepts each Range request and breaks off before its first byte keeps the
  producer for ever.
* `ByteRing`: weak fairness of both threads; their waits end every second at the
  latest. The source yields, ends or raises (`SourceEnds`). `JoinTimesOut` is
  possible whenever the writer is alive: an hour may be shorter than what the
  writer still has to do.
* `KWayMerge`, `UniqueSink` and `FeedPipeline` have safety properties only. A
  workflow stops for good at a job that failed until somebody runs it again.

## 6. Proofs

All theorems hold for every value of the constants that the named assumptions
admit: `SizesAssumption`, `RowsAssumption` (arenas at least a page long, a
header within a page, finitely many rows), `RingAssumption`, `PartAssumption`,
`StreamAssumption` (archives whose entries, units and places agree),
`InputsAssumption` (sorted runs without duplicates), `SinkAssumption` (finitely
many digests, of the three sizes; a row has three columns), `SplitAssumption` (a limit
and a number of attempts) and `FeedAssumption` (digests have a size, parts are
finite sets of digests).

* `CarveEngine_proofs`: `TypeCorrect`, `PagesAreIntact`, `CarvesExclude`,
  `ErrorStopsCarves`. `PagesIntact` speaks of pages already scanned and is not
  inductive. `IInv` adds `Control` (the carve thread's arena is not the one being
  filled; where the threads may be once the last arena is submitted, a failure
  is recorded or the main thread goes on), `Stream` (the arena being filled
  holds the units after those submitted; `prefix` begins at `db_offset`, a
  multiple of the page size; an arena handed to a carve follows the prefix
  without a gap, and between carves that succeed the prefix reaches up to the
  arena being filled) and `TodoIntact` (each page still to be scanned is the
  page at its place in the view). One lemma per action shows that it keeps
  `IInv`; exclusion and the action property follow from `Control`. So does, with
  `Marked` (an arena is marked while it is claimed or carved), `NobodyWaitsInVain`:
  the three waits on the condition variable never block, as the previous carve was
  joined before. The writer waits in joins only, the carve thread for nobody.
* `EngineScan_proofs`: `PartsAreImmutable` and, on a disk that takes every write
  (`~DiskMayFill`; the run `MCCarveEngineDiskFull` shows what happens on one that
  does not), `NothingLost`, `NothingInvented` (a pack holds no digest that is not on
  a page of the image), `SuccessIsExact` and `EngineIsScan`, the refinement of
  `PageScan`. `SInv` adds to `IInv`: `Groups` (group numbers in use are below
  `part_seq`, and the group being made has packs of the algorithms before the
  current one only, so that a pack is published under a name no pack has),
  `Rows` (what is in buckets, shards, payload and packs comes from scanned pages
  and, before a failure, is all of it), `Covered` (a page below `db_offset` has
  been scanned or waits for a worker), `Last` (the carve of the last arena leaves
  less than a page of the stream), `Spool` (the last `finalize_algo` sequence
  leaves no shard) and `Phases` (buckets and payload are filled only at their
  place in the program). A page below `db_offset` cannot be missed, and at the
  end every whole page is below it: that is why 0 means the whole image.
  One result needs no assumption on the disk: `SuccessScansAll`, an exit status of
  0 means that exactly the pages of the image were scanned. A full disk can make a
  run that reports success lose digests, or publish torn records as digests, but
  not miss a page.
  `WindowIsBounded` needs one more invariant, `Counted`: what is in shards and
  payload of an algorithm is no more than the resident counter says, a flush adds
  at least the rows that are new to the shard, and a checkpoint that resets the
  counter has emptied all shards.
* `ByteRing_proofs`: `TypeCorrect`, `NothingOverwritten`, `PagesAreInOrder`,
  `SuccessMeansAll`, `WaitsOnlyIfQuit`, and `RingIsFifo`, the refinement of
  `BoundedFifo`. The invariant relates the three cursors of the ring to the counts
  of bytes written and read modulo the capacity; lemmas about quotient and
  remainder (`DivisionUnique`, `Ahead`) show that bytes less than a capacity apart
  never share a place.
* `HttpStream_proofs`: `TypeCorrect`, `DataInOrder`, `MemberIsWhole`,
  `WalkIsNotRefused`, `BufferIsSmall`. `HInv` says where the client is in the
  archive. `Pos`, the bytes received less those in the buffer, is the place of the
  next unit; `Buffer` says that the buffer is the units behind it, without a gap,
  also after a reconnection and after bytes were put back; `Place` gives for each
  point of the walk the places the next unit can be at, and `Handed` that what
  was handed on is the data before it. Two clauses are escapes a proof must not
  use up: `Cut` (a response ended early without an error, after which every read
  is empty) and `Stray` (behind an entry that is not `Skippable`, where the next
  unit is no local header, so the walk raises).
* `ChunkUpload_proofs`: `TypeCorrect`, `NothingDropped`, `LastDrainSuffices`.
  The invariant adds that no part is made once the stop event is set, that the
  queue of a drain is in the directory, and that in the drain after the event
  every part is in the queue or in the release unless an upload of it failed.
* `KWayMerge_proofs`: `TypeCorrect`, `OutputAscending`, `MergeIsExact`,
  `MergeLosesNothing`, `MergeSorts`, `OnePairPerRun`, `CutRunsRefused`. The
  invariant says that the pair of a run on the heap is the digest it read last,
  that what a run has given is written or on the heap, that nothing on the heap
  is below the digest written last, and that a run without a pair is at its end.

* `UniqueSink_proofs`: `TypeCorrect`, `NothingIsDropped`, `PacksAreExact`, for
  every database, cap and window. `UInv` adds to the types: `Names` (a run's
  number has been given out, so that no run is overwritten; a listed run is on
  disk unless a merge failed), `Position` (no cut pointer lies between the start
  of a page and the reader, so that what the reader goes past is just what
  `Places` leaves out), `Loops` (a full scan makes packs only behind the last
  page, with the sink closed), `Conserved` (memory and runs are the digests
  passed; sizes a spill is past are empty), `Window` (while pages are read there
  is room for a digest, and a capped carve ends full or behind the last page)
  and `Packed` (the runs of sizes without a pack still have all their digests).
* `FeedPipeline_proofs`: `TypeCorrect`, `AssetsFit`, `PiecesMakePacks`,
  `TextsAreNotMixed`, `ExportsSeeTheirRun`, `OnlyOldPiecesMislead` (where
  `latest-feed` has one run's pieces only, the published command and the text
  made from a download are right, so finding 5 needs `.bin` assets of another
  run). First, about `PackSplit`: what `Cat` returns (`CatSums`: each unit
  stands behind the lengths of the files before its own), that pieces cut at the
  same number of records join to the file (`CatSplit`), that each keeps the
  limit (`SplitFits`), and that whatever follows a whole pack is not read
  (`PackIsRead`). `Cat` is a recursive function of the library; its values are
  proved by the least place at which they would differ, so no induction theorem
  is needed. Then `FInv`: `Parts` (what a run uploaded stays what it is from its
  merge on, so all that is ever made, in reruns too, are the pieces of one
  pack), `Feed` and `Loaded` (every `.bin` asset in `latest-feed` or in a
  download is such a piece, at its number, of some run) and `Undisturbed` (what
  a run that is alone has deployed is still there). A download that holds all
  pieces of a run's pack begins with that pack, unless it also holds a pack that
  was not split, of whatever run: its name sorts first, and its header then says
  how much is read (`Shadowed`). That is why `NoMixedText` says "some run's" in
  general and "its own" only where no such file is; with one, finding 5 shows
  what is published.

Model-checked only: liveness under fairness (`Termination`, `EventuallyUploaded`,
`SourceEnds`, `PipelineEnds`), as statements with ENABLED are outside what the
prover can do; and the runs that expect a violation.

## 7. Findings

1. **A full disk loses digests silently** (`shard_sink.hpp:116`). The result of
   `out.write` is not examined, nor that of the implicit close; the same goes for
   the payload and the pack (`carve_engine.hpp` 385, 425). A record of which a part
   was written puts those behind it out of step.
2. **The last round of uploads is a single attempt** (`stream_http_hash_filter.py`
   1375). A failure there is neither retried nor reported, although the comment
   promises that failed uploads are retried and lose nothing.
3. **A timeout may lose more than one checkpoint window**
   (`stream_http_hash_filter.py` 1361). Nothing holds the carve back while
   uploads fail or are slow.
4. **Without `requests` a dropped connection ends the database early**
   (`stream_http_hash_filter.py` 978). The workflow installs `requests`, whose
   current versions report the short response.
5. **Assets of an earlier run spoil the list or the published command**
   (`sync_clean_hashes.yml` 203). `latest-feed` keeps the assets of earlier runs.
   When a pack is split for the first time, the old unsplit file sorts before the
   new pieces, `cvt1_to_text.py` reads as far as its header counts, and the old
   run's list is published as the new one, with success. When a later pack has
   fewer pieces, or is a single file again, the command in the notes joins pieces
   of two runs or skips the new file; the export job joins by another pattern and
   does not notice. The run `feed_stale` ends in a state that shows both, one for
   each algorithm.

## 8. Not modelled, and the plan

Not modelled because it keeps no state and decides nothing the properties speak
of: digest counts, sizes and Markdown of the notes; the speed projection (either
outcome of the gate is possible); the list of URLs to try; the counters of the
sinks; the binding; the other encodings of the filter, which are sequential loops
over chunks that the feed does not use. The bytes of a SQLite record, of a zip
name or of a CVT1 header are abstracted. `std::thread`'s constructor failing is
not modelled, nor are more than 99 pieces, for which the names would no longer
sort, nor "re-run all jobs", which starts a run afresh under its old number.

What could be added, in order:

1. `ShardPool` - per-thread buckets, `bucket_cap` flushes, 256 shard locks and
   the shared page index; shown to be what `CarvePage` and `PoolJoin` take as
   one set per batch.
2. `LeafPage` - varints, serial types and cell bounds as operators over bytes,
   checked against reference definitions over all small inputs.
3. A theorem that joins the ring's components: no thread of it waits for one that
   has ended, as a safety property that needs no fairness.
