----------------------------- MODULE CarveEngine -----------------------------
(***************************************************************************)
(* The native full-scan carver (src/native/include/cvt/carve_engine.hpp)   *)
(* as stream_rds_zip_carve_full drives it.  Three threads share it:        *)
(*                                                                         *)
(*   writer   the Python producer thread: inflates the member and copies   *)
(*            it, block by block, into one of two arenas (write), hands a  *)
(*            full arena to a carve thread (submit_fill_arena_) and closes *)
(*            the stream (close_writer);                                   *)
(*   carver   at most one at a time: cuts its arena into pages, lets a     *)
(*            pool scan them, flushes digests to the shard files and, in   *)
(*            chunked mode, checkpoints the shards into part files;        *)
(*   main     joins the writer, writes the last part or the packs, then    *)
(*            removes the shard directory.                                 *)
(*                                                                         *)
(* The stream is counted in units.  A unit is named by its position, so a  *)
(* page read back from an arena shows where each unit of it came from.     *)
(* Condition-variable waits are guards: every predicate is changed under   *)
(* the mutex and followed by notify_all.                                   *)
(***************************************************************************)
EXTENDS Integers, Sequences, FiniteSets

CONSTANTS PageSize,        \* units per database page
          HeaderSize,      \* units of the SQLite header
          ArenaSize,       \* arena_bytes_, in units
          MaxBlock,        \* longest block the inflater hands over, in units
          Lengths,         \* lengths the inflated stream may have
          LastPage,        \* pages are numbered 0..LastPage
          Row,             \* metadata rows; a row stands for its three digests
          Torn,            \* a record of a digest file that is no row's digest
          RowsOn,          \* rows whose digests a page holds
          CheckpointRows,  \* checkpoint_bytes_, in rows
          DiskMayFill      \* whether writes of digests may be cut short

Page == 0..LastPage

ASSUME SizesAssumption ==
    /\ PageSize \in Nat \ {0}
    /\ HeaderSize \in 1..PageSize
    /\ ArenaSize \in Nat /\ ArenaSize >= PageSize
    /\ MaxBlock \in Nat \ {0}
    /\ LastPage \in Nat
    /\ Lengths \subseteq 0..(LastPage * PageSize + PageSize)
    /\ CheckpointRows \in Nat \ {0}
    /\ DiskMayFill \in BOOLEAN

ASSUME RowsAssumption ==
    IsFiniteSet(Row) /\ Torn \notin Row /\ RowsOn \in [Page -> SUBSET Row]

Record == Row \union {Torn}

Algo == {"md5", "sha1", "sha256"}
AlgoOrder == <<"md5", "sha1", "sha256">>   \* the order of finalize_algo calls
CleanPack == -1      \* the group number of clean_*.bin, which has none

VARIABLES
    src,        \* the run's input: stream length, header validity, chunked mode
    \* writer thread
    wpc,        \* where the writer is
    blk,        \* units of the current block still to copy (n - off)
    wr,         \* units copied into arenas since the start
    closing,    \* close_writer() has been called
    \* engine members
    arena,      \* arenas_
    fill_idx, fill_used, carving, error,
    header_ok, db_offset, prefix, part_seq,
    \* carve thread
    tpc,        \* where the carve thread is; "none" when not joinable
    job,        \* what submit_fill_arena_ captured: idx, used, eof
    buf,        \* the copy made when a prefix is prepended, else <<>>
    todo,       \* pages of the batch not scanned yet: offset in view, page1
    pending,    \* rows the pool has offered to its buckets in this batch
    offered,    \* how many offers that were, duplicates included
    \* disk
    shards,     \* records in the shard files, per algorithm
    resident,   \* resident_bytes_, in rows
    parts,      \* published packs: group, algorithm, records
    ckpt,       \* progress of the finalize_algo sequence
    \* main thread
    mpc,
    \* history
    scanned     \* pages the pool has scanned: the units read, the page1 flag

writerVars == <<wpc, blk, wr, closing>>
arenaVars  == <<arena, fill_idx, fill_used>>
carveVars  == <<header_ok, db_offset, prefix, buf, todo, pending, offered, scanned>>
diskVars   == <<shards, resident, parts, ckpt, part_seq>>
vars == <<src, writerVars, arenaVars, carving, error, tpc, job, carveVars,
          diskVars, mpc>>

Least(a, b) == IF a < b THEN a ELSE b

WriterPC == {"next", "check", "wait", "copy", "submit", "launch", "eofjoin",
             "close", "closewait", "closed", "raised", "dead"}
CarverPC == {"none", "start", "pool", "ckpt", "throw", "clear", "done"}
MainPC == {"join", "finalize", "unwind_ok", "unwind_err", "destroy_ok",
           "destroy_err", "exit0", "exit2", "aborted"}
Exits == {"exit0", "exit2", "aborted"}

\* The process is gone once std::terminate has run.
Alive == mpc # "aborted"

PageUnits(q) == [j \in 1..PageSize |-> q * PageSize + j - 1]

\* The pages of an image are the whole pages of its stream.
Image == {q \in Page : q * PageSize + PageSize <= src.len}

RowsIn(S) == UNION {RowsOn[q] : q \in S}

-----------------------------------------------------------------------------
(* The initial state: a run on one input. *)

Idle == [alg |-> 0, step |-> "drain", group |-> 0, payload |-> {}]

Init ==
    /\ src \in [len : Lengths, valid : BOOLEAN, chunked : BOOLEAN]
    /\ wpc = "next" /\ blk = 0 /\ wr = 0 /\ closing = FALSE
    /\ arena = [i \in {0, 1} |-> [j \in 1..ArenaSize |-> -1]]
    /\ fill_idx = 0 /\ fill_used = 0
    /\ carving = [i \in {0, 1} |-> FALSE]
    /\ error = FALSE
    /\ tpc = "none" /\ job = [idx |-> 0, used |-> 0, eof |-> FALSE]
    /\ header_ok = FALSE /\ db_offset = 0 /\ prefix = <<>>
    /\ buf = <<>> /\ todo = {} /\ pending = {} /\ offered = 0 /\ scanned = {}
    /\ shards = [a \in Algo |-> {}] /\ resident = 0 /\ parts = {}
    /\ ckpt = Idle /\ part_seq = 0
    /\ mpc = "join"

-----------------------------------------------------------------------------
(* Writer thread. *)

\* The inflater yields a block and the producer calls write(block).
NextBlock ==
    /\ Alive /\ wpc = "next"
    /\ \E n \in 1..MaxBlock : wr + n <= src.len /\ blk' = n
    /\ wpc' = "check"
    /\ UNCHANGED <<src, wr, closing, arenaVars, carving, error, tpc, job,
                   carveVars, diskVars, mpc>>

\* The member ends and the producer calls close_writer().
EndOfMember ==
    /\ Alive /\ wpc = "next" /\ wr = src.len
    /\ wpc' = "close"
    /\ UNCHANGED <<src, blk, wr, closing, arenaVars, carving, error, tpc, job,
                   carveVars, diskVars, mpc>>

\* The source raises: connection lost for good, bad zip, bad deflate data.
SourceError ==
    /\ Alive /\ wpc = "next"
    /\ wpc' = "raised"
    /\ UNCHANGED <<src, blk, wr, closing, arenaVars, carving, error, tpc, job,
                   carveVars, diskVars, mpc>>

\* The loop head of write().  error_ is read without mu_, so a failure the
\* carve thread has just recorded may be seen or missed.
WriteCheck ==
    /\ Alive /\ wpc = "check"
    /\ \/ blk = 0 /\ wpc' = "next"
       \/ blk > 0 /\ wpc' = "wait"
       \/ blk > 0 /\ error /\ wpc' = "raised"
    /\ UNCHANGED <<src, blk, wr, closing, arenaVars, carving, error, tpc, job,
                   carveVars, diskVars, mpc>>

WriteWait ==
    /\ Alive /\ wpc = "wait"
    /\ ~carving[fill_idx] \/ error
    /\ wpc' = IF error THEN "raised" ELSE "copy"
    /\ UNCHANGED <<src, blk, wr, closing, arenaVars, carving, error, tpc, job,
                   carveVars, diskVars, mpc>>

\* Mutant of Take: the space left in the arena is not considered.
TakeUnclamped == blk

\* How much of the block the arena takes.
Take == Least(blk, ArenaSize - fill_used)

\* memcpy of that much.
Copy ==
    LET At(j) == IF j \in (fill_used + 1)..(fill_used + Take)
                 THEN wr + j - fill_used - 1
                 ELSE arena[fill_idx][j]
    IN
    /\ Alive /\ wpc = "copy"
    /\ arena' = [arena EXCEPT ![fill_idx] = [j \in 1..ArenaSize |-> At(j)]]
    /\ fill_used' = fill_used + Take
    /\ blk' = blk - Take
    /\ wr' = wr + Take
    /\ wpc' = IF fill_used + Take = ArenaSize THEN "submit" ELSE "check"
    /\ UNCHANGED <<src, closing, fill_idx, carving, error, tpc, job, carveVars,
                   diskVars, mpc>>

\* submit_fill_arena_ claims the arena it is about to hand over.
SubmitWait ==
    /\ Alive /\ wpc = "submit"
    /\ ~carving[fill_idx] \/ error
    /\ IF error
       THEN wpc' = "raised" /\ UNCHANGED carving
       ELSE wpc' = "launch" /\ carving' = [carving EXCEPT ![fill_idx] = TRUE]
    /\ UNCHANGED <<src, blk, wr, closing, arenaVars, error, tpc, job, carveVars,
                   diskVars, mpc>>

\* Mutant of PreviousJoined: the carve thread is replaced while it runs.
PreviousNotJoined == TRUE

\* No previous carve thread, or join() returns.
PreviousJoined == tpc \in {"none", "done"}

\* Mutant of PreviousFailed: error_ is not looked at after the join.
PreviousForgiven == FALSE

PreviousFailed == tpc = "done" /\ error

\* It joins the previous carve thread, gives up if that one failed, and
\* otherwise starts the next on this arena and turns to the other arena.
SubmitLaunch ==
    /\ Alive /\ wpc = "launch"
    /\ PreviousJoined
    /\ IF PreviousFailed
       THEN /\ tpc' = "none" /\ wpc' = "raised"
            /\ UNCHANGED <<job, fill_idx, fill_used>>
       ELSE /\ tpc' = "start"
            /\ job' = [idx |-> fill_idx, used |-> fill_used, eof |-> closing]
            /\ fill_idx' = 1 - fill_idx /\ fill_used' = 0
            /\ wpc' = IF closing THEN "eofjoin" ELSE "check"
    /\ UNCHANGED <<src, blk, wr, closing, arena, carving, error, carveVars,
                   diskVars, mpc>>

\* The last submission waits for its own carve.
EofJoin ==
    /\ Alive /\ wpc = "eofjoin" /\ tpc = "done"
    /\ tpc' = "none"
    /\ wpc' = IF error THEN "raised" ELSE "closewait"
    /\ UNCHANGED <<src, blk, wr, closing, arenaVars, carving, error, job,
                   carveVars, diskVars, mpc>>

\* The head of close_writer(), another read of error_ without mu_.
CloseCheck ==
    /\ Alive /\ wpc = "close"
    /\ \/ wpc' = "submit" /\ closing' = TRUE
       \/ error /\ wpc' = "raised" /\ UNCHANGED closing
    /\ UNCHANGED <<src, blk, wr, arenaVars, carving, error, tpc, job, carveVars,
                   diskVars, mpc>>

\* The rest of close_writer(): its wait looks at carving_ alone.
CloseWait ==
    /\ Alive /\ wpc = "closewait"
    /\ ~carving[0] /\ ~carving[1]
    /\ wpc' = IF error THEN "raised" ELSE "closed"
    /\ UNCHANGED <<src, blk, wr, closing, arenaVars, carving, error, tpc, job,
                   carveVars, diskVars, mpc>>

\* writer_inflate_db_to_engine catches everything, calls engine.fail() and
\* raises again; run_writer records the exception and the thread ends.
WriterFails ==
    /\ Alive /\ wpc = "raised"
    /\ error' = TRUE
    /\ wpc' = "dead"
    /\ UNCHANGED <<src, blk, wr, closing, arenaVars, carving, tpc, job,
                   carveVars, diskVars, mpc>>

-----------------------------------------------------------------------------
(* Carve thread: carve_arena_, then carving_[idx] = false. *)

Live == SubSeq(arena[job.idx], 1, job.used)
View == IF buf = <<>> THEN Live ELSE buf
FirstView == prefix \o Live     \* the view as carve_arena_ sets it up

\* No data at all, or not even a header yet: nothing to scan.
CarveNothing ==
    /\ Alive /\ tpc = "start"
    /\ \/ FirstView = <<>>
       \/ ~header_ok /\ Len(FirstView) < HeaderSize
    /\ IF job.eof /\ ~header_ok
       THEN tpc' = "throw"            \* empty DB stream, truncated header
       ELSE tpc' = "clear"
    /\ prefix' = IF job.eof THEN <<>> ELSE FirstView
    /\ UNCHANGED <<src, writerVars, arenaVars, carving, error, job, header_ok,
                   db_offset, buf, todo, pending, offered, scanned, diskVars, mpc>>

\* The header is there and is not that of a SQLite 3 database.
BadHeader ==
    /\ Alive /\ tpc = "start"
    /\ ~header_ok /\ Len(FirstView) >= HeaderSize /\ ~src.valid
    /\ tpc' = "throw"
    /\ prefix' = <<>>
    /\ UNCHANGED <<src, writerVars, arenaVars, carving, error, job, header_ok,
                   db_offset, buf, todo, pending, offered, scanned, diskVars, mpc>>

\* The view is cut into whole pages; what is left over goes before the next
\* arena, or nowhere when this is the last one.
Paginate ==
    LET view == FirstView
        n == Len(view) \div PageSize
    IN
    /\ Alive /\ tpc = "start"
    /\ view # <<>>
    /\ header_ok \/ (Len(view) >= HeaderSize /\ src.valid)
    /\ header_ok' = TRUE
    /\ buf' = IF prefix = <<>> THEN <<>> ELSE view
    /\ todo' = {[off |-> k * PageSize, page1 |-> db_offset = 0 /\ k = 0] :
                  k \in 0..(n - 1)}
    /\ db_offset' = db_offset + n * PageSize
    /\ prefix' = IF job.eof THEN <<>> ELSE SubSeq(view, n * PageSize + 1, Len(view))
    /\ pending' = {} /\ offered' = 0
    /\ tpc' = IF n = 0 THEN "clear" ELSE "pool"
    /\ UNCHANGED <<src, writerVars, arenaVars, carving, error, job, scanned,
                   diskVars, mpc>>

\* What carve_leaf_table_page finds in PageSize units of memory: the rows of a
\* page when they are that page and its flag is right, and nothing it should.
RowsRead(units, page1) ==
    UNION {RowsOn[q] : q \in {p \in Page : units = PageUnits(p) /\ page1 = (p = 0)}}

\* A worker of the pool scans one of the pages handed out by the shared index.
\* Workers finish in any order.
CarvePage ==
    /\ Alive /\ tpc = "pool"
    /\ \E p \in todo :
         LET units == SubSeq(View, p.off + 1, p.off + PageSize)
             rows == RowsRead(units, p.page1)
         IN /\ todo' = todo \ {p}
            /\ scanned' = scanned \union {[units |-> units, page1 |-> p.page1]}
            /\ pending' = pending \union rows
            /\ offered' = offered + Cardinality(rows)
    /\ UNCHANGED <<src, writerVars, arenaVars, carving, error, tpc, job,
                   header_ok, db_offset, prefix, buf, diskVars, mpc>>

\* A bucket flush cannot open its shard file.  The exception leaves a pool
\* thread, so std::terminate ends the process.
PoolAborts ==
    /\ Alive /\ tpc = "pool" /\ pending # {}
    /\ mpc' = "aborted"
    /\ UNCHANGED <<src, writerVars, arenaVars, carving, error, tpc, job,
                   carveVars, diskVars>>

\* The calling thread enters finalize_algo for the first algorithm.
StartFinalize(group) ==
    ckpt' = [alg |-> 1, step |-> "drain", group |-> group, payload |-> {}]

\* Mutant of Appended: the shard files are opened with trunc, not app.
Truncated(a, rows) == rows

\* The shard files of an algorithm after a flush of rows.
Appended(a, rows) == shards[a] \union rows

\* Mutant of CheckpointDue: the checkpoint waits until its size is exceeded.
CheckpointLate(n) == src.chunked /\ n > CheckpointRows

\* maybe_checkpoint_, with n rows resident.
CheckpointDue(n) == src.chunked /\ n >= CheckpointRows

\* Mutant of NextSeq: a checkpoint does not use up its sequence number.
SameSeq == part_seq

NextSeq == part_seq + 1

\* What writing rows to a file of digests may leave in it.  No result of these
\* writes is examined: on a full disk any of them may be missing, and a record of
\* which a part was written is torn, as are those that follow it out of step.
Written(rows) == IF DiskMayFill THEN SUBSET (rows \union {Torn}) ELSE {rows}

\* The pool is joined, every bucket flushed; maybe_checkpoint_ decides.  Each
\* worker drops duplicates of its own buckets only, so the counter grows by
\* anything from the distinct rows to the offers, whatever was written.
PoolJoin ==
    /\ Alive /\ tpc = "pool" /\ todo = {}
    /\ mpc \in {"destroy_ok", "destroy_err"} => pending = {}
    /\ \E flushed \in Cardinality(pending)..offered, kept \in [Algo -> Written(pending)] :
         /\ shards' = [a \in Algo |-> Appended(a, kept[a])]
         /\ IF CheckpointDue(resident + flushed)
            THEN /\ tpc' = "ckpt"
                 /\ StartFinalize(part_seq) /\ part_seq' = NextSeq
            ELSE tpc' = "clear" /\ UNCHANGED <<ckpt, part_seq>>
         /\ resident' = resident + flushed
    /\ pending' = {} /\ offered' = 0
    /\ UNCHANGED <<src, writerVars, arenaVars, carving, error, job, header_ok,
                   db_offset, prefix, buf, todo, scanned, parts, mpc>>

-----------------------------------------------------------------------------
(* finalize_algo, for the three algorithms in turn.  The carve thread runs *)
(* it for a periodic checkpoint, the main thread for the last one and for  *)
(* write_packs; `at' is the place of the calling thread.                   *)

CurrentAlgo == AlgoOrder[ckpt.alg]
LastAlgo == ckpt.alg = Len(AlgoOrder)

\* Every shard file of the algorithm is read, sorted, deduplicated into the
\* payload file, and removed.
DrainShards(at) ==
    /\ at /\ ckpt.step = "drain"
    /\ \E payload \in Written(shards[CurrentAlgo]) :
          ckpt' = [ckpt EXCEPT !.step = "publish", !.payload = payload]
    /\ shards' = [shards EXCEPT ![CurrentAlgo] = {}]
    /\ UNCHANGED <<resident, parts, part_seq>>

\* The payload is copied behind a header, and the pack is renamed into place over
\* whatever had its name.  After the last algorithm do_checkpoint_ resets the
\* resident counter; write_packs does not.
PublishPart(at) ==
    /\ at /\ ckpt.step = "publish"
    /\ \E rows \in Written(ckpt.payload) :
          parts' = {p \in parts : p.group # ckpt.group \/ p.alg # CurrentAlgo} \union
                      {[group |-> ckpt.group, alg |-> CurrentAlgo, rows |-> rows]}
    /\ ckpt' = IF LastAlgo THEN Idle
               ELSE [ckpt EXCEPT !.alg = @ + 1, !.step = "drain", !.payload = {}]
    /\ resident' = IF LastAlgo /\ ckpt.group # CleanPack THEN 0 ELSE resident
    /\ UNCHANGED <<shards, part_seq>>

CheckpointDrain ==
    /\ Alive
    /\ DrainShards(tpc = "ckpt")
    /\ UNCHANGED <<src, writerVars, arenaVars, carving, error, tpc, job,
                   carveVars, mpc>>

CheckpointPublish ==
    /\ Alive
    /\ PublishPart(tpc = "ckpt")
    /\ tpc' = IF LastAlgo THEN "clear" ELSE "ckpt"
    /\ UNCHANGED <<src, writerVars, arenaVars, carving, error, job, carveVars, mpc>>

\* A shard of the wrong size, a file that cannot be created or renamed.
CheckpointThrows ==
    /\ Alive /\ tpc = "ckpt"
    /\ ckpt' = Idle
    /\ tpc' = "throw"
    /\ UNCHANGED <<src, writerVars, arenaVars, carving, error, job, carveVars,
                   shards, resident, parts, part_seq, mpc>>

\* The lambda catches the exception and calls fail().
CarveFails ==
    /\ Alive /\ tpc = "throw"
    /\ error' = TRUE
    /\ tpc' = "clear"
    /\ UNCHANGED <<src, writerVars, arenaVars, carving, job, carveVars,
                   diskVars, mpc>>

\* Mutant of Released: the flag of the arena stays up.
NotReleased == carving

Released == [carving EXCEPT ![job.idx] = FALSE]

\* The arena is released and the thread ends.
CarveClear ==
    /\ Alive /\ tpc = "clear"
    /\ carving' = Released
    /\ tpc' = "done"
    /\ buf' = <<>>
    /\ UNCHANGED <<src, writerVars, arenaVars, error, job, header_ok, db_offset,
                   prefix, todo, pending, offered, scanned, diskVars, mpc>>

-----------------------------------------------------------------------------
(* Main thread. *)

\* Mutant of WriterEnded: the join has a timeout and the writer is at work.
WriterAbandoned == TRUE

\* t.join(timeout=None) returns.
WriterEnded == wpc \in {"closed", "dead"}

\* Mutant of WriterRaised: the recorded exception is dropped.
WriterForgiven == FALSE

WriterRaised == wpc = "dead"

\* t.join(); a recorded exception is raised again, otherwise
\* finalize_chunked() or write_packs() begins.  Both look first whether
\* close_writer() was reached, which it was: a producer that ends without an
\* exception has returned from it.
MainJoin ==
    /\ mpc = "join" /\ WriterEnded
    /\ IF WriterRaised
       THEN mpc' = "unwind_err" /\ UNCHANGED <<ckpt, part_seq>>
       ELSE /\ mpc' = "finalize"
            /\ StartFinalize(IF src.chunked THEN part_seq ELSE CleanPack)
            /\ part_seq' = IF src.chunked THEN NextSeq ELSE part_seq
    /\ UNCHANGED <<src, writerVars, arenaVars, carving, error, tpc, job,
                   carveVars, shards, resident, parts>>

FinalDrain ==
    /\ DrainShards(mpc = "finalize")
    /\ UNCHANGED <<src, writerVars, arenaVars, carving, error, tpc, job,
                   carveVars, mpc>>

FinalPublish ==
    /\ PublishPart(mpc = "finalize")
    /\ mpc' = IF LastAlgo THEN "unwind_ok" ELSE "finalize"
    /\ UNCHANGED <<src, writerVars, arenaVars, carving, error, tpc, job, carveVars>>

FinalThrows ==
    /\ mpc = "finalize"
    /\ ckpt' = Idle
    /\ mpc' = "unwind_err"
    /\ UNCHANGED <<src, writerVars, arenaVars, carving, error, tpc, job,
                   carveVars, shards, resident, parts, part_seq>>

\* The finally block removes the shard directory, whoever may still use it:
\* what workers have flushed of a batch by then goes with it.
RemoveSpool ==
    /\ mpc \in {"unwind_ok", "unwind_err"}
    /\ shards' = [a \in Algo |-> {}]
    /\ pending' \in SUBSET pending
    /\ mpc' = IF mpc = "unwind_ok" THEN "destroy_ok" ELSE "destroy_err"
    /\ UNCHANGED <<src, writerVars, arenaVars, carving, error, tpc, job,
                   header_ok, db_offset, prefix, buf, todo, offered, scanned,
                   resident, parts, ckpt, part_seq>>

\* Mutant of ExitCode: main() returns 0 whatever happened.
AlwaysZero == "exit0"

ExitCode == IF mpc = "destroy_ok" THEN "exit0" ELSE "exit2"

\* ~CarveEngine joins a carve thread that is still running; then main()
\* returns 0 or 2.
Exit ==
    /\ mpc \in {"destroy_ok", "destroy_err"}
    /\ tpc \in {"none", "done"}
    /\ mpc' = ExitCode
    /\ UNCHANGED <<src, writerVars, arenaVars, carving, error, tpc, job,
                   carveVars, diskVars>>

\* The process has ended.
Ended == mpc \in Exits /\ UNCHANGED vars

-----------------------------------------------------------------------------
Writer == \/ NextBlock \/ EndOfMember \/ SourceError \/ WriteCheck \/ WriteWait
          \/ Copy \/ SubmitWait \/ SubmitLaunch \/ EofJoin \/ CloseCheck
          \/ CloseWait \/ WriterFails

Carver == \/ CarveNothing \/ BadHeader \/ Paginate \/ CarvePage \/ PoolAborts
          \/ PoolJoin \/ CheckpointDrain \/ CheckpointPublish \/ CheckpointThrows
          \/ CarveFails \/ CarveClear

Main == MainJoin \/ FinalDrain \/ FinalPublish \/ FinalThrows \/ RemoveSpool \/ Exit

Next == Writer \/ Carver \/ Main \/ Ended

Spec == Init /\ [][Next]_vars

\* Each thread keeps being scheduled, and the source keeps delivering: the
\* producer gets a block, the end of the member or an exception (SourceEnds of
\* HttpStream, under what is assumed of the server there).
FairSpec == Spec /\ WF_vars(Writer) /\ WF_vars(Carver) /\ WF_vars(Main)

-----------------------------------------------------------------------------
(* Properties. *)

\* Every variable stays within its type.
TypeOK ==
    /\ src \in [len : Lengths, valid : BOOLEAN, chunked : BOOLEAN]
    /\ wpc \in WriterPC /\ blk \in 0..MaxBlock /\ wr \in 0..src.len
    /\ closing \in BOOLEAN
    /\ arena \in [{0, 1} -> [1..ArenaSize -> Int]]
    /\ fill_idx \in {0, 1} /\ fill_used \in 0..ArenaSize
    /\ carving \in [{0, 1} -> BOOLEAN] /\ error \in BOOLEAN
    /\ tpc \in CarverPC
    /\ job \in [idx : {0, 1}, used : 0..ArenaSize, eof : BOOLEAN]
    /\ header_ok \in BOOLEAN /\ db_offset \in Nat
    /\ prefix \in Seq(Int) /\ buf \in Seq(Int)
    /\ todo \subseteq [off : Nat, page1 : BOOLEAN]
    /\ pending \subseteq Row /\ offered \in Nat
    /\ scanned \subseteq [units : Seq(Int), page1 : BOOLEAN]
    /\ shards \in [Algo -> SUBSET Record] /\ resident \in Nat
    /\ parts \subseteq [group : Nat \union {CleanPack}, alg : Algo, rows : SUBSET Record]
    /\ ckpt \in [alg : 0..3, step : {"drain", "publish"},
                 group : Nat \union {CleanPack}, payload : SUBSET Record]
    /\ part_seq \in Nat
    /\ mpc \in MainPC

\* Every page handed to the scanner is one whole page of the image, at its own
\* place in the stream, and only page 0 is scanned as the page that carries the
\* file header: no arena switch, leftover prefix or reused arena ever shifts,
\* mixes or overwrites the bytes a worker reads.
PagesIntact ==
    \A s \in scanned : \E q \in Image :
        s.units = PageUnits(q) /\ s.page1 = (q = 0)

\* The writer never copies into the arena being carved, and the main thread
\* never compacts the shard files while a carve thread exists: the exclusion
\* carve_engine.hpp relies on when it takes no lock around finalize_algo.
CarveExclusive ==
    /\ wpc = "copy" /\ tpc \in {"start", "pool"} => fill_idx # job.idx
    /\ mpc = "finalize" => tpc = "none"

Published(a) == UNION {p.rows : p \in {x \in parts : x.alg = a}}
ScannedPages == {q \in Page : [units |-> PageUnits(q), page1 |-> q = 0] \in scanned}
ScannedRows  == RowsIn(ScannedPages)
Unpublished(a) == shards[a] \union pending \union
                  (IF ckpt.step = "publish" /\ CurrentAlgo = a THEN ckpt.payload ELSE {})

Failing == error \/ tpc = "throw" \/
           mpc \in {"unwind_err", "destroy_err", "exit2", "aborted"}

\* As long as nothing has failed, every digest of every scanned page is in a
\* bucket, in a shard, in the payload being compacted or in a published pack,
\* for each algorithm: the periodic checkpoints lose none.
NoDigestLost ==
    ~Failing => \A a \in Algo : Unpublished(a) \union Published(a) = ScannedRows

\* In chunked mode the resident counter covers every digest that is not in a
\* part file yet, and between two batches it stays below the checkpoint size:
\* at any moment what is in no part file is one checkpoint window and the batch
\* in flight, and the spool is bounded by the same amount.  Whether a part that is
\* written also survives a kill is ChunkUpload's matter.
WindowBounded ==
    src.chunked /\ ~Failing =>
        /\ \A a \in Algo :
             Cardinality(ScannedRows \ Published(a)) <= resident + Cardinality(pending)
        /\ tpc # "ckpt" /\ mpc # "finalize" => resident < CheckpointRows

\* An exit status of 0 means the whole image: every page was scanned and every
\* pack family holds exactly the digests of the image.
ExactOnSuccess ==
    mpc = "exit0" =>
        /\ ScannedPages = Image
        /\ \A a \in Algo : Published(a) = RowsIn(Image)

\* A pack that has been renamed into place is never changed or replaced: the
\* uploader may take it the moment it appears.
PartsImmutable == [][parts \subseteq parts']_vars

\* Once a carve has failed, or the producer has, no other carve is started: a
\* batch after the failed one would be cut at the wrong offset or checkpointed
\* as if nothing were missing.
NoCarveAfterError == [][tpc' = "start" /\ tpc # "start" => ~error]_vars

\* The process ends, whatever fails and whenever: no thread waits forever.
Termination == <>(mpc \in Exits)

\* The engine does what PageScan promises.
Outcome == CASE mpc = "exit0" -> "ok"
             [] mpc \in {"exit2", "aborted"} -> "failed"
             [] OTHER -> "running"

Abstract == INSTANCE PageScan WITH
                image <- Image, pages <- ScannedPages,
                out <- [a \in Algo |-> Published(a)], outcome <- Outcome

\* Every step of the engine is a step of the abstract scan or leaves it alone.
ImplementsPageScan == Abstract!Spec
=============================================================================
