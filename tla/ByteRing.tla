------------------------------ MODULE ByteRing ------------------------------
(***************************************************************************)
(* The Python pipeline that carves when the native engine is not used: a   *)
(* writer thread inflates the database into a ByteRing, and the main       *)
(* thread reads it page by page, gives the digests to a sink, joins the    *)
(* writer and reports (_run_zip_carve_pipeline).                           *)
(*                                                                         *)
(* A byte is named by its position in the stream.  Each turn of the loops  *)
(* of write() and read() holds the lock, so it is one action; the waits    *)
(* are guards, as they wake up every second at the latest.                 *)
(***************************************************************************)
EXTENDS Integers, Sequences

CONSTANTS Cap,           \* bytes in the ring
          HeaderSize,    \* bytes of the database header
          PageSize,      \* bytes of a page
          MaxBlock,      \* longest block the inflater yields
          Lengths        \* lengths the stream may have

ASSUME RingAssumption ==
    /\ Cap \in Nat \ {0} /\ MaxBlock \in Nat \ {0}
    /\ HeaderSize \in Nat \ {0} /\ PageSize \in Nat /\ PageSize > HeaderSize
    /\ Lengths \subseteq Nat

VARIABLES
    src,       \* the input: stream length, header validity, whether the sink is capped
    buf,       \* the ring's bytes
    w, r,      \* _w and _r
    eof, error,
    block,     \* bytes of the writer's block still to be written
    wpc,       \* where the writer is
    want, got, \* the read(n) under way: n, and what it has of it
    rpc,       \* which read it is, or where the main thread is after the reads
    quit,      \* the reader left before the end of the stream
    pages      \* the pages carved, in order

ringVars == <<buf, w, r, eof, error>>
writerVars == <<block, wpc>>
readerVars == <<want, got, rpc, quit, pages>>
vars == <<src, ringVars, writerVars, readerVars>>

Least(a, b) == IF a < b THEN a ELSE b

PageUnits(q) == [j \in 1..PageSize |-> q * PageSize + j - 1]

Reads == {"header", "rest", "page"}
Outcomes == {"ok", "failed"}

Init ==
    /\ src \in [len : Lengths, valid : BOOLEAN, capped : BOOLEAN]
    /\ buf = [i \in 0..(Cap - 1) |-> -1]
    /\ w = 0 /\ r = 0 /\ eof = FALSE /\ error = FALSE
    /\ block = 0 /\ wpc = "source"
    /\ want = HeaderSize /\ got = <<>> /\ rpc = "header" /\ quit = FALSE
    /\ pages = <<>>

-----------------------------------------------------------------------------
(* Writer thread: writer_inflate_db_to_ring.  It is a daemon: it stops with *)
(* the main thread.                                                         *)

Running == rpc \notin Outcomes

\* The inflater yields a block.
NextBlock ==
    /\ Running /\ wpc = "source"
    /\ \E n \in 1..MaxBlock : w + n <= src.len /\ block' = n
    /\ wpc' = "write"
    /\ UNCHANGED <<src, ringVars, readerVars>>

\* Mutant of Space: the bytes not read yet are forgotten.
WholeRing == Cap

Space == Cap - (w - r)

\* Mutant of WriteAt: what does not fit behind the index is written there.
WriteAtStart(n) ==
    [i \in 0..(Cap - 1) |-> IF i < n THEN w + i ELSE buf[i]]

\* The ring after n bytes: a piece up to its end, the rest from its beginning.
WriteAt(n) ==
    LET idx   == w % Cap
        first == Least(n, Cap - idx)
    IN [i \in 0..(Cap - 1) |->
          IF i \in idx..(idx + first - 1) THEN w + (i - idx)
          ELSE IF i < n - first THEN w + first + i ELSE buf[i]]

\* One turn of write(): it waits while the ring is full.  _error is never set
\* there, as only this thread calls fail().
Write ==
    LET n == Least(block, Space) IN
    /\ Running /\ wpc = "write" /\ w - r < Cap
    /\ buf' = WriteAt(n)
    /\ w' = w + n
    /\ block' = block - n
    /\ wpc' = IF block = n THEN "source" ELSE "write"
    /\ UNCHANGED <<src, r, eof, error, readerVars>>

\* The member ends: close_writer().
Close ==
    /\ Running /\ wpc = "source" /\ w = src.len
    /\ eof' = TRUE
    /\ wpc' = "ended"
    /\ UNCHANGED <<src, buf, w, r, error, block, readerVars>>

\* The source raises: fail(), and the exception is recorded for the main thread.
SourceFails ==
    /\ Running /\ wpc = "source"
    /\ error' = TRUE
    /\ eof' = TRUE
    /\ wpc' = "raised"
    /\ UNCHANGED <<src, buf, w, r, block, readerVars>>

-----------------------------------------------------------------------------
(* Main thread: carve_sqlite_stream_from_ring, then the join. *)

\* n bytes from the ring, in two pieces when they reach over its end.
ReadAt(n) ==
    LET idx   == r % Cap
        first == Least(n, Cap - idx)
    IN [j \in 1..n |-> IF j <= first THEN buf[idx + j - 1] ELSE buf[j - first - 1]]

\* Mutant of Take: whatever is in the ring.
TakeAll == w - r

Take == Least(want - Len(got), w - r)

\* One turn of read(): it waits while the ring is empty.
ReadSome ==
    LET n == Take IN
    /\ rpc \in Reads /\ Len(got) < want /\ w > r /\ ~error
    /\ got' = got \o ReadAt(n)
    /\ r' = r + n
    /\ UNCHANGED <<src, buf, w, eof, error, writerVars, want, rpc, quit, pages>>

\* The writer's exception is raised in the reader, whatever is left to read.
ReadRaises ==
    /\ rpc \in Reads /\ Len(got) < want /\ error
    /\ rpc' = "joinfail"
    /\ UNCHANGED <<src, ringVars, writerVars, want, got, quit, pages>>

\* Mutant of AtEnd: an empty ring is taken for the end of the stream.
Drained == w = r

AtEnd == w = r /\ eof /\ ~error

\* read() returns: all it was asked for, or less at the end of the stream.
Returned == Len(got) = want \/ AtEnd
Short == Len(got) < want

\* The reader goes on with another read of n bytes.
Then(n, next) == want' = n /\ got' = <<>> /\ rpc' = next

\* The header must be there and valid, the first page whole.
HeaderRead ==
    /\ rpc = "header" /\ Returned
    /\ IF Short \/ ~src.valid
       THEN rpc' = "joinfail" /\ quit' = (quit \/ ~Short) /\ UNCHANGED <<want, got>>
       ELSE want' = PageSize /\ rpc' = "rest" /\ UNCHANGED <<got, quit>>
    /\ UNCHANGED <<src, ringVars, writerVars, pages>>

\* A whole page is carved.  The sink may be full by then (max_keep) and stops
\* the loop, or raise: a spill that cannot be written.
PageRead ==
    /\ rpc \in {"rest", "page"} /\ Returned /\ ~Short
    /\ \/ pages' = Append(pages, got) /\ Then(PageSize, "page") /\ UNCHANGED quit
       \/ /\ src.capped
          /\ pages' = Append(pages, got)
          /\ rpc' = "join" /\ quit' = TRUE /\ UNCHANGED <<want, got>>
       \/ rpc' = "joinfail" /\ quit' = TRUE /\ UNCHANGED <<want, got, pages>>
    /\ UNCHANGED <<src, ringVars, writerVars>>

\* The stream has ended: an error within the first page, otherwise the end of
\* the loop; a trailing partial page is ignored.
StreamRead ==
    /\ rpc \in {"rest", "page"} /\ Returned /\ Short
    /\ rpc' = IF rpc = "rest" THEN "joinfail" ELSE "join"
    /\ UNCHANGED <<src, ringVars, writerVars, want, got, quit, pages>>

WriterAlive == wpc \in {"source", "write"}

\* Mutant of Report: the writer's exception is not looked at.
ReaderOnly == IF rpc = "join" THEN "ok" ELSE "failed"

\* The reader's exception goes on, otherwise the writer's is raised.
Report == IF rpc = "joinfail" \/ wpc = "raised" THEN "failed" ELSE "ok"

\* t.join() returns.
Join ==
    /\ rpc \in {"join", "joinfail"} /\ ~WriterAlive
    /\ rpc' = Report
    /\ UNCHANGED <<src, ringVars, writerVars, want, got, quit, pages>>

\* Mutant of GivesUp: the join has no time limit.
JoinForever == FALSE

\* An hour has gone by.
GivesUp == WriterAlive

\* The join gives up and leaves the daemon thread behind.
JoinTimesOut ==
    /\ rpc \in {"join", "joinfail"} /\ GivesUp
    /\ rpc' = Report
    /\ UNCHANGED <<src, ringVars, writerVars, want, got, quit, pages>>

\* The process ends with its main thread.
Ended == rpc \in Outcomes /\ UNCHANGED vars

-----------------------------------------------------------------------------
Writer == NextBlock \/ Write \/ Close \/ SourceFails

Reader == \/ ReadSome \/ ReadRaises \/ HeaderRead \/ PageRead \/ StreamRead
          \/ Join \/ JoinTimesOut

Next == Writer \/ Reader \/ Ended

Spec == Init /\ [][Next]_vars

\* Both threads run; the source yields, ends or raises (SourceEnds of HttpStream).
FairSpec == Spec /\ WF_vars(Writer) /\ WF_vars(Reader)

-----------------------------------------------------------------------------
(* Properties. *)

\* Every variable stays within its type.
TypeOK ==
    /\ src \in [len : Lengths, valid : BOOLEAN, capped : BOOLEAN]
    /\ buf \in [0..(Cap - 1) -> Int]
    /\ w \in 0..src.len /\ r \in 0..w
    /\ eof \in BOOLEAN /\ error \in BOOLEAN
    /\ block \in 0..MaxBlock /\ wpc \in {"source", "write", "ended", "raised"}
    /\ want \in {HeaderSize, PageSize} /\ got \in Seq(Int) /\ Len(got) <= want
    /\ rpc \in Reads \union {"join", "joinfail"} \union Outcomes
    /\ quit \in BOOLEAN /\ pages \in Seq(Seq(Int))

\* No byte is overwritten before it is read, exactly full and exactly empty
\* rings and pieces that reach over the end included.
RingHolds == w - r <= Cap /\ \A k \in r..(w - 1) : buf[k % Cap] = k

\* The pages carved are those of the stream, whole and in order.
PagesInOrder == \A q \in 1..Len(pages) : pages[q] = PageUnits(q - 1)

\* Success means that every whole page was carved, unless the sink had enough,
\* and that the writer did not fail.
OkMeansAll ==
    rpc = "ok" =>
        /\ wpc # "raised"
        /\ quit \/ Len(pages) = src.len \div PageSize

\* The join has to wait for a writer that cannot go on only when the reader has
\* left the stream to itself; a carve that reads to the end never spends the
\* hour.
PatientOnlyIfQuit == rpc \in {"join", "joinfail"} /\ WriterAlive => quit

\* The pipeline ends, also when one thread leaves the other alone.
PipelineEnds == <>(rpc \in Outcomes)

\* The ring is a bounded queue: every step of the two threads is one of its
\* steps or leaves it alone.
Fifo == INSTANCE BoundedFifo WITH
            Capacity <- Cap,
            queue <- [j \in 1..(w - r) |-> buf[(r + j - 1) % Cap]],
            sent <- w,
            status <- IF error THEN "failed" ELSE IF eof THEN "closed" ELSE "open"

ImplementsFifo == Fifo!Spec
=============================================================================
