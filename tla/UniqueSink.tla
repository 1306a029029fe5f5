----------------------------- MODULE UniqueSink -----------------------------
(***************************************************************************)
(* The Python carve of leaf pages and the sink its digests go to: in the   *)
(* full scan an ExternalUniqueSink, which spills the digests of a window   *)
(* to run files and merges them at the end into packs, and with a cap      *)
(* (--max-keep) a MemoryDigestSink, which ends the carve when it is full.  *)
(* Reading may fail at any page, every file may fail to be written.        *)
(*                                                                         *)
(* A database is a sequence of pages [leaf, cells], where a page without a *)
(* plausible leaf header has leaf = FALSE.  A cell is [kind, fit, cols]:   *)
(*   "row"   a METADATA row, with cols its three hash columns, each a      *)
(*           digest or Bad, the first fit of them on the page;             *)
(*   "skip"  a pointer, a varint or a header that cannot be read, or a row *)
(*           of another table;                                             *)
(*   "cut"   a pointer that lies itself behind the page.                   *)
(* A digest is a pair of its size and its value.                           *)
(* A run file is a sorted list; its order is KWayMerge's business, and     *)
(* here it is the set of its digests.                                      *)
(***************************************************************************)
EXTENDS Integers, Sequences, FiniteSets, SequencesExt

CONSTANTS Digests,        \* the digests that occur
          Dbs,            \* databases
          Caps,           \* values of --max-keep, 0 for the full scan
          MemoryItems     \* memory_items, the digests of a window

Sizes == <<16, 20, 32>>
Bad == << >>        \* a column that looks_like_digest refuses

CellType == {x \in [kind : {"row", "skip", "cut"}, fit : 0..3,
                    cols : Seq(Digests \union {Bad})] :
               x.kind = "row" => Len(x.cols) = 3}

ASSUME SinkAssumption ==
    /\ Digests \subseteq {16, 20, 32} \X Nat /\ IsFiniteSet(Digests)
    /\ \A d \in Dbs : d \in Seq([leaf : BOOLEAN, cells : Seq(CellType)])
    /\ Caps \subseteq Nat /\ MemoryItems \in Nat \ {0}

VARIABLES
    db, cap,
    at,          \* page, cell and column that come next
    sets,        \* per size, the digests in memory
    disk,        \* the run files: a function from names to sets of digests
    runs,        \* per size, the names of its runs
    runSeq,      \* _run_seq
    closed,      \* _closed
    turn,        \* the size a loop over the sizes is at
    back,        \* where _spill_all returns to
    unique,      \* what a pack is written from: unique_<size>.raw, or a list
    packs,       \* per size, the pack in the output directory
    pc

vars == <<db, cap, at, sets, disk, runs, runSeq, closed, turn, back, unique, packs, pc>>
input == <<db, cap>>
files == <<disk, runs, runSeq, closed>>
loop == <<turn, back>>
result == <<unique, packs>>

NoPack == [whole |-> FALSE, n |-> 0, digests |-> {}]

Init ==
    /\ db \in Dbs /\ cap \in Caps
    /\ at = <<1, 1, 1>>
    /\ sets = [s \in ToSet(Sizes) |-> {}]
    /\ disk = << >> /\ runs = [s \in ToSet(Sizes) |-> << >>] /\ runSeq = 0
    /\ closed = FALSE /\ turn = 1 /\ back = "row"
    /\ unique = {} /\ packs = [s \in ToSet(Sizes) |-> NoPack]
    /\ pc = "page"

Full == cap = 0
Held == UNION {{s} \X sets[s] : s \in DOMAIN sets}

Page == db[at[1]]
Cell == Page.cells[at[2]]
Size == Sizes[turn]

-----------------------------------------------------------------------------
(* carve_sqlite_stream_from_ring and _carve_leaf_table_page. *)

To(p, c, k, label) == at' = <<p, c, k>> /\ pc' = label
NextPage == To(at[1] + 1, 1, 1, "page")
NextCell == To(at[1], at[2] + 1, 1, "cell")

ReadPage ==
    /\ pc = "page"
    /\ IF at[1] > Len(db) THEN To(at[1], 1, 1, "carved")
       ELSE IF Page.leaf THEN To(at[1], 1, 1, "cell")
       ELSE NextPage
    /\ UNCHANGED <<input, sets, files, loop, result>>

PageEnds == at[2] > Len(Page.cells) \/ Cell.kind = "cut"

\* An unreadable cell or foreign row is passed over; a cut pointer ends the page.
ReadCell ==
    /\ pc = "cell"
    /\ IF PageEnds THEN NextPage
       ELSE IF Cell.kind = "skip" THEN NextCell
       ELSE To(at[1], at[2], 1, "row")
    /\ UNCHANGED <<input, sets, files, loop, result>>

-----------------------------------------------------------------------------
(* _digests_from_record_payload and offer_hex. *)

RowEnds == at[3] > Cell.fit
NextColumn == <<at[1], at[2], at[3] + 1>>

ColumnEnds ==
    /\ pc = "row"
    /\ \/ RowEnds /\ NextCell
       \/ ~RowEnds /\ Cell.cols[at[3]] = Bad /\ at' = NextColumn /\ UNCHANGED pc
    /\ UNCHANGED <<input, sets, files, loop, result>>

Offered == Cell.cols[at[3]]

HeldNext == Held \union {Offered}

\* A new digest fills the window.
WindowFull == Full /\ Offered \notin Held /\ Cardinality(HeldNext) >= MemoryItems

\* max_keep is reached.
Stopped == ~Full /\ Cardinality(HeldNext) >= cap

\* A digest goes into the set of its size.  The window may then have to be
\* spilled, in the middle of the row; a full MemoryDigestSink ends row, page and
\* carve.
Offer ==
    /\ pc = "row" /\ ~RowEnds /\ Offered # Bad
    /\ LET s == Offered[1] IN
       /\ sets' = [sets EXCEPT ![s] = @ \union {Offered[2]}]
       /\ at' = NextColumn
       /\ pc' = IF WindowFull THEN "spill"
                ELSE IF Stopped THEN "carved" ELSE "row"
    /\ turn' = 1 /\ back' = "row"
    /\ UNCHANGED <<input, files, result>>

-----------------------------------------------------------------------------
(* _spill_all, a step per size. *)

\* Mutant of NextSeq: the number is not incremented.
SeqKept == runSeq

NextSeq == runSeq + 1

\* Mutant of Cleared: the set is kept.
Kept(s) == sets

Cleared(s) == [sets EXCEPT ![s] = {}]

RunName == <<Size, runSeq>>
Write(digests) == disk' = [n \in DOMAIN disk \union {RunName} |->
                             IF n = RunName THEN digests ELSE disk[n]]

SpillSize ==
    /\ pc = "spill" /\ turn <= Len(Sizes)
    /\ turn' = turn + 1
    /\ IF sets[Size] = {} THEN UNCHANGED <<sets, disk, runs, runSeq>>
       ELSE /\ Write(sets[Size]) /\ runSeq' = NextSeq
            /\ runs' = [runs EXCEPT ![Size] = Append(@, RunName)]
            /\ sets' = Cleared(Size)
    /\ UNCHANGED <<input, at, closed, back, result, pc>>

SpillDone ==
    /\ pc = "spill" /\ turn > Len(Sizes)
    /\ closed' = (closed \/ back # "row")
    /\ turn' = 1 /\ pc' = back
    /\ UNCHANGED <<input, at, sets, disk, runs, runSeq, back, result>>

\* An exception: __exit__ closes the sink, which spills what is left, and the
\* exception goes on.
Raise ==
    IF Full /\ ~closed /\ ~(pc = "spill" /\ back = "failed")
    THEN pc' = "spill" /\ turn' = 1 /\ back' = "failed"
    ELSE pc' = "failed" /\ UNCHANGED loop

\* The disk is full: a part of the run is on disk, the set keeps its digests.
SpillFails ==
    /\ pc = "spill" /\ turn <= Len(Sizes) /\ sets[Size] # {}
    /\ \E part \in SUBSET sets[Size] : Write(part)
    /\ runSeq' = NextSeq
    /\ Raise
    /\ UNCHANGED <<input, at, sets, runs, closed, result>>

\* ring.read raises, the header is not one of SQLite, or the pipeline reports the
\* writer's error after the carve.
ReadFails ==
    /\ pc \in {"page", "carved"}
    /\ Raise
    /\ UNCHANGED <<input, at, sets, files, result>>

-----------------------------------------------------------------------------
(* finalize_external_unique_to_packs, write_clean_packs. *)

\* Mutant of Remainder: the sink is not closed first.
NoRemainder == "merge"

\* sink.close() spills the digests of the last window.
Remainder == IF Full THEN "spill" ELSE "merge"

Finalize ==
    /\ pc = "carved"
    /\ pc' = Remainder /\ turn' = 1 /\ back' = "merge"
    /\ UNCHANGED <<input, at, sets, files, result>>

RunsOf(s) == ToSet(runs[s])
AllRuns == UNION {disk[n] : n \in RunsOf(Size)}
WithoutRuns == [n \in DOMAIN disk \ RunsOf(Size) |-> disk[n]]

\* The runs are merged and removed; partition_by_algo takes the set as it is.
MergeRuns ==
    /\ pc = "merge" /\ turn <= Len(Sizes)
    /\ IF Full
       THEN /\ unique' = AllRuns
            /\ disk' = WithoutRuns
            /\ runs' = [runs EXCEPT ![Size] = << >>]
       ELSE unique' = sets[Size] /\ UNCHANGED <<disk, runs>>
    /\ pc' = "write"
    /\ UNCHANGED <<input, at, sets, runSeq, closed, loop, packs>>

\* A part of the result is on disk.  Once the runs have been opened, a merge of
\* several removes them all on its way out (finally); sink.runs still lists them.
MergeFails ==
    /\ pc = "merge" /\ turn <= Len(Sizes) /\ Full
    /\ unique' \in SUBSET AllRuns
    /\ \/ UNCHANGED disk
       \/ Len(runs[Size]) > 1 /\ disk' = WithoutRuns
    /\ Raise
    /\ UNCHANGED <<input, at, sets, runs, runSeq, closed, packs>>

Put(digests, complete) ==
    packs' = [packs EXCEPT ![Size] = [whole |-> complete, n |-> Cardinality(unique),
                                      digests |-> digests]]

WritePack ==
    /\ pc = "write"
    /\ Put(unique, TRUE)
    /\ turn' = turn + 1 /\ pc' = "merge"
    /\ UNCHANGED <<input, at, sets, files, back, unique>>

\* Header and some digests are written.
WriteFails ==
    /\ pc = "write"
    /\ \E part \in SUBSET unique : Put(part, FALSE)
    /\ Raise
    /\ UNCHANGED <<input, at, sets, files, unique>>

AllWritten ==
    /\ pc = "merge" /\ turn > Len(Sizes)
    /\ pc' = "ok"
    /\ UNCHANGED <<input, at, sets, files, loop, result>>

Terminated == pc \in {"ok", "failed"} /\ UNCHANGED vars

Next ==
    \/ ReadPage \/ ReadCell \/ ColumnEnds \/ Offer \/ ReadFails
    \/ SpillSize \/ SpillDone \/ SpillFails
    \/ Finalize \/ MergeRuns \/ MergeFails \/ WritePack \/ WriteFails \/ AllWritten
    \/ Terminated

Spec == Init /\ [][Next]_vars

-----------------------------------------------------------------------------
(* What the pages hold, read off the database without a reader. *)

\* The place of a column: page, cell and column.
Columns(p) == {<<p, c, k>> : c \in 1..Len(db[p].cells), k \in 1..3}

\* The places of all digests that are whole and on a page.
Places ==
    {x \in UNION {Columns(p) : p \in 1..Len(db)} :
        LET on == db[x[1]] IN
        /\ on.leaf /\ \A e \in 1..x[2] : on.cells[e].kind # "cut"
        /\ on.cells[x[2]].kind = "row" /\ x[3] <= on.cells[x[2]].fit
        /\ on.cells[x[2]].cols[x[3]] # Bad}

Precedes(x, y) ==
    \/ x[1] < y[1]
    \/ x[1] = y[1] /\ x[2] < y[2]
    \/ x[1] = y[1] /\ x[2] = y[2] /\ x[3] < y[3]

Digest(x) == db[x[1]].cells[x[2]].cols[x[3]]
DigestsOf(places) == {Digest(x) : x \in places}
Found == DigestsOf(Places)
Passed == DigestsOf({x \in Places : Precedes(x, at)})

OfSize(digests, s) == {d[2] : d \in {e \in digests : e[1] = s}}

-----------------------------------------------------------------------------
(* Properties. *)

\* Every variable stays within its type; the window is never over memory_items,
\* nor the capped set over max_keep.  A listed run is on disk, under its size;
\* only a merge that fails removes runs that stay listed.
TypeOK ==
    /\ at \in (1..(Len(db) + 1)) \X (Nat \ {0}) \X (1..4)
    /\ \A s \in DOMAIN sets : \A n \in RunsOf(s) :
          n[1] = s /\ (n \in DOMAIN disk \/ (pc = "failed" /\ back = "merge"))
    /\ Cardinality(Held) <= (IF Full THEN MemoryItems ELSE cap)
    /\ runSeq \in Nat /\ closed \in BOOLEAN /\ turn \in 1..(Len(Sizes) + 1)
    /\ pc \in {"page", "cell", "row", "carved", "spill", "merge", "write", "ok", "failed"}

\* Until packs are made, window and runs together hold exactly the digests of the
\* pages passed so far, across spills in the middle of a row, of one size or of
\* several, and also when a spill failed and is repeated by close().
NothingDropped ==
    back # "merge" \/ pc = "spill" =>
        \A s \in DOMAIN sets :
            sets[s] \union UNION {disk[n] : n \in RunsOf(s)} = OfSize(Passed, s)

\* Success means three whole packs, and a pack is whole, its header counting its
\* digests, only when it has every digest of its size the database holds; with a
\* cap, the first digests in file order, as many as the cap allows.  This also
\* holds of packs left behind by a run that failed later.
PacksExact ==
    /\ pc = "ok" => \A s \in DOMAIN packs : packs[s].whole
    /\ \A s \in DOMAIN packs :
          packs[s].whole =>
              /\ packs[s].n = Cardinality(packs[s].digests)
              /\ packs[s].digests = OfSize(IF Full THEN Found ELSE Passed, s)
    /\ pc = "ok" /\ ~Full =>
          Cardinality(Held) = Min({cap, Cardinality(Found)})
=============================================================================
