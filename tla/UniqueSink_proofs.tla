-------------------------- MODULE UniqueSink_proofs --------------------------
(***************************************************************************)
(* The Python carve and its sinks, for every database, window and cap: no  *)
(* digest is dropped between page and run file, and a whole pack is exact. *)
(***************************************************************************)
EXTENDS UniqueSink, FiniteSetTheorems, TLAPS

-----------------------------------------------------------------------------
(* The inductive invariant. *)

Z == {16, 20, 32}

\* The digests of a size in the run files that are listed.
InRuns(s) == UNION {disk[n] : n \in RunsOf(s)}

Types ==
    /\ db \in Dbs /\ cap \in Nat
    /\ at \in (1..(Len(db) + 1)) \X (Nat \ {0}) \X (1..4)
    /\ sets \in [Z -> SUBSET Nat] /\ Held \subseteq Digests
    /\ DOMAIN disk \subseteq Z \X Nat
    /\ runs \in [Z -> Seq(Z \X Nat)] /\ runSeq \in Nat /\ closed \in BOOLEAN
    /\ turn \in 1..4 /\ back \in {"row", "merge", "failed"}
    /\ packs = [s \in Z |-> packs[s]]
    /\ pc \in {"page", "cell", "row", "carved", "spill", "merge", "write", "ok", "failed"}

\* A run's number has been given out; a listed run is on disk, under its size,
\* until a merge fails.
Names ==
    /\ \A n \in DOMAIN disk : n[2] < runSeq
    /\ \A s \in Z : \A n \in RunsOf(s) :
          n[1] = s /\ (n \in DOMAIN disk \/ (pc = "failed" /\ back = "merge"))

\* The cells up to a place on a leaf page have been reached.
Reached(p, c) ==
    p <= Len(db) /\ db[p].leaf /\ \A e \in 1..c : db[p].cells[e].kind # "cut"

\* Where the reader is.
Position ==
    /\ pc = "page" => at[2] = 1 /\ at[3] = 1
    /\ pc = "cell" => Reached(at[1], at[2] - 1) /\ at[2] <= Len(db[at[1]].cells) + 1
                      /\ at[3] = 1
    /\ pc = "row" \/ (pc = "spill" /\ back = "row") =>
          Reached(at[1], at[2]) /\ at[2] <= Len(db[at[1]].cells) /\ Cell.kind = "row"

\* Which loop is running, and that only a full scan runs past the end of pages.
Loops ==
    /\ pc \in {"page", "cell", "row", "carved"} => back = "row"
    /\ pc \in {"merge", "write", "ok"} => back = "merge" /\ (Full => closed)
    /\ pc = "spill" => Full
    /\ pc = "write" => turn <= 3
    /\ Full /\ (pc = "carved" \/ back = "merge") => at[1] > Len(db)

\* The digests passed are in memory or in a run.
Stock(s) == sets[s] \union InRuns(s)
Conserved ==
    /\ back # "merge" \/ pc = "spill" => \A s \in Z : Stock(s) = OfSize(Passed, s)
    /\ ~Full => \A s \in Z : sets[s] = OfSize(Passed, s) /\ runs[s] = << >>
    /\ pc = "spill" \/ (Full /\ pc \in {"merge", "write"}) =>
          \A i \in 1..3 : i < turn \/ pc # "spill" => sets[Sizes[i]] = {}

\* How full the window is.
Window ==
    /\ pc \in {"page", "cell", "row"} =>
          Cardinality(Held) < (IF Full THEN MemoryItems ELSE cap)
    /\ Cardinality(Held) <= (IF Full THEN MemoryItems ELSE cap)
    /\ pc = "carved" \/ pc \in {"merge", "write", "ok"} =>
          Full \/ Cardinality(Held) = cap \/ at[1] > Len(db)

\* What packs are to hold.
Due(s) == OfSize(IF Full THEN Found ELSE Passed, s)

\* The packs written, and those still to be written.
Packed ==
    /\ pc \in {"merge", "write"} =>
          \A i \in 1..3 :
              /\ i < turn => packs[Sizes[i]].whole
              /\ Full /\ i >= turn /\ (pc = "write" => i > turn) =>
                    InRuns(Sizes[i]) = Due(Sizes[i])
    /\ pc = "write" => unique = Due(Size)
    /\ pc = "ok" => \A s \in Z : packs[s].whole
    /\ \A s \in Z : packs[s].whole =>
          /\ packs[s].n = Cardinality(packs[s].digests) /\ packs[s].digests = Due(s)
          /\ pc \in {"merge", "write", "ok", "failed"} /\ back = "merge"

UInv == Types /\ Names /\ Position /\ Loops /\ Conserved /\ Window /\ Packed
-----------------------------------------------------------------------------
(* Sizes, cells and places. *)

LEMMA SizeFacts ==
    /\ ToSet(Sizes) = Z /\ Len(Sizes) = 3
    /\ \A i \in 1..3 : Sizes[i] \in Z
    /\ \A s \in Z : \E i \in 1..3 : s = Sizes[i]
    /\ \A i, j \in 1..3 : Sizes[i] = Sizes[j] => i = j
<1>1. Sizes[1] = 16 /\ Sizes[2] = 20 /\ Sizes[3] = 32 /\ Len(Sizes) = 3
      /\ DOMAIN Sizes = 1..3
  BY DEF Sizes
<1>2. ToSet(Sizes) = {Sizes[i] : i \in 1..3} BY <1>1 DEF ToSet
<1>3. QED BY <1>1, <1>2 DEF Z

LEMMA CellFacts ==
    ASSUME Types, NEW p \in 1..Len(db)
    PROVE  /\ Len(db) \in Nat /\ db[p].leaf \in BOOLEAN /\ Len(db[p].cells) \in Nat
           /\ \A c \in 1..Len(db[p].cells) :
                 /\ db[p].cells[c].fit \in 0..3
                 /\ db[p].cells[c].kind \in {"row", "skip", "cut"}
                 /\ db[p].cells[c].kind = "row" => \A k \in 1..3 :
                       db[p].cells[c].cols[k] \in Digests \union {Bad}
<1> DEFINE PageType == [leaf : BOOLEAN, cells : Seq(CellType)]
<1>1. db \in Seq(PageType) BY SinkAssumption DEF Types
<1> HIDE DEF PageType
<1>2. db[p] \in PageType /\ Len(db) \in Nat BY <1>1
<1>3. db[p].leaf \in BOOLEAN /\ db[p].cells \in Seq(CellType) BY <1>2, Zenon DEF PageType
<1>4. ASSUME NEW c \in 1..Len(db[p].cells)
      PROVE  /\ db[p].cells[c].fit \in 0..3
             /\ db[p].cells[c].kind \in {"row", "skip", "cut"}
             /\ db[p].cells[c].kind = "row" => \A k \in 1..3 :
                   db[p].cells[c].cols[k] \in Digests \union {Bad}
  <2> DEFINE x == db[p].cells[c]
  <2>1. x \in CellType BY <1>3, <1>4
  <2> HIDE DEF x
  <2>2. x \in [kind : {"row", "skip", "cut"}, fit : 0..3, cols : Seq(Digests \union {Bad})]
        /\ (x.kind = "row" => Len(x.cols) = 3)
    BY <2>1 DEF CellType
  <2>3. x.cols \in Seq(Digests \union {Bad}) BY <2>2
  <2>4. x.kind = "row" => \A k \in 1..3 : x.cols[k] \in Digests \union {Bad}
    BY <2>2, <2>3
  <2>5. QED BY <2>2, <2>4 DEF x
<1>5. QED BY <1>2, <1>3, <1>4

LEMMA PlaceFacts ==
    ASSUME Types, NEW p, NEW c, NEW k
    PROVE  <<p, c, k>> \in Places <=>
             /\ p \in 1..Len(db) /\ c \in 1..Len(db[p].cells) /\ k \in 1..3
             /\ Reached(p, c) /\ db[p].cells[c].kind = "row"
             /\ k <= db[p].cells[c].fit /\ db[p].cells[c].cols[k] # Bad
<1> DEFINE x == <<p, c, k>>
<1>1. x[1] = p /\ x[2] = c /\ x[3] = k OBVIOUS
<1>2. x \in UNION {Columns(q) : q \in 1..Len(db)} <=>
        p \in 1..Len(db) /\ c \in 1..Len(db[p].cells) /\ k \in 1..3
  <2>1. \A q \in 1..Len(db) : x \in Columns(q) <=>
          q = p /\ c \in 1..Len(db[p].cells) /\ k \in 1..3
    BY DEF Columns
  <2> HIDE DEF x
  <2>2. QED BY <2>1
<1> HIDE DEF x
<1>3. p \in 1..Len(db) => p <= Len(db) OBVIOUS
<1>4. QED BY <1>1, <1>2, <1>3 DEF Places, Reached, x

LEMMA PlaceIsTriple ==
    ASSUME Types, NEW x \in Places
    PROVE  x = <<x[1], x[2], x[3]>> /\ x[1] \in 1..Len(db) /\ x[2] \in Nat \ {0}
           /\ x[3] \in 1..3 /\ Digest(x) \in Digests
<1>1. PICK p \in 1..Len(db) : x \in Columns(p) BY DEF Places
<1>2. PICK c \in 1..Len(db[p].cells), k \in 1..3 : x = <<p, c, k>> BY <1>1 DEF Columns
<1>3. Len(db[p].cells) \in Nat BY CellFacts
<1>4. x[1] = p /\ x[2] = c /\ x[3] = k BY <1>2
<1>5. <<p, c, k>> \in Places BY <1>2
<1>6. db[p].cells[c].kind = "row" /\ db[p].cells[c].cols[k] # Bad BY <1>5, PlaceFacts
<1>7. db[p].cells[c].cols[k] \in Digests BY <1>6, CellFacts
<1>8. QED BY <1>2, <1>3, <1>4, <1>7 DEF Digest

\* The cell being read and its columns.
LEMMA RowFacts ==
    ASSUME Types, Position, pc = "row"
    PROVE  /\ at[1] \in 1..Len(db) /\ at[2] \in 1..Len(Page.cells)
           /\ Cell.kind = "row" /\ Cell.fit \in 0..3
           /\ \A k \in 1..3 : Cell.cols[k] \in Digests \union {Bad}
<1>1. at[1] \in 1..Len(db) /\ at[2] \in Nat \ {0} /\ at[2] <= Len(Page.cells)
      /\ Cell.kind = "row"
  <2>1. at[1] \in 1..(Len(db) + 1) /\ at[2] \in Nat \ {0} BY DEF Types
  <2>2. Len(db) \in Nat BY SinkAssumption DEF Types
  <2>3. at[1] <= Len(db) BY DEF Position, Reached
  <2>4. QED BY <2>1, <2>2, <2>3 DEF Position, Page
<1>2. Len(Page.cells) \in Nat BY <1>1, CellFacts DEF Page
<1>3. at[2] \in 1..Len(Page.cells) BY <1>1, <1>2
<1>4. QED BY <1>1, <1>3, CellFacts DEF Page, Cell

LEMMA HeldFacts ==
    ASSUME Types
    PROVE  /\ \A s, v : <<s, v>> \in Held <=> s \in Z /\ v \in sets[s]
           /\ \A x \in Held : x = <<x[1], x[2]>>
           /\ IsFiniteSet(Held) /\ Cardinality(Held) \in Nat
<1>1. DOMAIN sets = Z BY DEF Types
<1>2. Held = UNION {{s} \X sets[s] : s \in Z} BY <1>1 DEF Held
<1>3. \A s, v : <<s, v>> \in Held <=> s \in Z /\ v \in sets[s] BY <1>2
<1>4. \A x \in Held : x = <<x[1], x[2]>>
  <2> SUFFICES ASSUME NEW x \in Held PROVE x = <<x[1], x[2]>>
    OBVIOUS
  <2>1. PICK s \in Z : x \in {s} \X sets[s] BY <1>2
  <2>2. QED BY <2>1
<1>5. IsFiniteSet(Held) BY SinkAssumption, FS_Subset DEF Types
<1>6. QED BY <1>3, <1>4, <1>5, FS_CardinalityType

LEMMA RaiseFacts ==
    ASSUME Raise
    PROVE  \/ /\ pc' = "spill" /\ turn' = 1 /\ back' = "failed"
              /\ Full /\ ~closed /\ ~(pc = "spill" /\ back = "failed")
           \/ /\ pc' = "failed" /\ UNCHANGED <<turn, back>>
              /\ ~Full \/ closed \/ (pc = "spill" /\ back = "failed")
  BY DEF Raise, loop

LEMMA InputFixed == ASSUME [Next]_vars PROVE db' = db /\ cap' = cap /\ (Full' <=> Full)
<1>1. db' = db /\ cap' = cap
  BY DEF Next, ReadPage, ReadCell, ColumnEnds, Offer, ReadFails, SpillSize, SpillDone,
     SpillFails, Finalize, MergeRuns, MergeFails, WritePack, WriteFails, AllWritten,
     Terminated, vars, input
<1>2. QED BY <1>1 DEF Full

\* Writing a run adds one name.
LEMMA WriteFacts ==
    ASSUME NEW digests, Write(digests), RunName \notin DOMAIN disk
    PROVE  /\ DOMAIN disk' = DOMAIN disk \union {RunName}
           /\ disk'[RunName] = digests
           /\ \A n \in DOMAIN disk : disk'[n] = disk[n]
  BY DEF Write

\* Types
LEMMA TypesFrame ==
    ASSUME Types, db' = db, cap' = cap, sets' = sets, UNCHANGED <<disk, runs, runSeq>>,
           at' \in (1..(Len(db) + 1)) \X (Nat \ {0}) \X (1..4),
           closed' \in BOOLEAN, turn' \in 1..4, back' \in {"row", "merge", "failed"},
           packs' = [s \in Z |-> packs'[s]],
           pc' \in {"page", "cell", "row", "carved", "spill", "merge", "write", "ok",
                    "failed"}
    PROVE  Types'
<1>1. Held' = Held BY DEF Held
<1>2. QED BY <1>1 DEF Types

LEMMA Triple == ASSUME Types
    PROVE /\ at = <<at[1], at[2], at[3]>> /\ at[1] \in Nat \ {0} /\ at[1] <= Len(db) + 1
          /\ at[2] \in Nat \ {0} /\ at[3] \in 1..4 /\ Len(db) \in Nat
<1>1. Len(db) \in Nat BY SinkAssumption DEF Types
<1>2. QED BY <1>1 DEF Types

LEMMA TypesStep == ASSUME Types, Names, Position, Loops, Next PROVE Types'
<1>0. /\ db' = db /\ cap' = cap
      /\ at = <<at[1], at[2], at[3]>> /\ at[1] \in Nat \ {0} /\ at[1] <= Len(db) + 1
      /\ at[2] \in Nat \ {0} /\ at[3] \in 1..4 /\ Len(db) \in Nat
  BY InputFixed, Triple
<1>00. /\ at \in (1..(Len(db) + 1)) \X (Nat \ {0}) \X (1..4)
       /\ closed \in BOOLEAN /\ turn \in 1..4 /\ back \in {"row", "merge", "failed"}
       /\ packs = [s \in Z |-> packs[s]]
       /\ pc \in {"page", "cell", "row", "carved", "spill", "merge", "write", "ok",
                  "failed"}
  BY DEF Types
<1>1. CASE ReadPage
  <2>1. UNCHANGED <<sets, disk, runs, runSeq, closed, turn, back, packs>>
    BY <1>1 DEF ReadPage, files, loop, result
  <2>2. at' \in (1..(Len(db) + 1)) \X (Nat \ {0}) \X (1..4)
        /\ pc' \in {"page", "cell", "carved"}
    BY <1>0, <1>1 DEF ReadPage, To, NextPage
  <2>3. QED BY <1>0, <1>00, <2>1, <2>2, TypesFrame
<1>2. CASE ReadCell
  <2>1. UNCHANGED <<sets, disk, runs, runSeq, closed, turn, back, packs>>
    BY <1>2 DEF ReadCell, files, loop, result
  <2>2. at[1] <= Len(db) BY <1>2 DEF ReadCell, Position, Reached
  <2>3. at' \in (1..(Len(db) + 1)) \X (Nat \ {0}) \X (1..4)
        /\ pc' \in {"page", "cell", "row"}
    BY <1>0, <1>2, <2>2 DEF ReadCell, To, NextPage, NextCell
  <2>4. QED BY <1>0, <1>00, <2>1, <2>3, TypesFrame
<1>3. CASE ColumnEnds
  <2>1. UNCHANGED <<sets, disk, runs, runSeq, closed, turn, back, packs>>
    BY <1>3 DEF ColumnEnds, files, loop, result
  <2>2. ~RowEnds => at[3] <= 3 BY <1>0, <1>3, RowFacts DEF ColumnEnds, RowEnds
  <2>3. at' \in (1..(Len(db) + 1)) \X (Nat \ {0}) \X (1..4)
        /\ pc' \in {"cell", "row"}
    BY <1>0, <1>3, <2>2 DEF ColumnEnds, To, NextCell, NextColumn
  <2>4. QED BY <1>0, <1>00, <2>1, <2>3, TypesFrame
<1>4. CASE Offer
  <2>1. UNCHANGED <<disk, runs, runSeq, closed, packs>> /\ turn' = 1 /\ back' = "row"
        /\ pc' \in {"spill", "carved", "row"} /\ pc = "row" /\ ~RowEnds
    BY <1>4 DEF Offer, files, result
  <2>2. Offered \in Digests /\ at[3] <= 3
    <3>1. Cell.fit \in 0..3 /\ \A k \in 1..3 : Cell.cols[k] \in Digests \union {Bad}
      BY <2>1, RowFacts
    <3>2. QED BY <1>0, <1>4, <2>1, <3>1 DEF Offer, Offered, RowEnds
  <2>3. at' \in (1..(Len(db) + 1)) \X (Nat \ {0}) \X (1..4)
    BY <1>0, <1>4, <2>2, RowFacts DEF Offer, NextColumn
  <2>4. Offered = <<Offered[1], Offered[2]>> /\ Offered[1] \in Z /\ Offered[2] \in Nat
    BY <2>2, SinkAssumption DEF Z
  <2>5. sets' = [sets EXCEPT ![Offered[1]] = @ \union {Offered[2]}] BY <1>4 DEF Offer
  <2>6. sets' \in [Z -> SUBSET Nat] BY <2>4, <2>5 DEF Types
  <2>7. Held' \subseteq Digests
    <3> SUFFICES ASSUME NEW x \in Held' PROVE x \in Digests
      OBVIOUS
    <3>1. PICK s \in Z : x \in {s} \X sets'[s] BY <2>6 DEF Held
    <3>2. x = <<s, x[2]>> /\ x[2] \in sets'[s] BY <3>1
    <3>3. CASE x[2] \in sets[s] BY <3>2, <3>3, HeldFacts DEF Types
    <3>4. CASE x[2] \notin sets[s]
      <4>1. s = Offered[1] /\ x[2] = Offered[2] BY <2>4, <2>5, <3>2, <3>4 DEF Types
      <4>2. QED BY <2>2, <2>4, <3>2, <4>1
    <3>5. QED BY <3>3, <3>4
  <2>8. QED BY <1>0, <1>00, <2>1, <2>3, <2>6, <2>7 DEF Types
<1>5. CASE ReadFails \/ MergeFails
  <2>1. UNCHANGED <<at, sets, runs, runSeq, closed, packs>> /\ Raise
        /\ (disk' = disk \/ disk' = WithoutRuns)
    BY <1>5 DEF ReadFails, MergeFails, files, result
  <2>2. turn' \in 1..4 /\ back' \in {"row", "merge", "failed"} /\ pc' \in {"spill", "failed"}
    BY <1>00, <2>1, RaiseFacts
  <2>3. DOMAIN disk' \subseteq Z \X Nat BY <2>1 DEF WithoutRuns, Types
  <2>4. Held' = Held BY <2>1 DEF Held
  <2>5. QED BY <1>0, <1>00, <2>1, <2>2, <2>3, <2>4 DEF Types
<1>6. CASE SpillSize \/ SpillFails
  <2>1. /\ UNCHANGED <<at, packs, closed>> /\ turn \in 1..3
        /\ turn' \in 1..4 /\ back' \in {"row", "merge", "failed"} /\ pc' \in {"spill", "failed"}
    <3>1. turn \in 1..3 BY <1>00, <1>6, SizeFacts DEF SpillSize, SpillFails
    <3>2. CASE SpillSize BY <1>00, <3>1, <3>2 DEF SpillSize, result
    <3>3. CASE SpillFails BY <1>00, <3>1, <3>3, RaiseFacts DEF SpillFails, result
    <3>4. QED BY <1>6, <3>1, <3>2, <3>3
  <2>2. Size \in Z /\ RunName = <<Size, runSeq>> /\ runSeq \in Nat
    BY <2>1, SizeFacts DEF Size, RunName, Types
  <2>3. RunName \in Z \X Nat BY <2>2
  <2>4. runs' \in [Z -> Seq(Z \X Nat)] /\ runSeq' \in Nat
        /\ (sets' = sets \/ sets' = [sets EXCEPT ![Size] = {}])
    <3> DEFINE T == Z \X Nat
    <3>1. runs \in [Z -> Seq(T)] /\ runSeq \in Nat BY DEF Types
    <3>2. /\ runs' = runs \/ runs' = [runs EXCEPT ![Size] = Append(runs[Size], RunName)]
          /\ runSeq' = runSeq \/ runSeq' = runSeq + 1
          /\ (sets' = sets \/ sets' = [sets EXCEPT ![Size] = {}])
      BY <1>6 DEF SpillSize, SpillFails, NextSeq, Cleared
    <3>3. RunName \in T BY <2>3
    <3> HIDE DEF T
    <3>4. Append(runs[Size], RunName) \in Seq(T) BY <2>2, <3>1, <3>3
    <3>5. runs' \in [Z -> Seq(T)] BY <2>2, <3>1, <3>2, <3>4
    <3>6. QED BY <3>1, <3>2, <3>5 DEF T
  <2>5. DOMAIN disk' \subseteq Z \X Nat
    <3>1. disk' = disk \/ \E d : Write(d) BY <1>6 DEF SpillSize, SpillFails
    <3>2. QED BY <2>3, <3>1 DEF Write, Types
  <2>6. sets' \in [Z -> SUBSET Nat] /\ Held' \subseteq Held
    <3>1. sets \in [Z -> SUBSET Nat] BY DEF Types
    <3>2. sets' \in [Z -> SUBSET Nat] /\ \A s \in Z : sets'[s] \subseteq sets[s]
      BY <2>2, <2>4, <3>1
    <3>3. DOMAIN sets' = Z /\ DOMAIN sets = Z BY <3>1, <3>2
    <3>4. QED BY <3>2, <3>3 DEF Held
  <2>7. QED BY <1>0, <1>00, <2>1, <2>4, <2>5, <2>6 DEF Types
<1>7. CASE SpillDone \/ Finalize \/ AllWritten
  <2>1. /\ UNCHANGED <<at, sets, disk, runs, runSeq, packs>> /\ turn' \in 1..4
        /\ closed' \in BOOLEAN /\ back' \in {"row", "merge", "failed"}
        /\ pc' \in {"row", "merge", "failed", "spill", "ok"}
    <3>1. CASE SpillDone
      <4>1. closed' \in BOOLEAN BY <3>1, Zenon DEF SpillDone
      <4>2. QED BY <1>00, <3>1, <4>1 DEF SpillDone, result
    <3>2. CASE Finalize BY <1>00, <3>2 DEF Finalize, Remainder, files, result
    <3>3. CASE AllWritten BY <1>00, <3>3 DEF AllWritten, files, loop, result
    <3>4. QED BY <1>7, <3>1, <3>2, <3>3
  <2>2. QED BY <1>0, <1>00, <2>1, TypesFrame
<1>8. CASE MergeRuns
  <2>1. /\ UNCHANGED <<at, sets, runSeq, closed, turn, back, packs>> /\ pc' = "write"
        /\ turn \in 1..3
    BY <1>00, <1>8, SizeFacts DEF MergeRuns, loop
  <2>2. Held' = Held BY <2>1 DEF Held
  <2>3. runs' \in [Z -> Seq(Z \X Nat)] /\ DOMAIN disk' \subseteq Z \X Nat
    <3> DEFINE T == Z \X Nat
    <3>1. runs \in [Z -> Seq(T)] /\ DOMAIN disk \subseteq T BY DEF Types
    <3>2. runs' = runs \/ runs' = [runs EXCEPT ![Size] = << >>] BY <1>8 DEF MergeRuns
    <3>3. disk' = disk \/ disk' = [n \in DOMAIN disk \ RunsOf(Size) |-> disk[n]]
      BY <1>8 DEF MergeRuns, WithoutRuns
    <3> HIDE DEF T
    <3>4. << >> \in Seq(T) OBVIOUS
    <3>5. runs' \in [Z -> Seq(T)] BY <3>1, <3>2, <3>4
    <3>6. DOMAIN disk' \subseteq T BY <3>1, <3>3
    <3>7. QED BY <3>5, <3>6 DEF T
  <2>4. QED BY <1>0, <1>00, <2>1, <2>2, <2>3 DEF Types
<1>9. CASE WritePack \/ WriteFails
  <2>1. turn \in 1..3
    <3>1. pc = "write" BY <1>9 DEF WritePack, WriteFails
    <3>2. QED BY <1>00, <3>1 DEF Loops
  <2>2. /\ UNCHANGED <<at, sets, disk, runs, runSeq, closed>> /\ turn' \in 1..4
        /\ back' \in {"row", "merge", "failed"} /\ pc' \in {"merge", "spill", "failed"}
    <3>1. CASE WritePack BY <1>00, <2>1, <3>1 DEF WritePack, files
    <3>2. CASE WriteFails BY <1>00, <2>1, <3>2, RaiseFacts DEF WriteFails, files
    <3>3. QED BY <1>9, <3>1, <3>2
  <2>3. packs' = [s \in Z |-> packs'[s]]
    <3>1. PICK d, b : Put(d, b) BY <1>9 DEF WritePack, WriteFails
    <3>2. QED BY <1>00, <3>1 DEF Put
  <2>4. QED BY <1>0, <1>00, <2>2, <2>3, TypesFrame
<1>10. CASE Terminated
  <2>1. UNCHANGED <<at, sets, disk, runs, runSeq, closed, turn, back, packs, pc>>
    BY <1>10 DEF Terminated, vars
  <2>2. QED BY <1>0, <1>00, <2>1, TypesFrame
<1>11. QED
  BY <1>1, <1>2, <1>3, <1>4, <1>5, <1>6, <1>7, <1>8, <1>9, <1>10 DEF Next

-----------------------------------------------------------------------------
(* Run files. *)

LEMMA ListedAfter ==
    ASSUME NEW T, NEW s \in Seq(T), NEW e \in T
    PROVE  ToSet(Append(s, e)) = ToSet(s) \union {e}
<1>1. Append(s, e) \in Seq(T) /\ Len(Append(s, e)) = Len(s) + 1 /\ Len(s) \in Nat
      /\ Append(s, e)[Len(s) + 1] = e /\ \A i \in 1..Len(s) : Append(s, e)[i] = s[i]
  OBVIOUS
<1>2. DOMAIN s = 1..Len(s) /\ DOMAIN Append(s, e) = 1..(Len(s) + 1) BY <1>1
<1> DEFINE t == Append(s, e)
<1> HIDE DEF t
<1>3. ToSet(s) = {s[i] : i \in 1..Len(s)} /\ ToSet(t) = {t[i] : i \in 1..(Len(s) + 1)}
  BY <1>2 DEF ToSet, t
<1>4. t[Len(s) + 1] = e /\ (\A i \in 1..Len(s) : t[i] = s[i]) /\ Len(s) \in Nat BY <1>1 DEF t
<1>5. ToSet(t) = ToSet(s) \union {e}
  <2>1. ASSUME NEW x \in ToSet(t) PROVE x \in ToSet(s) \union {e}
    <3>1. PICK i \in 1..(Len(s) + 1) : x = t[i] BY <1>3, <2>1
    <3>2. CASE i = Len(s) + 1 BY <1>4, <3>1, <3>2
    <3>3. CASE i # Len(s) + 1
      <4>1. i \in 1..Len(s) BY <1>4, <3>1, <3>3
      <4>2. QED BY <1>3, <1>4, <3>1, <4>1
    <3>4. QED BY <3>2, <3>3
  <2>2. ASSUME NEW x \in ToSet(s) PROVE x \in ToSet(t)
    <3>1. PICK i \in 1..Len(s) : x = s[i] BY <1>3, <2>2
    <3>2. i \in 1..(Len(s) + 1) /\ t[i] = x BY <1>4, <3>1
    <3>3. QED BY <1>3, <3>2
  <2>3. e \in ToSet(t)
    <3>1. Len(s) + 1 \in 1..(Len(s) + 1) BY <1>4
    <3>2. QED BY <1>3, <1>4, <3>1
  <2>4. QED BY <2>1, <2>2, <2>3
<1>6. QED BY <1>5 DEF t

LEMMA TurnSize ==
    ASSUME Types, turn <= Len(Sizes)
    PROVE  turn \in 1..3 /\ Size = Sizes[turn] /\ Size \in Z
BY SizeFacts DEF Types, Size

\* The name of a run that is about to be written is new.
LEMMA NewName ==
    ASSUME Types, Names, turn <= Len(Sizes)
    PROVE  /\ RunName \notin DOMAIN disk /\ RunName \in Z \X Nat
           /\ RunName[1] = Size /\ RunName[2] = runSeq
<1>1. Size \in Z /\ runSeq \in Nat BY TurnSize DEF Types
<1>2. RunName = <<Size, runSeq>> /\ RunName[2] = runSeq BY DEF RunName
<1>3. RunName \notin DOMAIN disk BY <1>1, <1>2 DEF Names
<1>4. QED BY <1>1, <1>2, <1>3

\* Until a merge fails the listed runs are on disk.
LEMMA ListedOnDisk ==
    ASSUME Names, pc # "failed"
    PROVE  \A s \in Z : \A n \in RunsOf(s) : n \in DOMAIN disk /\ n[1] = s
  BY DEF Names

\* A run that is written is listed, and the other lists stay as they are.
LEMMA SpillFacts ==
    ASSUME Types, Names, SpillSize, sets[Size] # {}
    PROVE  /\ DOMAIN disk' = DOMAIN disk \union {RunName} /\ runSeq' = runSeq + 1
           /\ \A s \in Z : /\ RunsOf(s)' = IF s = Size THEN RunsOf(s) \union {RunName}
                                           ELSE RunsOf(s)
                           /\ InRuns(s)' = IF s = Size THEN InRuns(s) \union sets[s]
                                           ELSE InRuns(s)
                           /\ sets'[s] = IF s = Size THEN {} ELSE sets[s]
<1>1. /\ pc # "failed"
      /\ turn <= Len(Sizes) /\ Write(sets[Size]) /\ runSeq' = runSeq + 1
      /\ runs' = [runs EXCEPT ![Size] = Append(runs[Size], RunName)]
      /\ sets' = [sets EXCEPT ![Size] = {}]
  BY DEF SpillSize, NextSeq, Cleared
<1>2. Size \in Z /\ RunName \notin DOMAIN disk /\ RunName \in Z \X Nat
  BY <1>1, TurnSize, NewName
<1>3. /\ DOMAIN disk' = DOMAIN disk \union {RunName} /\ disk'[RunName] = sets[Size]
      /\ \A n \in DOMAIN disk : disk'[n] = disk[n]
  BY <1>1, <1>2, WriteFacts
<1>4. ASSUME NEW s \in Z
      PROVE  RunsOf(s)' = IF s = Size THEN RunsOf(s) \union {RunName} ELSE RunsOf(s)
  <2> DEFINE T == Z \X Nat
  <2>1. runs \in [Z -> Seq(T)] /\ RunName \in T BY <1>2 DEF Types
  <2> HIDE DEF T
  <2>2. CASE s = Size
    <3>1. runs'[s] = Append(runs[s], RunName) /\ runs[s] \in Seq(T)
      BY <1>1, <2>1, <2>2
    <3>2. ToSet(Append(runs[s], RunName)) = ToSet(runs[s]) \union {RunName}
      BY <2>1, <3>1, ListedAfter
    <3>3. QED BY <2>2, <3>1, <3>2 DEF RunsOf
  <2>3. CASE s # Size
    <3>1. runs'[s] = runs[s] BY <1>1, <2>1, <2>3
    <3>2. QED BY <2>3, <3>1 DEF RunsOf
  <2>4. QED BY <2>2, <2>3
<1>5. ASSUME NEW s \in Z
      PROVE  InRuns(s)' = IF s = Size THEN InRuns(s) \union sets[s] ELSE InRuns(s)
  <2>1. \A n \in RunsOf(s) : disk'[n] = disk[n] BY <1>1, <1>3, <1>5, ListedOnDisk
  <2>2. InRuns(s)' = UNION {disk'[n] : n \in RunsOf(s)'} BY DEF InRuns
  <2>3. InRuns(s) = UNION {disk'[n] : n \in RunsOf(s)}
    <3>1. {disk[n] : n \in RunsOf(s)} = {disk'[n] : n \in RunsOf(s)} BY <2>1
    <3>2. QED BY <3>1 DEF InRuns
  <2>4. CASE s = Size
    <3>1. RunsOf(s)' = RunsOf(s) \union {RunName} BY <1>4, <2>4
    <3>2. QED BY <1>3, <2>2, <2>3, <2>4, <3>1
  <2>5. CASE s # Size
    <3>1. RunsOf(s)' = RunsOf(s) BY <1>4, <2>5
    <3>2. QED BY <2>2, <2>3, <2>5, <3>1
  <2>6. QED BY <2>4, <2>5
<1>6. \A s \in Z : sets'[s] = IF s = Size THEN {} ELSE sets[s] BY <1>1, <1>2 DEF Types
<1>7. QED BY <1>1, <1>3, <1>4, <1>5, <1>6

\* A failed write leaves a file nobody lists.
LEMMA SpillFailsFacts ==
    ASSUME Types, Names, SpillFails
    PROVE  /\ DOMAIN disk' = DOMAIN disk \union {RunName} /\ runSeq' = runSeq + 1
           /\ sets' = sets /\ runs' = runs
           /\ \A s \in Z : InRuns(s)' = InRuns(s)
<1>1. /\ pc # "failed"
      /\ turn <= Len(Sizes) /\ runSeq' = runSeq + 1 /\ sets' = sets /\ runs' = runs
      /\ \E part \in SUBSET sets[Size] : Write(part)
  BY DEF SpillFails, NextSeq
<1>2. RunName \notin DOMAIN disk BY <1>1, NewName
<1>3. /\ DOMAIN disk' = DOMAIN disk \union {RunName}
      /\ \A n \in DOMAIN disk : disk'[n] = disk[n]
  BY <1>1, <1>2, WriteFacts
<1>4. ASSUME NEW s \in Z PROVE InRuns(s)' = InRuns(s)
  <2>1. RunsOf(s)' = RunsOf(s) BY <1>1 DEF RunsOf
  <2>2. \A n \in RunsOf(s) : disk'[n] = disk[n] BY <1>1, <1>3, <1>4, ListedOnDisk
  <2>3. {disk'[n] : n \in RunsOf(s)} = {disk[n] : n \in RunsOf(s)} BY <2>2
  <2>4. QED BY <2>1, <2>3 DEF InRuns
<1>5. QED BY <1>1, <1>3, <1>4

\* The runs merged are removed, the others stay.
LEMMA MergeFacts ==
    ASSUME Types, Names, MergeRuns, Full
    PROVE  /\ DOMAIN disk' = DOMAIN disk \ RunsOf(Size) /\ runSeq' = runSeq
           /\ unique' = InRuns(Size)
           /\ \A s \in Z : /\ RunsOf(s)' = IF s = Size THEN {} ELSE RunsOf(s)
                           /\ s # Size => InRuns(s)' = InRuns(s)
<1>1. /\ pc # "failed"
      /\ turn <= Len(Sizes) /\ unique' = InRuns(Size) /\ runSeq' = runSeq
      /\ disk' = [n \in DOMAIN disk \ RunsOf(Size) |-> disk[n]]
      /\ runs' = [runs EXCEPT ![Size] = << >>]
  BY DEF MergeRuns, InRuns, AllRuns, WithoutRuns
<1>2. Size \in Z BY <1>1, TurnSize
<1>3. ASSUME NEW s \in Z PROVE RunsOf(s)' = IF s = Size THEN {} ELSE RunsOf(s)
  <2>1. runs'[s] = IF s = Size THEN << >> ELSE runs[s] BY <1>1, <1>2 DEF Types
  <2>2. ToSet(<< >>) = {} BY DEF ToSet
  <2>3. QED BY <2>1, <2>2 DEF RunsOf
<1>4. ASSUME NEW s \in Z, s # Size PROVE InRuns(s)' = InRuns(s)
  <2>1. RunsOf(s)' = RunsOf(s) BY <1>3, <1>4
  <2>2. \A n \in RunsOf(s) : n \in DOMAIN disk \ RunsOf(Size)
    BY <1>1, <1>2, <1>4, ListedOnDisk
  <2>3. \A n \in RunsOf(s) : disk'[n] = disk[n] BY <1>1, <2>2
  <2>4. {disk'[n] : n \in RunsOf(s)} = {disk[n] : n \in RunsOf(s)} BY <2>3
  <2>5. QED BY <2>1, <2>4 DEF InRuns
<1>5. QED BY <1>1, <1>3, <1>4

LEMMA NamesStep == ASSUME Types, Names, Loops, Next PROVE Names'
<1>1. CASE SpillSize /\ sets[Size] # {}
  <2>1. turn <= Len(Sizes) BY <1>1 DEF SpillSize
  <2>2. RunName[1] = Size /\ RunName[2] = runSeq /\ runSeq \in Nat
    BY <2>1, NewName DEF Types
  <2>3. \A n \in DOMAIN disk : n[2] \in Nat BY DEF Types
  <2>4. \A n \in DOMAIN disk' : n[2] < runSeq'
    BY <1>1, <2>2, <2>3, SpillFacts DEF Names
  <2>5. ASSUME NEW s \in Z, NEW n \in RunsOf(s)' PROVE n \in DOMAIN disk' /\ n[1] = s
    <3>1. pc # "failed" BY <1>1 DEF SpillSize
    <3>2. n \in RunsOf(s) \/ (s = Size /\ n = RunName) BY <1>1, <2>5, SpillFacts
    <3>3. QED BY <1>1, <2>2, <3>1, <3>2, ListedOnDisk, SpillFacts
  <2>6. QED BY <2>4, <2>5 DEF Names
<1>2. CASE SpillFails
  <2>1. turn <= Len(Sizes) BY <1>2 DEF SpillFails
  <2>2. RunName[2] = runSeq /\ runSeq \in Nat BY <2>1, NewName DEF Types
  <2>3. \A n \in DOMAIN disk : n[2] \in Nat BY DEF Types
  <2>4. \A n \in DOMAIN disk' : n[2] < runSeq'
    BY <1>2, <2>2, <2>3, SpillFailsFacts DEF Names
  <2>5. \A s \in Z : RunsOf(s)' = RunsOf(s) BY <1>2, SpillFailsFacts DEF RunsOf
  <2>6. pc # "failed" BY <1>2 DEF SpillFails
  <2>7. \A s \in Z : \A n \in RunsOf(s)' : n \in DOMAIN disk' /\ n[1] = s
    BY <1>2, <2>5, <2>6, ListedOnDisk, SpillFailsFacts
  <2>8. QED BY <2>4, <2>7 DEF Names
<1>3. CASE MergeRuns /\ Full
  <2>1. Size \in Z BY <1>3, TurnSize DEF MergeRuns
  <2>2. ASSUME NEW s \in Z, NEW n \in RunsOf(s)' PROVE n \in DOMAIN disk' /\ n[1] = s
    <3>1. s # Size /\ n \in RunsOf(s) BY <1>3, <2>2, MergeFacts
    <3>2. pc # "failed" BY <1>3 DEF MergeRuns
    <3>3. n \in DOMAIN disk /\ n[1] = s BY <3>1, <3>2, ListedOnDisk
    <3>4. n \notin RunsOf(Size) BY <2>1, <3>1, <3>2, <3>3, ListedOnDisk
    <3>5. QED BY <1>3, <3>3, <3>4, MergeFacts
  <2>3. \A n \in DOMAIN disk' : n[2] < runSeq' BY <1>3, MergeFacts DEF Names
  <2>4. QED BY <2>2, <2>3 DEF Names
<1>4. CASE MergeFails
  <2>1. /\ back = "merge" /\ Full /\ closed /\ runs' = runs /\ runSeq' = runSeq
        /\ DOMAIN disk' \subseteq DOMAIN disk
    BY <1>4 DEF MergeFails, WithoutRuns, Loops
  <2>2. pc' = "failed" /\ back' = "merge" BY <1>4, <2>1, RaiseFacts DEF MergeFails
  <2>3. \A s : RunsOf(s)' = RunsOf(s) BY <2>1 DEF RunsOf
  <2>4. QED BY <2>1, <2>2, <2>3 DEF Names
<1>5. CASE /\ ~(SpillSize /\ sets[Size] # {}) /\ ~SpillFails /\ ~(MergeRuns /\ Full)
           /\ ~MergeFails
  <2>1. UNCHANGED <<disk, runs, runSeq>>
    BY <1>5 DEF Next, ReadPage, ReadCell, ColumnEnds, Offer, ReadFails, SpillSize,
       SpillDone, Finalize, MergeRuns, WritePack, WriteFails, AllWritten,
       Terminated, vars, files
  <2>2. \A s : RunsOf(s)' = RunsOf(s) BY <2>1 DEF RunsOf
  <2>3. CASE pc = "failed"
    <3>1. pc' = pc /\ back' = back
      BY <1>5, <2>3 DEF Next, ReadPage, ReadCell, ColumnEnds, Offer, ReadFails, SpillSize,
         SpillDone, Finalize, MergeRuns, WritePack, WriteFails, AllWritten,
         Terminated, vars
    <3>2. QED BY <2>1, <2>2, <3>1 DEF Names
  <2>4. CASE pc # "failed"
    <3>1. \A s \in Z : \A n \in RunsOf(s)' : n \in DOMAIN disk' /\ n[1] = s
      BY <2>1, <2>2, <2>4, ListedOnDisk
    <3>2. QED BY <2>1, <3>1 DEF Names
  <2>5. QED BY <2>3, <2>4
<1>6. QED BY <1>1, <1>2, <1>3, <1>4, <1>5

-----------------------------------------------------------------------------
(* Where the program is. *)

LEMMA LoopsStep == ASSUME Types, Position, Loops, Next PROVE Loops'
<1>0. db' = db /\ (Full' <=> Full) BY InputFixed
<1>00. /\ at = <<at[1], at[2], at[3]>> /\ at[1] \in Nat \ {0} /\ at[1] <= Len(db) + 1
       /\ Len(db) \in Nat /\ turn \in 1..4 /\ back \in {"row", "merge", "failed"}
       /\ Len(Sizes) = 3
  BY Triple, SizeFacts DEF Types
<1> USE DEF Loops
<1>1. CASE ReadPage BY <1>0, <1>00, <1>1 DEF ReadPage, To, NextPage, files, loop
<1>2. CASE ReadCell BY <1>0, <1>00, <1>2 DEF ReadCell, To, NextPage, NextCell, files, loop
<1>3. CASE ColumnEnds
  BY <1>0, <1>00, <1>3 DEF ColumnEnds, To, NextCell, NextColumn, files, loop
<1>4. CASE Offer
  BY <1>0, <1>00, <1>4 DEF Offer, WindowFull, Stopped, files
<1>5. CASE ReadFails \/ MergeFails
  BY <1>0, <1>00, <1>5, RaiseFacts DEF ReadFails, MergeFails, files
<1>6. CASE SpillSize BY <1>0, <1>00, <1>6 DEF SpillSize
<1>7. CASE SpillDone
  <2>1. back # "row" => closed' = TRUE BY <1>7, Zenon DEF SpillDone
  <2>2. QED BY <1>0, <1>00, <1>7, <2>1 DEF SpillDone
<1>8. CASE SpillFails BY <1>0, <1>00, <1>8, RaiseFacts DEF SpillFails
<1>9. CASE Finalize BY <1>0, <1>00, <1>9 DEF Finalize, Remainder, files
<1>10. CASE MergeRuns BY <1>0, <1>00, <1>10 DEF MergeRuns, loop
<1>11. CASE WritePack BY <1>0, <1>00, <1>11 DEF WritePack, files
<1>12. CASE WriteFails BY <1>0, <1>00, <1>12, RaiseFacts DEF WriteFails, files
<1>13. CASE AllWritten BY <1>0, <1>00, <1>13 DEF AllWritten, files, loop
<1>14. CASE Terminated BY <1>0, <1>00, <1>14 DEF Terminated, vars
<1>15. QED
  BY <1>1, <1>2, <1>3, <1>4, <1>5, <1>6, <1>7, <1>8, <1>9, <1>10, <1>11, <1>12,
     <1>13, <1>14 DEF Next

LEMMA PositionStep == ASSUME Types, Position, Loops, Next PROVE Position'
<1>0. db' = db BY InputFixed
<1>00. /\ at = <<at[1], at[2], at[3]>> /\ at[1] \in Nat \ {0} /\ at[2] \in Nat \ {0}
       /\ Len(db) \in Nat
  BY Triple
<1>1. CASE ReadPage
  <2>1. CASE at[1] > Len(db)
    BY <2>1, <1>1 DEF ReadPage, To, Position
  <2>2. CASE at[1] <= Len(db) /\ Page.leaf
    <3>1. at' = <<at[1], 1, 1>> /\ pc' = "cell" BY <1>00, <1>1, <2>2 DEF ReadPage, To
    <3>2. at[1] \in 1..Len(db) BY <1>00, <2>2
    <3>3. Len(db[at[1]].cells) \in Nat BY <3>2, CellFacts
    <3>4. Reached(at[1], 0) BY <2>2 DEF Reached, Page
    <3>5. at'[1] = at[1] /\ at'[2] - 1 = 0 /\ at'[3] = 1 /\ at'[2] = 1 BY <3>1
    <3>6. Reached(at[1], at[2] - 1)' BY <1>0, <3>4, <3>5 DEF Reached
    <3>7. QED BY <1>0, <3>1, <3>3, <3>5, <3>6 DEF Position, Reached
  <2>3. CASE at[1] <= Len(db) /\ ~Page.leaf
    BY <1>00, <1>1, <2>3 DEF ReadPage, To, NextPage, Position
  <2>4. QED BY <1>00, <2>1, <2>2, <2>3
<1>2. CASE ReadCell
  <2>1. /\ pc = "cell" /\ Reached(at[1], at[2] - 1) /\ at[2] <= Len(Page.cells) + 1
    BY <1>2 DEF ReadCell, Position, Page
  <2>2. at[1] \in 1..Len(db) BY <1>00, <2>1 DEF Reached
  <2>3. Len(Page.cells) \in Nat BY <2>2, CellFacts DEF Page
  <2>4. CASE PageEnds BY <1>2, <2>4 DEF ReadCell, To, NextPage, Position
  <2>5. CASE ~PageEnds
    <3>1. at[2] <= Len(Page.cells) /\ Cell.kind # "cut"
      BY <1>00, <2>3, <2>5 DEF PageEnds
    <3>2. Cell.kind \in {"row", "skip", "cut"}
      <4>1. at[2] \in 1..Len(Page.cells) BY <1>00, <2>3, <3>1
      <4>2. QED BY <2>2, <4>1, CellFacts DEF Page, Cell
    <3>3. Reached(at[1], at[2])
      <4>1. \A e \in 1..at[2] : e \in 1..(at[2] - 1) \/ e = at[2] BY <1>00
      <4>2. QED BY <2>1, <3>1, <4>1 DEF Reached, Page, Cell
    <3>4. CASE Cell.kind = "skip"
      <4>1. at' = <<at[1], at[2] + 1, 1>> /\ pc' = "cell"
        BY <1>2, <2>5, <3>4 DEF ReadCell, To, NextCell
      <4>2. at'[1] = at[1] /\ at'[2] = at[2] + 1 /\ at'[2] - 1 = at[2] /\ at'[3] = 1 BY <1>00, <4>1
      <4>3. at'[2] <= Len(Page.cells) + 1 BY <1>00, <2>3, <3>1, <4>2
      <4>4. QED BY <1>0, <3>3, <4>1, <4>2, <4>3 DEF Position, Reached, Page
    <3>5. CASE Cell.kind # "skip"
      <4>1. at' = <<at[1], at[2], 1>> /\ pc' = "row"
        BY <1>2, <2>5, <3>5 DEF ReadCell, To
      <4>2. at'[1] = at[1] /\ at'[2] = at[2] BY <4>1
      <4>3. QED BY <1>0, <3>1, <3>2, <3>3, <3>5, <4>1, <4>2
               DEF Position, Reached, Page, Cell
    <3>6. QED BY <3>4, <3>5
  <2>6. QED BY <2>4, <2>5
<1>3. CASE ColumnEnds \/ Offer
  <2>1. pc = "row" BY <1>3 DEF ColumnEnds, Offer
  <2>2. Reached(at[1], at[2]) /\ at[2] <= Len(Page.cells) /\ Cell.kind = "row"
    BY <2>1 DEF Position, Page
  <2>3. Len(Page.cells) \in Nat
    <3>1. at[1] \in 1..Len(db) BY <1>00, <2>2 DEF Reached
    <3>2. QED BY <3>1, CellFacts DEF Page
  <2>4. CASE at' = <<at[1], at[2] + 1, 1>> /\ pc' = "cell"
    <3>1. at'[1] = at[1] /\ at'[2] = at[2] + 1 /\ at'[2] - 1 = at[2] /\ at'[3] = 1 BY <1>00, <2>4
    <3>2. at'[2] <= Len(Page.cells) + 1 BY <1>00, <2>2, <2>3, <3>1
    <3>3. QED BY <1>0, <2>2, <2>4, <3>1, <3>2 DEF Position, Reached, Page
  <2>5. CASE at' = NextColumn /\ pc' \in {"row", "spill", "carved"}
    <3>1. at'[1] = at[1] /\ at'[2] = at[2] BY <2>5 DEF NextColumn
    <3>2. QED BY <1>0, <2>2, <2>5, <3>1 DEF Position, Reached, Page, Cell
  <2>6. QED BY <1>3, <2>4, <2>5 DEF ColumnEnds, Offer, To, NextCell
<1>4. CASE ~ReadPage /\ ~ReadCell /\ ~ColumnEnds /\ ~Offer
  <2>1. at' = at
    BY <1>4 DEF Next, ReadFails, SpillSize, SpillDone, SpillFails, Finalize, MergeRuns,
       MergeFails, WritePack, WriteFails, AllWritten, Terminated, vars
  <2>2. /\ pc' \in {"page", "cell"} => pc' = pc
        /\ pc' = "row" \/ (pc' = "spill" /\ back' = "row") =>
              pc = "row" \/ (pc = "spill" /\ back = "row")
    BY <1>4, RaiseFacts DEF Next, ReadFails, SpillSize, SpillDone, SpillFails, Finalize,
       Remainder, MergeRuns, MergeFails, WritePack, WriteFails, AllWritten, Terminated,
       vars, Types, Loops
  <2>3. QED BY <1>0, <2>1, <2>2 DEF Position, Reached, Page, Cell
<1>5. QED BY <1>1, <1>2, <1>3, <1>4

-----------------------------------------------------------------------------
(* The digests passed. *)

\* A place as the prover likes it.
LEMMA PlaceParts ==
    ASSUME Types, NEW x \in Places
    PROVE  /\ x = <<x[1], x[2], x[3]>>
           /\ x[1] \in Nat \ {0} /\ x[2] \in Nat \ {0} /\ x[3] \in Nat \ {0}
           /\ x[1] <= Len(db) /\ Reached(x[1], x[2])
           /\ x[2] <= Len(db[x[1]].cells)
           /\ db[x[1]].cells[x[2]].kind = "row" /\ x[3] <= db[x[1]].cells[x[2]].fit
           /\ db[x[1]].cells[x[2]].cols[x[3]] # Bad
<1>1. x = <<x[1], x[2], x[3]>> /\ x[1] \in 1..Len(db) /\ x[2] \in Nat \ {0}
      /\ x[3] \in 1..3
  BY PlaceIsTriple
<1>2. <<x[1], x[2], x[3]>> \in Places BY <1>1
<1>3. /\ x[2] \in 1..Len(db[x[1]].cells) /\ Reached(x[1], x[2])
      /\ db[x[1]].cells[x[2]].kind = "row" /\ x[3] <= db[x[1]].cells[x[2]].fit
      /\ db[x[1]].cells[x[2]].cols[x[3]] # Bad
  BY <1>2, PlaceFacts
<1>4. Len(db) \in Nat /\ Len(db[x[1]].cells) \in Nat BY <1>1, CellFacts
<1>5. QED BY <1>1, <1>3, <1>4

LEMMA PlacesFixed == ASSUME db' = db PROVE Places' = Places /\ Found' = Found
  BY DEF Places, Columns, Found, DigestsOf, Digest

LEMMA SameBefore ==
    ASSUME db' = db, \A x \in Places : Precedes(x, at)' <=> Precedes(x, at)
    PROVE  Passed' = Passed
<1>1. {x \in Places : Precedes(x, at)}' = {x \in Places : Precedes(x, at)}
  BY PlacesFixed
<1>2. \A x : Digest(x)' = Digest(x) BY DEF Digest
<1>3. QED BY <1>1, <1>2 DEF Passed, DigestsOf

\* The reader goes past no digest without offering it.
LEMMA ReaderPassesNothing ==
    ASSUME Types, Position, ReadPage \/ ReadCell \/ ColumnEnds
    PROVE  Passed' = Passed
<1>0. /\ at = <<at[1], at[2], at[3]>> /\ at[1] \in Nat \ {0} /\ at[2] \in Nat \ {0}
      /\ at[3] \in Nat \ {0} /\ Len(db) \in Nat
  BY Triple
<1>1. db' = db BY DEF ReadPage, ReadCell, ColumnEnds, input
<1> SUFFICES ASSUME NEW x \in Places PROVE Precedes(x, at)' <=> Precedes(x, at)
  BY <1>1, SameBefore
<1>2. /\ x[1] \in Nat \ {0} /\ x[2] \in Nat \ {0} /\ x[3] \in Nat \ {0}
      /\ x[1] <= Len(db) /\ Reached(x[1], x[2])
      /\ x[2] <= Len(db[x[1]].cells)
      /\ db[x[1]].cells[x[2]].kind = "row" /\ x[3] <= db[x[1]].cells[x[2]].fit
      /\ db[x[1]].cells[x[2]].cols[x[3]] # Bad
  BY PlaceParts
<1>3. CASE ReadPage
  <2>1. at[2] = 1 /\ at[3] = 1 BY <1>3 DEF ReadPage, Position
  <2>2. CASE at[1] > Len(db) \/ Page.leaf
    <3>1. at' = <<at[1], 1, 1>> BY <1>3, <2>2 DEF ReadPage, To
    <3>2. at' = at BY <1>0, <2>1, <3>1
    <3>3. QED BY <3>2 DEF Precedes
  <2>3. CASE ~(at[1] > Len(db) \/ Page.leaf)
    <3>1. at' = <<at[1] + 1, 1, 1>> BY <1>3, <2>3 DEF ReadPage, To, NextPage
    <3>2. at'[1] = at[1] + 1 /\ at'[2] = 1 /\ at'[3] = 1 BY <3>1
    <3>3. x[1] # at[1] BY <1>2, <2>3 DEF Reached, Page
    <3>4. QED BY <1>0, <1>2, <2>1, <3>2, <3>3 DEF Precedes
  <2>4. QED BY <2>2, <2>3
<1>4. CASE ReadCell
  <2>1. pc = "cell" /\ at[3] = 1 BY <1>4 DEF ReadCell, Position
  <2>2. at[1] \in 1..Len(db) BY <1>0, <2>1 DEF Position, Reached
  <2>3. Len(Page.cells) \in Nat BY <2>2, CellFacts DEF Page
  <2>4. CASE PageEnds
    <3>1. at' = <<at[1] + 1, 1, 1>> BY <1>4, <2>4 DEF ReadCell, To, NextPage
    <3>2. at'[1] = at[1] + 1 /\ at'[2] = 1 /\ at'[3] = 1 BY <3>1
    <3>3. x[1] = at[1] => x[2] < at[2]
      <4> SUFFICES ASSUME x[1] = at[1], x[2] >= at[2] PROVE FALSE
        BY <1>0, <1>2
      <4>1. at[2] \in 1..x[2] /\ at[2] <= Len(Page.cells)
        BY <1>0, <1>2, <2>3 DEF Page
      <4>2. Cell.kind = "cut" BY <1>0, <2>3, <2>4, <4>1 DEF PageEnds
      <4>3. QED BY <1>2, <4>1, <4>2 DEF Reached, Page, Cell
    <3>4. QED BY SMTT(30), <1>0, <1>2, <2>1, <3>2, <3>3 DEF Precedes
  <2>5. CASE ~PageEnds /\ Cell.kind = "skip"
    <3>1. at' = <<at[1], at[2] + 1, 1>> BY <1>4, <2>5 DEF ReadCell, To, NextCell
    <3>2. at'[1] = at[1] /\ at'[2] = at[2] + 1 /\ at'[3] = 1 BY <3>1
    <3>3. ~(x[1] = at[1] /\ x[2] = at[2]) BY <1>2, <2>5 DEF Page, Cell
    <3>4. QED BY <1>0, <1>2, <2>1, <3>2, <3>3 DEF Precedes
  <2>6. CASE ~PageEnds /\ Cell.kind # "skip"
    <3>1. at' = <<at[1], at[2], 1>> BY <1>4, <2>6 DEF ReadCell, To
    <3>2. at' = at BY <1>0, <2>1, <3>1
    <3>3. QED BY <3>2 DEF Precedes
  <2>7. QED BY <2>4, <2>5, <2>6
<1>5. CASE ColumnEnds
  <2>1. pc = "row" BY <1>5 DEF ColumnEnds
  <2>2. Cell.fit \in 0..3 BY <2>1, RowFacts
  <2>3. CASE RowEnds /\ NextCell
    <3>1. at' = <<at[1], at[2] + 1, 1>> BY <2>3 DEF To, NextCell
    <3>2. at'[1] = at[1] /\ at'[2] = at[2] + 1 /\ at'[3] = 1 BY <3>1
    <3>3. x[1] = at[1] /\ x[2] = at[2] => x[3] < at[3]
      BY <1>0, <1>2, <2>2, <2>3 DEF RowEnds, Page, Cell
    <3>4. QED BY SMTT(30), <1>0, <1>2, <3>2, <3>3 DEF Precedes
  <2>4. CASE Cell.cols[at[3]] = Bad /\ at' = NextColumn
    <3>1. at'[1] = at[1] /\ at'[2] = at[2] /\ at'[3] = at[3] + 1
      BY <2>4 DEF NextColumn
    <3>2. ~(x[1] = at[1] /\ x[2] = at[2] /\ x[3] = at[3])
      BY <1>2, <2>4 DEF Page, Cell
    <3>3. QED BY <1>0, <1>2, <3>1, <3>2 DEF Precedes
  <2>5. QED BY <1>5, <2>3, <2>4 DEF ColumnEnds
<1>6. QED BY <1>3, <1>4, <1>5

\* A digest that is offered is the one at the reader's place.
LEMMA OfferPassesOne ==
    ASSUME Types, Position, Offer
    PROVE  Passed' = Passed \union {Offered} /\ Offered \in Digests
<1>0. /\ at = <<at[1], at[2], at[3]>> /\ at[1] \in Nat \ {0} /\ at[2] \in Nat \ {0}
      /\ at[3] \in 1..4 /\ Len(db) \in Nat
  BY Triple
<1>1. db' = db /\ pc = "row" /\ ~RowEnds /\ Offered # Bad
  BY DEF Offer, input
<1>2. /\ at[1] \in 1..Len(db) /\ at[2] \in 1..Len(Page.cells)
      /\ Cell.kind = "row" /\ Cell.fit \in 0..3
      /\ \A k \in 1..3 : Cell.cols[k] \in Digests \union {Bad}
  BY <1>1, RowFacts
<1>3. at[3] <= Cell.fit /\ at[3] \in 1..3 BY <1>0, <1>1, <1>2 DEF RowEnds
<1>4. at \in Places
  <2>1. Reached(at[1], at[2]) BY <1>1 DEF Position
  <2>2. <<at[1], at[2], at[3]>> \in Places
    BY <1>1, <1>2, <1>3, <2>1, PlaceFacts DEF Page, Cell, Offered
  <2>3. QED BY <1>0, <2>2
<1>5. Digest(at) = Offered BY DEF Digest, Offered, Cell, Page
<1>6. at' = <<at[1], at[2], at[3] + 1>> BY DEF Offer, NextColumn
<1>7. ASSUME NEW x \in Places PROVE Precedes(x, at)' <=> Precedes(x, at) \/ x = at
  <2>1. /\ x = <<x[1], x[2], x[3]>> /\ x[1] \in Nat \ {0} /\ x[2] \in Nat \ {0}
        /\ x[3] \in Nat \ {0}
    BY PlaceParts
  <2>2. at'[1] = at[1] /\ at'[2] = at[2] /\ at'[3] = at[3] + 1 BY <1>6
  <2>3. x = at <=> x[1] = at[1] /\ x[2] = at[2] /\ x[3] = at[3] BY <1>0, <2>1
  <2>4. QED BY <1>0, <2>1, <2>2, <2>3 DEF Precedes
<1>8. {x \in Places : Precedes(x, at)}' = {x \in Places : Precedes(x, at)} \union {at}
  BY <1>1, <1>4, <1>7, PlacesFixed
<1>9. \A x : Digest(x)' = Digest(x) BY <1>1 DEF Digest
<1>10. Passed' = Passed \union {Offered}
  BY <1>5, <1>8, <1>9 DEF Passed, DigestsOf
<1>11. Offered \in Digests BY <1>1, <1>2, <1>3 DEF Offered
<1>12. QED BY <1>10, <1>11

LEMMA PassedStep ==
    ASSUME Types, Position, Next, ~Offer
    PROVE  Passed' = Passed
<1>1. CASE ReadPage \/ ReadCell \/ ColumnEnds BY <1>1, ReaderPassesNothing
<1>2. CASE ~(ReadPage \/ ReadCell \/ ColumnEnds)
  <2>1. at' = at
    BY <1>2 DEF Next, ReadFails, SpillSize, SpillDone, SpillFails, Finalize, MergeRuns,
       MergeFails, WritePack, WriteFails, AllWritten, Terminated, vars
  <2>2. QED BY <2>1, InputFixed, SameBefore DEF Precedes
<1>3. QED BY <1>1, <1>2

\* Digests passed are digests; behind the last page all have been passed.
LEMMA PassedFacts ==
    ASSUME Types
    PROVE  /\ Passed \subseteq Found /\ Found \subseteq Digests
           /\ at[1] > Len(db) => Passed = Found
<1>1. Found \subseteq Digests BY PlaceIsTriple DEF Found, DigestsOf
<1>2. Passed \subseteq Found BY DEF Passed, Found, DigestsOf
<1>3. ASSUME at[1] > Len(db) PROVE Passed = Found
  <2>1. \A x \in Places : Precedes(x, at)
    <3> SUFFICES ASSUME NEW x \in Places PROVE x[1] < at[1]
      BY DEF Precedes
    <3>1. x[1] \in Nat /\ x[1] <= Len(db) BY PlaceParts
    <3>2. at[1] \in Nat /\ Len(db) \in Nat BY Triple
    <3>3. QED BY <1>3, <3>1, <3>2
  <2>2. QED BY <2>1 DEF Passed, Found, DigestsOf
<1>4. QED BY <1>1, <1>2, <1>3
LEMMA OfferFacts ==
    ASSUME Types, Position, Offer
    PROVE  /\ Offered \in Digests /\ Held' = HeldNext
           /\ \A s \in Z :
                 /\ InRuns(s)' = InRuns(s) /\ runs'[s] = runs[s]
                 /\ sets'[s] = sets[s] \union OfSize({Offered}, s)
                 /\ OfSize(Passed, s)' = OfSize(Passed, s) \union OfSize({Offered}, s)
<1>1. Passed' = Passed \union {Offered} /\ Offered \in Digests BY OfferPassesOne
<1>2. Offered = <<Offered[1], Offered[2]>> /\ Offered[1] \in Z /\ Offered[2] \in Nat
  BY <1>1, SinkAssumption DEF Z
<1>3. sets' = [sets EXCEPT ![Offered[1]] = @ \union {Offered[2]}]
      /\ UNCHANGED <<disk, runs>>
  BY DEF Offer, files
<1>4. ASSUME NEW s \in Z PROVE sets'[s] = sets[s] \union OfSize({Offered}, s)
  <2>1. sets'[s] = IF s = Offered[1] THEN sets[s] \union {Offered[2]} ELSE sets[s]
    BY <1>2, <1>3 DEF Types
  <2>2. OfSize({Offered}, s) = IF s = Offered[1] THEN {Offered[2]} ELSE {}
    BY <1>2 DEF OfSize
  <2>3. QED BY <2>1, <2>2
<1>5. ASSUME NEW s \in Z
      PROVE  OfSize(Passed, s)' = OfSize(Passed, s) \union OfSize({Offered}, s)
  <2>1. OfSize(Passed, s)' = OfSize(Passed \union {Offered}, s) BY <1>1 DEF OfSize
  <2>2. QED BY <2>1 DEF OfSize
<1>6. \A s \in Z : InRuns(s)' = InRuns(s) /\ runs'[s] = runs[s]
  BY <1>3 DEF InRuns, RunsOf
<1>7. Held' = HeldNext
  <2>1. DOMAIN sets = Z /\ DOMAIN sets' = Z BY <1>3 DEF Types
  <2>2. \A s \in Z : sets'[s] = IF s = Offered[1] THEN sets[s] \union {Offered[2]}
                                ELSE sets[s]
    BY <1>2, <1>3 DEF Types
  <2>3. ASSUME NEW x PROVE x \in Held' <=> x \in Held \/ x = Offered
    <3>1. x \in Held' <=> \E s \in Z : x \in {s} \X sets'[s] BY <2>1 DEF Held
    <3>2. x \in Held <=> \E s \in Z : x \in {s} \X sets[s] BY <2>1 DEF Held
    <3>3. ASSUME NEW s \in Z
          PROVE  x \in {s} \X sets'[s] <=>
                   x \in {s} \X sets[s] \/ (s = Offered[1] /\ x = <<s, Offered[2]>>)
      <4>1. CASE s = Offered[1]
        <5>1. sets'[s] = sets[s] \union {Offered[2]} BY <2>2, <4>1
        <5>2. x \in {s} \X sets'[s] <=> x \in {s} \X sets[s] \/ x = <<s, Offered[2]>>
          BY <5>1
        <5>3. QED BY <4>1, <5>2
      <4>2. CASE s # Offered[1]
        <5>1. sets'[s] = sets[s] BY <2>2, <4>2
        <5>2. QED BY <4>2, <5>1
      <4>3. QED BY <4>1, <4>2
    <3>4. QED BY <1>2, <3>1, <3>2, <3>3
  <2>4. QED BY <2>3 DEF HeldNext
<1>8. QED BY <1>1, <1>4, <1>5, <1>6, <1>7

\* A failure does not touch what is held.
LEMMA RaiseKeeps ==
    ASSUME Types, Loops, Conserved, Raise, UNCHANGED <<db, cap, sets, runs>>,
           pc \in {"page", "carved", "spill", "merge", "write"},
           \A s \in Z : InRuns(s)' = InRuns(s) /\ OfSize(Passed, s)' = OfSize(Passed, s)
    PROVE  Conserved'
<1>1. Full' <=> Full BY DEF Full
<1>2. CASE pc' = "spill" /\ turn' = 1 /\ back' = "failed" /\ Full /\ ~closed
  <2>1. back # "merge" \/ pc = "spill" BY <1>2 DEF Types, Loops
  <2>2. QED BY <1>1, <1>2, <2>1 DEF Conserved, Stock
<1>3. CASE pc' = "failed" /\ UNCHANGED <<turn, back>>
  BY <1>1, <1>3 DEF Conserved, Stock
<1>4. QED BY <1>2, <1>3, RaiseFacts

LEMMA ConservedStep == ASSUME Types, Names, Position, Loops, Conserved, Next PROVE Conserved'
<1>0. Full' <=> Full BY InputFixed
<1>00. turn \in 1..4 /\ Len(Sizes) = 3 BY SizeFacts DEF Types
<1>1. CASE Offer
  <2>1. pc = "row" /\ pc' \in {"spill", "carved", "row"} /\ turn' = 1 /\ back' = "row"
        /\ back = "row"
    BY <1>1 DEF Offer, Loops
  <2>2. \A s \in Z : Stock(s) = OfSize(Passed, s) BY <2>1 DEF Conserved
  <2>3. \A s \in Z : Stock(s)' = OfSize(Passed, s)'
    <3> SUFFICES ASSUME NEW s \in Z PROVE Stock(s)' = OfSize(Passed, s)'
      OBVIOUS
    <3>1. /\ InRuns(s)' = InRuns(s)
          /\ sets'[s] = sets[s] \union OfSize({Offered}, s)
          /\ OfSize(Passed, s)' = OfSize(Passed, s) \union OfSize({Offered}, s)
      BY <1>1, OfferFacts
    <3>2. Stock(s)' = sets'[s] \union InRuns(s)' BY DEF Stock
    <3>3. sets[s] \union InRuns(s) = OfSize(Passed, s) BY <2>2 DEF Stock
    <3>4. QED BY <3>1, <3>2, <3>3
  <2>4. ~Full => \A s \in Z : sets'[s] = OfSize(Passed, s)' /\ runs'[s] = << >>
    <3> SUFFICES ASSUME ~Full, NEW s \in Z
                 PROVE  sets'[s] = OfSize(Passed, s)' /\ runs'[s] = << >>
      OBVIOUS
    <3>1. /\ runs'[s] = runs[s]
          /\ sets'[s] = sets[s] \union OfSize({Offered}, s)
          /\ OfSize(Passed, s)' = OfSize(Passed, s) \union OfSize({Offered}, s)
      BY <1>1, OfferFacts
    <3>2. QED BY <3>1 DEF Conserved
  <2>5. \A i \in 1..3 : ~(i < turn') BY <2>1
  <2>6. QED BY <1>0, <2>1, <2>3, <2>4, <2>5 DEF Conserved
<1>2. CASE ~Offer /\ SpillSize
  <2>1. \A s \in Z : OfSize(Passed, s)' = OfSize(Passed, s)
    BY <1>2, PassedStep DEF OfSize
  <2>2. pc = "spill" /\ pc' = "spill" /\ Full /\ turn' = turn + 1 /\ turn \in 1..3
        /\ Size = Sizes[turn] /\ Size \in Z
    BY <1>2, TurnSize DEF SpillSize, Loops
  <2>3. \A s \in Z : sets'[s] = IF s = Size THEN {} ELSE sets[s]
    <3>1. CASE sets[Size] = {} BY <1>2, <3>1 DEF SpillSize
    <3>2. CASE sets[Size] # {} BY <1>2, <3>2, SpillFacts
    <3>3. QED BY <3>1, <3>2
  <2>4. \A s \in Z : Stock(s)' = Stock(s)
    <3>1. CASE sets[Size] = {}
      <4>1. UNCHANGED <<sets, disk, runs>> BY <1>2, <3>1 DEF SpillSize
      <4>2. QED BY <4>1 DEF Stock, InRuns, RunsOf
    <3>2. CASE sets[Size] # {} BY <1>2, <3>2, SpillFacts DEF Stock
    <3>3. QED BY <3>1, <3>2
  <2>5. \A i \in 1..3 : i < turn' => sets'[Sizes[i]] = {}
    <3> SUFFICES ASSUME NEW i \in 1..3, i < turn' PROVE sets'[Sizes[i]] = {}
      OBVIOUS
    <3>1. Sizes[i] \in Z BY SizeFacts
    <3>2. CASE i = turn BY <2>2, <2>3, <3>1, <3>2
    <3>3. CASE i # turn
      <4>1. i < turn BY <2>2, <3>3
      <4>2. sets[Sizes[i]] = {} BY <2>2, <4>1 DEF Conserved
      <4>3. QED BY <2>3, <3>1, <4>2
    <3>4. QED BY <3>2, <3>3
  <2>6. QED BY <1>0, <2>1, <2>2, <2>4, <2>5 DEF Conserved
<1>3. CASE ~Offer /\ (SpillFails \/ ReadFails \/ WriteFails)
  <2>1. /\ \A s \in Z : OfSize(Passed, s)' = OfSize(Passed, s)
        /\ db' = db /\ cap' = cap
    BY <1>3, PassedStep, InputFixed DEF OfSize
  <2>2. /\ Raise /\ UNCHANGED <<sets, runs>>
        /\ pc \in {"page", "carved", "spill", "merge", "write"}
    BY <1>3 DEF SpillFails, ReadFails, WriteFails, files
  <2>3. \A s \in Z : InRuns(s)' = InRuns(s)
    <3>1. CASE SpillFails BY <3>1, SpillFailsFacts
    <3>2. CASE ReadFails \/ WriteFails
      <4>1. UNCHANGED <<disk, runs>> BY <3>2 DEF ReadFails, WriteFails, files
      <4>2. QED BY <4>1 DEF InRuns, RunsOf
    <3>3. QED BY <1>3, <3>1, <3>2
  <2>4. QED BY <2>1, <2>2, <2>3, RaiseKeeps
<1>4. CASE ~Offer /\ MergeRuns
  <2>1. \A s \in Z : OfSize(Passed, s)' = OfSize(Passed, s)
    BY <1>4, PassedStep DEF OfSize
  <2>2. UNCHANGED <<sets, turn, back>> /\ pc = "merge" /\ pc' = "write" /\ back = "merge"
        /\ (~Full => UNCHANGED <<disk, runs>>)
    BY <1>4 DEF MergeRuns, Loops, loop
  <2>3. QED BY <1>0, <2>1, <2>2 DEF Conserved
<1>5. CASE ~Offer /\ ~SpillSize /\ ~SpillFails /\ ~ReadFails /\ ~MergeFails /\ ~WriteFails
           /\ ~MergeRuns
  <2>1. \A s \in Z : OfSize(Passed, s)' = OfSize(Passed, s)
    BY <1>5, PassedStep DEF OfSize
  <2>2. UNCHANGED <<sets, disk, runs>>
    BY <1>5 DEF Next, ReadPage, ReadCell, ColumnEnds, SpillDone, Finalize, WritePack,
       AllWritten, Terminated, vars, files
  <2>3. \A s \in Z : Stock(s)' = Stock(s) BY <2>2 DEF Stock, InRuns, RunsOf
  <2>4. CASE SpillDone
    <3>1. pc = "spill" /\ turn > 3 /\ back' = back /\ pc' = back /\ Full
      BY <1>00, <2>4 DEF SpillDone, Loops
    <3>2. \A i \in 1..3 : sets[Sizes[i]] = {}
      <4>1. \A i \in 1..3 : i < turn BY <3>1, <1>00
      <4>2. QED BY <3>1, <4>1 DEF Conserved
    <3>3. pc' # "spill" BY <3>1 DEF Types
    <3>4. QED BY <1>0, <2>1, <2>2, <2>3, <3>1, <3>2, <3>3 DEF Conserved
  <2>5. CASE Finalize
    <3>1. /\ pc = "carved" /\ back = "row" /\ back' = "merge" /\ turn' = 1
          /\ pc' = IF Full THEN "spill" ELSE "merge"
      BY <2>5 DEF Finalize, Remainder, Loops
    <3>2. QED BY <1>0, <2>1, <2>2, <2>3, <3>1 DEF Conserved
  <2>6. CASE ~SpillDone /\ ~Finalize
    <3>1. /\ back' = back /\ (pc' = "spill" <=> pc = "spill")
          /\ (pc' = "spill" => turn' = turn)
          /\ (pc' \in {"merge", "write"} => pc \in {"merge", "write"})
      BY <1>5, <2>6 DEF Next, ReadPage, ReadCell, ColumnEnds, WritePack, AllWritten,
         Terminated, To, NextPage, NextCell, loop, vars
    <3>2. QED BY <1>0, <2>1, <2>2, <2>3, <3>1 DEF Conserved
  <2>7. QED BY <2>4, <2>5, <2>6
<1>6. CASE MergeFails
  <2>1. /\ back = "merge" /\ Full /\ closed BY <1>6 DEF MergeFails, Loops
  <2>2. pc' = "failed" /\ back' = "merge" BY <1>6, <2>1, RaiseFacts DEF MergeFails
  <2>3. QED BY <1>0, <2>1, <2>2 DEF Conserved
<1>7. QED BY <1>1, <1>2, <1>3, <1>4, <1>5, <1>6
-----------------------------------------------------------------------------
(* The window. *)

Limit == IF Full THEN MemoryItems ELSE cap

LEMMA WindowStep == ASSUME Types, Position, Loops, Conserved, Window, Next PROVE Window'
<1>0. db' = db /\ cap' = cap /\ (Full' <=> Full) /\ Limit' = Limit
  BY InputFixed DEF Limit
<1>00. /\ turn \in 1..4 /\ Len(Sizes) = 3 /\ Limit \in Nat /\ (Full => Limit \in Nat \ {0})
       /\ IsFiniteSet(Held) /\ Cardinality(Held) \in Nat /\ Cardinality(Held) <= Limit
  BY SizeFacts, HeldFacts, SinkAssumption DEF Types, Limit, Window, Full
<1>1. CASE Offer
  <2>1. /\ pc = "row" /\ Held' = HeldNext
        /\ pc' = IF WindowFull THEN "spill" ELSE IF Stopped THEN "carved" ELSE "row"
    BY <1>1, OfferFacts DEF Offer
  <2>2. Cardinality(Held) < Limit BY <2>1 DEF Window, Limit
  <2>3. /\ Cardinality(HeldNext) \in Nat /\ Cardinality(HeldNext) <= Limit
        /\ (Offered \in Held => Cardinality(HeldNext) = Cardinality(Held))
    <3>1. Cardinality(HeldNext) = IF Offered \in Held THEN Cardinality(Held)
                                  ELSE Cardinality(Held) + 1
      BY <1>00, FS_AddElement DEF HeldNext
    <3>2. QED BY <1>00, <2>2, <3>1
  <2>4. pc' \in {"page", "cell", "row"} => Cardinality(HeldNext) < Limit
    BY <1>00, <2>1, <2>2, <2>3 DEF WindowFull, Stopped, Limit, Full
  <2>5. pc' \in {"carved", "merge", "write", "ok"} => ~Full /\ Cardinality(HeldNext) = cap
    BY <1>00, <2>1, <2>3 DEF Stopped, Limit
  <2>6. QED BY <1>0, <2>1, <2>3, <2>4, <2>5 DEF Window, Limit
<1>2. CASE SpillSize
  <2>1. pc' = "spill" /\ turn <= Len(Sizes) BY <1>2 DEF SpillSize
  <2>2. Held' \subseteq Held
    <3>1. sets' = sets \/ sets' = [sets EXCEPT ![Size] = {}]
      BY <1>2 DEF SpillSize, Cleared
    <3>2. DOMAIN sets' = Z /\ DOMAIN sets = Z /\ \A s \in Z : sets'[s] \subseteq sets[s]
      BY <2>1, <3>1, TurnSize DEF Types
    <3>3. QED BY <3>2 DEF Held
  <2>3. Cardinality(Held') \in Nat /\ Cardinality(Held') <= Cardinality(Held)
    BY <1>00, <2>2, FS_Subset, FS_CardinalityType
  <2>4. Cardinality(Held') <= Limit BY <1>00, <2>3
  <2>5. QED BY <1>0, <2>1, <2>4 DEF Window, Limit
<1>3. CASE SpillDone
  <2>1. pc = "spill" /\ turn > 3 /\ Full /\ sets' = sets
    BY <1>00, <1>3 DEF SpillDone, Loops
  <2>2. Held = {}
    <3>1. \A i \in 1..3 : sets[Sizes[i]] = {} BY <1>00, <2>1 DEF Conserved
    <3>2. \A s \in Z : sets[s] = {} BY <3>1, SizeFacts
    <3>3. DOMAIN sets = Z BY DEF Types
    <3>4. QED BY <3>2, <3>3 DEF Held
  <2>3. Held' = {} BY <2>1, <2>2 DEF Held
  <2>4. Cardinality(Held') = 0 BY <2>3, FS_EmptySet
  <2>5. QED BY <1>0, <1>00, <2>1, <2>4 DEF Window, Limit
<1>4. CASE ReadPage \/ ReadCell \/ ColumnEnds
  <2>1. sets' = sets /\ pc \in {"page", "cell", "row"} /\ Cardinality(Held) < Limit
    BY <1>4 DEF ReadPage, ReadCell, ColumnEnds, Window, Limit
  <2>2. Held' = Held BY <2>1 DEF Held
  <2>3. pc' \notin {"merge", "write", "ok"} /\ (pc' = "carved" => at'[1] > Len(db))
    BY <1>4 DEF ReadPage, ReadCell, ColumnEnds, To, NextPage, NextCell
  <2>4. QED BY <1>0, <1>00, <2>1, <2>2, <2>3 DEF Window, Limit
<1>5. CASE ~Offer /\ ~SpillSize /\ ~SpillDone /\ ~ReadPage /\ ~ReadCell /\ ~ColumnEnds
  <2>1. sets' = sets /\ at' = at
    BY <1>5 DEF Next, ReadFails, SpillFails, Finalize, MergeRuns, MergeFails, WritePack,
       WriteFails, AllWritten, Terminated, vars
  <2>2. Held' = Held BY <2>1 DEF Held
  <2>3. /\ pc' \in {"page", "cell", "row"} => pc \in {"page", "cell", "row"}
        /\ pc' \in {"carved", "merge", "write", "ok"} =>
              pc \in {"carved", "merge", "write", "ok"}
    BY <1>5, RaiseFacts DEF Next, ReadFails, SpillFails, Finalize, Remainder, MergeRuns,
       MergeFails, WritePack, WriteFails, AllWritten, Terminated, vars
  <2>4. QED BY <1>0, <2>1, <2>2, <2>3 DEF Window
<1>6. QED BY <1>1, <1>2, <1>3, <1>4, <1>5
-----------------------------------------------------------------------------
(* The packs. *)

Making == pc \in {"merge", "write", "ok", "failed"} /\ back = "merge"

Exact(s) == packs[s].whole =>
    packs[s].n = Cardinality(packs[s].digests) /\ packs[s].digests = Due(s) /\ Making

LEMMA DueFixed ==
    ASSUME Types, Position, Next, ~Offer
    PROVE  \A s : Due(s)' = Due(s)
  BY PassedStep, InputFixed, PlacesFixed DEF Due, OfSize

\* Before packs are made there is none, and when it begins the runs are complete.
LEMMA PacksBegin ==
    ASSUME Types, Names, Position, Loops, Conserved, Packed, Next,
           pc \notin {"merge", "write", "ok", "failed"}
    PROVE  Packed'
<1>0. turn \in 1..4 /\ Len(Sizes) = 3 /\ (Full' <=> Full)
  BY SizeFacts, InputFixed DEF Types
<1>1. packs' = packs
  BY DEF Next, ReadPage, ReadCell, ColumnEnds, Offer, ReadFails, SpillSize, SpillDone,
     SpillFails, Finalize, MergeRuns, MergeFails, WritePack, WriteFails, AllWritten,
     Terminated, result
<1>2. \A s \in Z : ~packs'[s].whole BY <1>1 DEF Packed
<1>3. CASE SpillDone
  <2>1. pc = "spill" /\ turn > 3 /\ turn' = 1 /\ pc' = back /\ Full
        /\ UNCHANGED <<disk, runs>>
    BY <1>0, <1>3 DEF SpillDone, Loops
  <2>2. pc' \in {"row", "merge", "failed"} BY <2>1 DEF Types
  <2>3. pc' = "merge" => \A s \in Z : InRuns(s)' = Due(s)'
    <3> SUFFICES ASSUME back = "merge", NEW s \in Z PROVE InRuns(s)' = Due(s)'
      BY <2>1
    <3>1. Passed = Found BY <2>1, PassedFacts DEF Loops
    <3>2. Stock(s) = OfSize(Passed, s) BY <2>1 DEF Conserved
    <3>3. PICK i \in 1..3 : s = Sizes[i] BY SizeFacts
    <3>4. i < turn BY <1>0, <2>1
    <3>5. sets[s] = {} BY <2>1, <3>3, <3>4 DEF Conserved
    <3>6. InRuns(s) = Due(s) BY <2>1, <3>1, <3>2, <3>5 DEF Stock, Due
    <3>7. Due(s)' = Due(s) BY <2>1, DueFixed DEF Offer
    <3>8. InRuns(s)' = InRuns(s) BY <2>1 DEF InRuns, RunsOf
    <3>9. QED BY <3>6, <3>7, <3>8
  <2>4. \A i \in 1..3 : Sizes[i] \in Z /\ ~(i < turn') BY <2>1, SizeFacts
  <2>5. QED BY <1>2, <2>2, <2>3, <2>4 DEF Packed
<1>4. CASE Finalize
  <2>1. pc' = "spill" \/ (pc' = "merge" /\ ~Full /\ turn' = 1)
    BY <1>4 DEF Finalize, Remainder
  <2>2. \A i \in 1..3 : turn' = 1 => ~(i < turn') OBVIOUS
  <2>3. QED BY <1>0, <1>2, <2>1, <2>2 DEF Packed
<1>5. CASE ~SpillDone /\ ~Finalize
  <2>1. pc' \notin {"merge", "write", "ok"}
    BY <1>5, RaiseFacts DEF Next, ReadPage, ReadCell, ColumnEnds, Offer, ReadFails,
       SpillSize, SpillFails, MergeRuns, MergeFails, WritePack, WriteFails, AllWritten,
       Terminated, To, NextPage, NextCell
  <2>2. QED BY <1>2, <2>1 DEF Packed
<1>6. QED BY <1>3, <1>4, <1>5

LEMMA PacksGrow ==
    ASSUME Types, Names, Position, Loops, Conserved, Packed, Next,
           pc \in {"merge", "write", "ok", "failed"}
    PROVE  Packed'
<1>0. /\ turn \in 1..4 /\ Len(Sizes) = 3 /\ (Full' <=> Full)
      /\ \A s : Due(s)' = Due(s)
  <2>1. ~Offer BY DEF Offer
  <2>2. QED BY <2>1, SizeFacts, InputFixed, DueFixed DEF Types
<1>1. \A s \in Z : Exact(s) BY DEF Packed, Exact, Making
<1>2. CASE MergeRuns
  <2>1. /\ pc = "merge" /\ pc' = "write" /\ turn \in 1..3 /\ Size = Sizes[turn]
        /\ Size \in Z /\ back = "merge" /\ UNCHANGED <<turn, back, packs>>
        /\ (~Full => unique' = sets[Size])
    BY <1>2, TurnSize DEF MergeRuns, Loops, loop
  <2>2. Size' = Size BY <2>1 DEF Size
  <2>3. unique' = Due(Size)
    <3>1. CASE Full
      <4>1. unique' = InRuns(Size) BY <1>2, <3>1, MergeFacts
      <4>2. InRuns(Sizes[turn]) = Due(Sizes[turn]) BY <2>1, <3>1 DEF Packed
      <4>3. QED BY <2>1, <4>1, <4>2
    <3>2. CASE ~Full BY <2>1, <3>2 DEF Conserved, Due
    <3>3. QED BY <3>1, <3>2
  <2>4. ASSUME Full, NEW i \in 1..3, i > turn PROVE InRuns(Sizes[i])' = Due(Sizes[i])
    <3>1. Sizes[i] \in Z /\ Sizes[i] # Size BY <2>1, <2>4, SizeFacts
    <3>2. InRuns(Sizes[i]) = Due(Sizes[i]) BY <2>1, <2>4 DEF Packed
    <3>3. QED BY <1>2, <2>4, <3>1, <3>2, MergeFacts
  <2>5. \A i \in 1..3 : i < turn => packs[Sizes[i]].whole BY <2>1 DEF Packed
  <2>6. unique' = Due(Size)' BY <1>0, <2>2, <2>3
  <2>7. QED BY <1>0, <1>1, <2>1, <2>4, <2>5, <2>6 DEF Packed, Exact, Making
<1>3. CASE WritePack \/ WriteFails
  <2>1. /\ pc = "write" /\ turn \in 1..3 /\ back = "merge" /\ (Full => closed)
        /\ UNCHANGED <<sets, disk, runs>> /\ Size = Sizes[turn] /\ Size \in Z
        /\ unique = Due(Size)
    <3>1. pc = "write" BY <1>3 DEF WritePack, WriteFails
    <3>2. turn <= 3 BY <3>1 DEF Loops
    <3>3. QED BY <1>0, <1>3, <3>1, <3>2, TurnSize DEF WritePack, WriteFails, Loops, files,
             Packed
  <2>2. packs = [s \in Z |-> packs[s]] BY DEF Types
  <2>3. \A s : InRuns(s)' = InRuns(s) BY <2>1 DEF InRuns, RunsOf
  <2>4. CASE WritePack
    <3>1. turn' = turn + 1 /\ pc' = "merge" /\ back' = "merge"
      BY <2>1, <2>4 DEF WritePack
    <3>2. packs' = [packs EXCEPT ![Size] = [whole |-> TRUE, n |-> Cardinality(unique),
                                            digests |-> unique]]
      BY <2>4 DEF WritePack, Put
    <3>3. /\ packs'[Size].whole /\ packs'[Size].n = Cardinality(unique)
          /\ packs'[Size].digests = unique
          /\ \A s \in Z : s # Size => packs'[s] = packs[s]
      BY <2>1, <2>2, <3>2
    <3>4. ASSUME NEW i \in 1..3, i < turn' PROVE packs'[Sizes[i]].whole
      <4>1. CASE i = turn BY <2>1, <3>3, <4>1
      <4>2. CASE i # turn
        <5>1. i < turn /\ Sizes[i] \in Z BY <2>1, <3>1, <3>4, <4>2, SizeFacts
        <5>2. packs[Sizes[i]].whole BY <2>1, <5>1 DEF Packed
        <5>3. CASE Sizes[i] = Size BY <3>3, <5>3
        <5>4. CASE Sizes[i] # Size BY <3>3, <5>1, <5>2, <5>4
        <5>5. QED BY <5>3, <5>4
      <4>3. QED BY <4>1, <4>2
    <3>5. ASSUME Full, NEW i \in 1..3, i >= turn' PROVE InRuns(Sizes[i])' = Due(Sizes[i])
      <4>1. i > turn BY <2>1, <3>1, <3>5
      <4>2. InRuns(Sizes[i]) = Due(Sizes[i]) BY <2>1, <3>5, <4>1 DEF Packed
      <4>3. QED BY <2>3, <4>2
    <3>6. ASSUME NEW s \in Z, packs'[s].whole
          PROVE  packs'[s].n = Cardinality(packs'[s].digests) /\ packs'[s].digests = Due(s)
      <4>1. CASE s = Size BY <2>1, <3>3, <4>1
      <4>2. CASE s # Size BY <1>1, <3>3, <3>6, <4>2 DEF Exact
      <4>3. QED BY <4>1, <4>2
    <3>7. QED BY <1>0, <3>1, <3>4, <3>5, <3>6 DEF Packed
  <2>5. CASE WriteFails
    <3>1. pc' = "failed" /\ back' = "merge"
      BY <2>1, <2>5, RaiseFacts DEF WriteFails
    <3>2. PICK part : packs' = [packs EXCEPT ![Size] =
                  [whole |-> FALSE, n |-> Cardinality(unique), digests |-> part]]
      BY <2>5 DEF WriteFails, Put
    <3>3. ~packs'[Size].whole /\ \A s \in Z : s # Size => packs'[s] = packs[s]
      BY <2>1, <2>2, <3>2
    <3>4. ASSUME NEW s \in Z, packs'[s].whole
          PROVE  packs'[s].n = Cardinality(packs'[s].digests) /\ packs'[s].digests = Due(s)
      <4>1. s # Size BY <3>3, <3>4
      <4>2. QED BY <1>1, <3>3, <3>4, <4>1 DEF Exact
    <3>5. QED BY <1>0, <3>1, <3>4 DEF Packed
  <2>6. QED BY <1>3, <2>4, <2>5
<1>4. CASE MergeFails
  <2>1. pc = "merge" /\ back = "merge" /\ Full /\ closed /\ packs' = packs
    BY <1>4 DEF MergeFails, Loops
  <2>2. pc' = "failed" /\ back' = "merge"
    BY <1>4, <2>1, RaiseFacts DEF MergeFails
  <2>3. QED BY <1>0, <1>1, <2>1, <2>2 DEF Packed, Exact
<1>5. CASE AllWritten
  <2>1. pc = "merge" /\ turn > 3 /\ pc' = "ok" /\ back = "merge" /\ back' = "merge"
        /\ packs' = packs
    BY <1>0, <1>5 DEF AllWritten, Loops, loop, result
  <2>2. \A i \in 1..3 : i < turn /\ packs[Sizes[i]].whole BY <1>0, <2>1 DEF Packed
  <2>3. \A s \in Z : packs[s].whole BY <2>2, SizeFacts
  <2>4. QED BY <1>0, <1>1, <2>1, <2>3 DEF Packed, Exact
<1>6. CASE Terminated
  <2>1. UNCHANGED <<disk, runs, turn, back, unique, packs, pc>> BY <1>6 DEF Terminated, vars
  <2>2. \A s : InRuns(s)' = InRuns(s) BY <2>1 DEF InRuns, RunsOf
  <2>3. Size' = Size BY <2>1 DEF Size
  <2>4. QED BY <1>0, <2>1, <2>2, <2>3 DEF Packed
<1>7. QED
  BY <1>2, <1>3, <1>4, <1>5, <1>6 DEF Next, ReadPage, ReadCell, ColumnEnds, Offer,
     ReadFails, SpillSize, SpillDone, SpillFails, Finalize
-----------------------------------------------------------------------------
(* Theorems. *)

LEMMA InitUInv == ASSUME Init PROVE UInv
<1>1. Types
  <2>1. sets = [s \in Z |-> {}] /\ runs = [s \in Z |-> << >>]
        /\ packs = [s \in Z |-> NoPack]
    BY SizeFacts DEF Init
  <2>2. Held = {} BY <2>1 DEF Held
  <2>3. Len(db) \in Nat BY SinkAssumption DEF Init
  <2>4. at \in (1..(Len(db) + 1)) \X (Nat \ {0}) \X (1..4) BY <2>3 DEF Init
  <2>5. DOMAIN disk = {} BY DEF Init
  <2>6. runs \in [Z -> Seq(Z \X Nat)]
    <3> DEFINE T == Z \X Nat
    <3> HIDE DEF T
    <3>1. << >> \in Seq(T) OBVIOUS
    <3>2. runs \in [Z -> Seq(T)] BY <2>1, <3>1
    <3>3. QED BY <3>2 DEF T
  <2>7. closed \in BOOLEAN BY DEF Init
  <2>8. QED BY <2>1, <2>2, <2>4, <2>5, <2>6, <2>7, SinkAssumption DEF Init, Types
<1>2. \A s \in Z : RunsOf(s) = {} /\ InRuns(s) = {} /\ sets[s] = {} /\ runs[s] = << >>
                   /\ ~packs[s].whole
  <2>1. ToSet(<< >>) = {} BY DEF ToSet
  <2>2. \A s \in Z : RunsOf(s) = {} /\ sets[s] = {} /\ runs[s] = << >>
                     /\ packs[s] = NoPack
    BY <2>1, SizeFacts DEF Init, RunsOf
  <2>3. QED BY <2>2 DEF InRuns, NoPack
<1>3. Passed = {}
  <2> SUFFICES ASSUME NEW x \in Places PROVE ~Precedes(x, at)
    BY DEF Passed, DigestsOf
  <2>1. x[1] \in Nat \ {0} /\ x[2] \in Nat \ {0} /\ x[3] \in Nat \ {0} BY <1>1, PlaceParts
  <2>2. at[1] = 1 /\ at[2] = 1 /\ at[3] = 1 BY DEF Init
  <2>3. QED BY <2>1, <2>2 DEF Precedes
<1>4. pc = "page" /\ back = "row" /\ turn = 1 /\ at = <<1, 1, 1>> /\ disk = << >>
  BY DEF Init
<1>5. Names BY <1>2, <1>4 DEF Names
<1>6. Position BY <1>4 DEF Position
<1>7. Loops BY <1>4 DEF Loops
<1>8. Conserved BY <1>2, <1>3, <1>4 DEF Conserved, Stock, OfSize
<1>9. Window
  <2>1. Held = {} /\ cap \in Nat BY <1>1, <1>2 DEF Held, Types
  <2>2. Cardinality(Held) = 0 BY <2>1, FS_EmptySet
  <2>3. QED BY <1>4, <2>1, <2>2, SinkAssumption DEF Window, Full
<1>10. Packed BY <1>2, <1>4 DEF Packed
<1>11. QED BY <1>1, <1>5, <1>6, <1>7, <1>8, <1>9, <1>10 DEF UInv

LEMMA StepUInv == ASSUME UInv, [Next]_vars PROVE UInv'
<1>1. CASE Next
  <2>1. Types' /\ Names' /\ Position' /\ Loops'
    BY <1>1, TypesStep, NamesStep, PositionStep, LoopsStep DEF UInv
  <2>2. Conserved' /\ Window' BY <1>1, ConservedStep, WindowStep DEF UInv
  <2>3. Packed' BY <1>1, PacksBegin, PacksGrow DEF UInv
  <2>4. QED BY <2>1, <2>2, <2>3 DEF UInv
<1>2. CASE UNCHANGED vars
  <2>2. /\ UNCHANGED <<db, cap, at, sets, disk, runs, runSeq, closed, turn, back, unique,
                       packs, pc>>
    BY <1>2 DEF vars
  <2>3. Types' BY <2>2, TypesFrame DEF UInv, Types
  <2>4. Names' /\ Position' /\ Loops'
    BY <2>2 DEF UInv, Names, RunsOf, Position, Reached, Cell, Page, Loops, Full
  <2>5. Held' = Held /\ Passed' = Passed /\ Found' = Found /\ Size' = Size
        /\ \A s : InRuns(s)' = InRuns(s)
    BY <2>2, PlacesFixed, SameBefore DEF Held, Precedes, Size, InRuns, RunsOf
  <2>6. Conserved' BY <2>2, <2>5 DEF UInv, Conserved, Stock, OfSize, Full
  <2>7. Window' BY <2>2, <2>5 DEF UInv, Window, Full
  <2>8. \A s : Due(s)' = Due(s) BY <2>2, <2>5 DEF Due, OfSize, Full
  <2>9. Packed' BY <2>2, <2>5, <2>8 DEF UInv, Packed, Full
  <2>10. QED BY <2>3, <2>4, <2>6, <2>7, <2>9 DEF UInv
<1>3. QED BY <1>1, <1>2

LEMMA Invariant == Spec => []UInv
<1>1. Init => UInv BY InitUInv
<1>2. UInv /\ [Next]_vars => UInv' BY StepUInv
<1>3. QED BY <1>1, <1>2, PTL DEF Spec

\* No variable leaves its type, window and capped set stay within their bounds, and
\* every listed run is on disk unless a merge has failed (offer_hex, _spill_all,
\* MemoryDigestSink.offer, merge_sorted_raw_runs).
THEOREM TypeCorrect == Spec => []TypeOK
<1>1. UInv => TypeOK
  <2> SUFFICES ASSUME UInv PROVE TypeOK
    OBVIOUS
  <2>1. DOMAIN sets = Z BY DEF UInv, Types
  <2>2. QED BY <2>1, SizeFacts DEF UInv, Types, Names, Window, TypeOK
<1>2. QED BY <1>1, Invariant, PTL

\* Until the packs are made, memory and runs hold the digests of the pages passed
\* and no other, whatever was spilled or failed to be (offer_hex, _spill_all, close).
THEOREM NothingIsDropped == Spec => []NothingDropped
<1>1. UInv => NothingDropped
  <2> SUFFICES ASSUME UInv PROVE NothingDropped
    OBVIOUS
  <2>1. DOMAIN sets = Z BY DEF UInv, Types
  <2>2. QED BY <2>1 DEF UInv, Conserved, Stock, InRuns, NothingDropped
<1>2. QED BY <1>1, Invariant, PTL

\* The capped set holds what was passed; it is full or the database is read.
LEMMA CappedIsExact ==
    ASSUME UInv, pc = "ok", ~Full
    PROVE  Cardinality(Held) = Min({cap, Cardinality(Found)})
<1>1. Types /\ (\A s \in Z : sets[s] = OfSize(Passed, s)) /\ Cardinality(Held) <= cap
      /\ (Cardinality(Held) = cap \/ at[1] > Len(db))
  BY DEF UInv, Conserved, Window
<1>2. Passed \subseteq Found /\ Found \subseteq Digests /\ IsFiniteSet(Found)
      /\ (at[1] > Len(db) => Passed = Found)
  BY <1>1, PassedFacts, FS_Subset, SinkAssumption
<1>3. Held = Passed
  <2>1. ASSUME NEW x \in Passed PROVE x \in Held
    <3>1. x \in Z \X Nat BY <1>2, SinkAssumption DEF Z
    <3>2. x = <<x[1], x[2]>> /\ x[1] \in Z BY <3>1
    <3>3. x[2] \in OfSize(Passed, x[1]) BY DEF OfSize
    <3>4. <<x[1], x[2]>> \in Held BY <1>1, <3>2, <3>3, HeldFacts
    <3>5. QED BY <3>2, <3>4
  <2>2. ASSUME NEW x \in Held PROVE x \in Passed
    <3>1. x = <<x[1], x[2]>> BY <1>1, HeldFacts
    <3>2. x[1] \in Z /\ x[2] \in sets[x[1]] BY <1>1, <3>1, HeldFacts
    <3>3. PICK d \in Passed : d[1] = x[1] /\ d[2] = x[2] BY <1>1, <3>2 DEF OfSize
    <3>4. d = <<d[1], d[2]>>
      <4>1. d \in Z \X Nat BY <1>2, SinkAssumption DEF Z
      <4>2. QED BY <4>1
    <3>5. QED BY <3>1, <3>3, <3>4
  <2>3. QED BY <2>1, <2>2
<1> DEFINE h == Cardinality(Held)
           f == Cardinality(Found)
<1>4. h \in Nat /\ f \in Nat /\ h <= f /\ cap \in Nat /\ h <= cap /\ (h = cap \/ h = f)
  BY <1>1, <1>2, <1>3, FS_Subset, FS_CardinalityType, HeldFacts DEF Types
<1> HIDE DEF h, f
<1>5. Min({cap, f}) = h BY <1>4 DEF Min
<1>6. QED BY <1>5 DEF h, f

\* A whole pack has the digests it is due, and success means three whole packs
\* (finalize_external_unique_to_packs, write_clean_packs).
THEOREM PacksAreExact == Spec => []PacksExact
<1>1. UInv => PacksExact
  <2> SUFFICES ASSUME UInv PROVE PacksExact
    OBVIOUS
  <2>1. DOMAIN packs = Z BY DEF UInv, Types
  <2>2. QED BY <2>1, CappedIsExact DEF UInv, Packed, Due, PacksExact
<1>2. QED BY <1>1, Invariant, PTL
=============================================================================
