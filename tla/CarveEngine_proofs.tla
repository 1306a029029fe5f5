-------------------------- MODULE CarveEngine_proofs --------------------------
(***************************************************************************)
(* Proofs about CarveEngine, for every stream, page size, arena size and   *)
(* every interleaving of the three threads.                                *)
(*                                                                         *)
(* The inductive invariant has five parts: the types; Control, which says  *)
(* where the threads can be relative to each other; Stream, which places   *)
(* the contents of the arenas and of the leftover prefix in the stream;    *)
(* TodoIntact, which says the same of the pages a worker may still take;   *)
(* and PagesIntact, what is to be shown of those it has taken.             *)
(***************************************************************************)
EXTENDS CarveEngine, FiniteSetTheorems, TLAPS

-----------------------------------------------------------------------------
(* Arithmetic of pages. *)

LEMMA MulMonotone ==
    ASSUME NEW a \in Nat, NEW b \in Nat, NEW p \in Nat, a <= b
    PROVE  a * p <= b * p /\ a * p \in Nat
<1>1. PICK d \in Nat : b = a + d
  <2>1. b - a \in Nat /\ b = a + (b - a) OBVIOUS
  <2>2. QED BY <2>1
<1>2. d * p \in Nat /\ a * p \in Nat OBVIOUS
<1>3. b * p = a * p + d * p BY <1>1
<1>4. QED BY <1>2, <1>3

\* The whole pages of a view end within it.
LEMMA WholePages ==
    ASSUME NEW len \in Nat, NEW p \in Nat \ {0}
    PROVE  /\ len \div p \in Nat
           /\ (len \div p) * p \in Nat
           /\ (len \div p) * p <= len
           /\ \A k \in 0..((len \div p) - 1) : k * p \in Nat /\ k * p + p <= len
<1> DEFINE n == len \div p
<1>1. n \in Nat /\ n * p <= len OBVIOUS
<1>2. n * p \in Nat BY <1>1
<1>3. ASSUME NEW k \in 0..(n - 1) PROVE k * p \in Nat /\ k * p + p <= len
  <2>1. k \in Nat /\ k + 1 \in Nat /\ k + 1 <= n BY <1>1
  <2>2. (k + 1) * p <= n * p BY <1>1, <2>1, MulMonotone
  <2>3. (k + 1) * p = k * p + p BY <2>1
  <2>4. k * p \in Nat BY <2>1
  <2>5. QED BY <1>1, <1>2, <2>2, <2>3, <2>4
<1>4. QED BY <1>1, <1>2, <1>3

\* A page whose units lie in the stream is a page of the image.
LEMMA PageOfImage ==
    ASSUME NEW q \in Nat, src.len \in Lengths, q * PageSize + PageSize <= src.len
    PROVE  q \in Image
<1>1. PageSize \in Nat \ {0} /\ LastPage \in Nat
      /\ src.len \in 0..(LastPage * PageSize + PageSize)
  BY SizesAssumption
<1>2. q * PageSize \in Nat /\ LastPage * PageSize \in Nat BY <1>1
<1>3. q * PageSize <= LastPage * PageSize BY <1>1, <1>2
<1>4. q <= LastPage
  <2> SUFFICES ASSUME q > LastPage PROVE FALSE
    BY <1>1
  <2>1. LastPage + 1 \in Nat /\ LastPage + 1 <= q BY <1>1
  <2>2. (LastPage + 1) * PageSize <= q * PageSize BY <1>1, <2>1, MulMonotone
  <2>3. (LastPage + 1) * PageSize = LastPage * PageSize + PageSize BY <1>1
  <2>4. QED BY <1>1, <1>2, <1>3, <2>2, <2>3
<1>5. QED BY <1>1, <1>4 DEF Image, Page

-----------------------------------------------------------------------------
(* The inductive invariant. *)

\* Where the threads can be relative to each other.
Control ==
    /\ tpc # "none" => job.idx = 1 - fill_idx
    /\ wpc \in {"closewait", "closed"} => tpc = "none"
    /\ wpc = "eofjoin" => tpc # "none"
    /\ mpc \in {"finalize", "unwind_ok", "destroy_ok", "exit0"} => wpc = "closed"
    /\ error => tpc \in {"clear", "done"} \/ wpc \in {"raised", "dead"}
    /\ job.eof => wpc \in {"eofjoin", "closewait", "closed", "raised", "dead"}
    /\ tpc = "ckpt" \/ mpc = "finalize" => ckpt.alg \in 1..3

\* The arena being filled holds the units that follow those submitted.
FillIntact == \A j \in 1..fill_used : arena[fill_idx][j] = wr - fill_used + j - 1

\* The leftover of earlier arenas begins where the last page ended.
PrefixIntact == \A j \in 1..Len(prefix) : prefix[j] = db_offset + j - 1

\* The arena handed to a carve follows the leftover without a gap.
JobIntact ==
    tpc = "start" =>
        /\ db_offset + Len(prefix) + job.used = wr - fill_used
        /\ \A j \in 1..job.used : arena[job.idx][j] = db_offset + Len(prefix) + j - 1

\* Between carves the leftover reaches up to the arena being filled.
Carried ==
    ~error /\ ~job.eof /\ tpc \notin {"start", "throw"} =>
        db_offset + Len(prefix) = wr - fill_used

Aligned == \E q \in Nat : db_offset = q * PageSize

Stream ==
    /\ wr + blk <= src.len /\ fill_used <= wr
    /\ FillIntact /\ PrefixIntact /\ JobIntact /\ Carried /\ Aligned

\* The page at p of the view is page q of the image.
IsPage(p, q) ==
    /\ p.off + PageSize <= Len(View)
    /\ \A j \in 1..PageSize : View[p.off + j] = q * PageSize + j - 1
    /\ p.page1 = (q = 0)

TodoIntact == tpc = "pool" => \A p \in todo : \E q \in Image : IsPage(p, q)

IInv == TypeOK /\ Control /\ Stream /\ TodoIntact /\ PagesIntact

-----------------------------------------------------------------------------
(* What the carve thread sees. *)

LEMMA StretchOf ==
    ASSUME NEW s \in Seq(Int), NEW o \in Nat, NEW n \in Nat, o + n <= Len(s)
    PROVE  /\ SubSeq(s, o + 1, o + n) \in Seq(Int)
           /\ SubSeq(s, o + 1, o + n) = [j \in 1..n |-> s[o + j]]
<1> DEFINE t == [j \in 1..n |-> s[o + j]]
<1>1. \A j \in 1..n : o + j \in 1..Len(s) OBVIOUS
<1>2. t \in Seq(Int)
  <2>1. \A j \in 1..n : s[o + j] \in Int BY <1>1
  <2>2. t \in [1..n -> Int] BY <2>1
  <2>3. QED BY <2>2
<1>3. SubSeq(s, o + 1, o + n) = t
  <2>1. SubSeq(s, o + 1, o + n) = [j \in 1..(1 + (o + n) - (o + 1)) |-> s[(o + 1) + j - 1]]
    BY <1>1
  <2>2. 1 + (o + n) - (o + 1) = n OBVIOUS
  <2>3. \A j \in 1..n : (o + 1) + j - 1 = o + j OBVIOUS
  <2>4. QED BY <2>1, <2>2, <2>3
<1>4. QED BY <1>2, <1>3

LEMMA LiveFacts ==
    ASSUME TypeOK
    PROVE  /\ Live \in Seq(Int) /\ Len(Live) = job.used /\ job.used \in Nat
           /\ \A j \in 1..job.used : Live[j] = arena[job.idx][j]
<1>1. job.idx \in {0, 1} /\ job.used \in 0..ArenaSize /\ ArenaSize \in Nat
  BY SizesAssumption DEF TypeOK
<1>2. arena[job.idx] \in [1..ArenaSize -> Int] BY <1>1 DEF TypeOK
<1>3. arena[job.idx] \in Seq(Int) /\ Len(arena[job.idx]) = ArenaSize BY <1>1, <1>2
<1>4. QED BY <1>1, <1>3 DEF Live

LEMMA FirstViewTypes ==
    ASSUME TypeOK
    PROVE  /\ FirstView \in Seq(Int)
           /\ Len(prefix) \in Nat
           /\ Len(FirstView) = Len(prefix) + job.used
           /\ prefix = <<>> => FirstView = Live
           /\ prefix # <<>> => FirstView # <<>>
<1>1. Live \in Seq(Int) /\ Len(Live) = job.used /\ job.used \in Nat BY LiveFacts
<1>2. prefix \in Seq(Int) BY DEF TypeOK
<1>3. QED BY <1>1, <1>2, SMTT(30) DEF FirstView

\* The view of a new carve is a stretch of the stream, from the last page on.
LEMMA FirstViewIntact ==
    ASSUME TypeOK, Stream, tpc = "start"
    PROVE  /\ db_offset + Len(FirstView) = wr - fill_used
           /\ \A j \in 1..Len(FirstView) : FirstView[j] = db_offset + j - 1
<1>1. /\ Live \in Seq(Int) /\ Len(Live) = job.used /\ job.used \in Nat
      /\ \A j \in 1..job.used : Live[j] = arena[job.idx][j]
  BY LiveFacts
<1>2. /\ Len(prefix) \in Nat /\ Len(FirstView) = Len(prefix) + job.used
      /\ prefix \in Seq(Int)
  BY FirstViewTypes DEF TypeOK
<1>3. db_offset \in Nat /\ wr \in Nat /\ fill_used \in Nat
  BY SizesAssumption DEF TypeOK
<1>4. db_offset + Len(FirstView) = wr - fill_used
  BY <1>1, <1>2, <1>3 DEF Stream, JobIntact
<1>5. ASSUME NEW j \in 1..Len(FirstView) PROVE FirstView[j] = db_offset + j - 1
  <2>1. CASE j <= Len(prefix)
    <3>1. j \in 1..Len(prefix) BY <1>2, <2>1
    <3>2. FirstView[j] = prefix[j] BY <1>1, <1>2, <3>1 DEF FirstView
    <3>3. QED BY <3>1, <3>2 DEF Stream, PrefixIntact
  <2>2. CASE j > Len(prefix)
    <3>1. j - Len(prefix) \in 1..job.used BY <1>1, <1>2, <2>2
    <3>2. FirstView[j] = Live[j - Len(prefix)] BY <1>1, <1>2, <2>2 DEF FirstView
    <3>3. Live[j - Len(prefix)] = db_offset + Len(prefix) + (j - Len(prefix)) - 1
      BY <1>1, <3>1 DEF Stream, JobIntact
    <3>4. QED BY <1>2, <1>3, <3>2, <3>3
  <2>3. QED BY <1>2, <2>1, <2>2
<1>6. QED BY <1>4, <1>5

-----------------------------------------------------------------------------
(* Initial states. *)

LEMMA SrcLen ==
    ASSUME src \in [len : Lengths, valid : BOOLEAN, chunked : BOOLEAN]
    PROVE  src.len \in Nat /\ src.len \in Lengths
<1>1. LastPage * PageSize + PageSize \in Nat BY SizesAssumption
<1>2. Lengths \subseteq 0..(LastPage * PageSize + PageSize) BY SizesAssumption
<1>3. src.len \in Lengths OBVIOUS
<1>4. src.len \in 0..(LastPage * PageSize + PageSize) BY <1>2, <1>3
<1>5. QED BY <1>1, <1>3, <1>4

LEMMA InitIInv == Init => IInv
<1> SUFFICES ASSUME Init PROVE IInv
  OBVIOUS
<1>1. TypeOK
  <2>1. ArenaSize \in Nat /\ MaxBlock \in Nat /\ src.len \in Nat
    BY SrcLen, SizesAssumption DEF Init
  <2>2. src \in [len : Lengths, valid : BOOLEAN, chunked : BOOLEAN]
    BY DEF Init
  <2>3. wpc \in WriterPC /\ blk \in 0..MaxBlock /\ wr \in 0..src.len
    <3>1. wpc = "next" /\ blk = 0 /\ wr = 0 BY Zenon DEF Init
    <3>2. QED BY <2>1, <3>1 DEF WriterPC
  <2>4. arena \in [{0, 1} -> [1..ArenaSize -> Int]]
    <3>1. [j \in 1..ArenaSize |-> -1] \in [1..ArenaSize -> Int] OBVIOUS
    <3>2. QED BY <3>1, Zenon DEF Init
  <2>5. fill_idx \in {0, 1} /\ fill_used \in 0..ArenaSize /\ tpc \in CarverPC
    <3>1. fill_idx = 0 /\ fill_used = 0 /\ tpc = "none" BY Zenon DEF Init
    <3>2. QED BY <2>1, <3>1 DEF CarverPC
  <2>6. job \in [idx : {0, 1}, used : 0..ArenaSize, eof : BOOLEAN]
    BY <2>1 DEF Init
  <2>7. /\ closing \in BOOLEAN /\ error \in BOOLEAN /\ header_ok \in BOOLEAN
        /\ carving \in [{0, 1} -> BOOLEAN]
    <3>1. /\ closing = FALSE /\ error = FALSE /\ header_ok = FALSE
          /\ carving = [i \in {0, 1} |-> FALSE]
      BY Zenon DEF Init
    <3>2. QED BY <3>1, Zenon
  <2>13. /\ db_offset \in Nat /\ prefix \in Seq(Int) /\ buf \in Seq(Int)
         /\ todo \subseteq [off : Nat, page1 : BOOLEAN]
         /\ pending \subseteq Row /\ offered \in Nat
         /\ scanned \subseteq [units : Seq(Int), page1 : BOOLEAN]
    <3>1. /\ db_offset = 0 /\ prefix = <<>> /\ buf = <<>> /\ todo = {}
          /\ pending = {} /\ offered = 0 /\ scanned = {}
      BY Zenon DEF Init
    <3>2. QED BY <3>1
  <2>8. shards \in [Algo -> SUBSET Record] /\ resident \in Nat /\ part_seq \in Nat
    BY DEF Init
  <2>9. parts \subseteq [group : Nat \union {CleanPack}, alg : Algo, rows : SUBSET Record]
    BY DEF Init
  <2>10. ckpt \in [alg : 0..3, step : {"drain", "publish"},
                   group : Nat \union {CleanPack}, payload : SUBSET Record]
    BY DEF Init, Idle
  <2>11. mpc \in MainPC BY DEF Init, MainPC
  <2>12. QED
    BY <2>2, <2>3, <2>4, <2>5, <2>6, <2>7, <2>8, <2>9, <2>10, <2>11,
       <2>13 DEF TypeOK
<1>2. Control BY DEF Init, Control
<1>3. Stream
  <2>1. src.len \in Nat /\ PageSize \in Nat BY SrcLen, SizesAssumption DEF Init
  <2>2. /\ wr = 0 /\ blk = 0 /\ fill_used = 0 /\ prefix = <<>> /\ db_offset = 0
        /\ tpc = "none"
    BY DEF Init
  <2>3. Aligned
    <3>1. db_offset = 0 * PageSize BY <2>1, <2>2
    <3>2. QED BY <3>1 DEF Aligned
  <2>4. FillIntact /\ PrefixIntact BY <2>2 DEF FillIntact, PrefixIntact
  <2>5. JobIntact /\ Carried BY <2>2 DEF JobIntact, Carried
  <2>6. QED BY <2>1, <2>2, <2>3, <2>4, <2>5 DEF Stream
<1>4. TodoIntact /\ PagesIntact BY DEF Init, TodoIntact, PagesIntact
<1>5. QED BY <1>1, <1>2, <1>3, <1>4 DEF IInv

-----------------------------------------------------------------------------
(* Steps that leave the stream and the pages alone. *)

\* A step that touches neither the arenas nor what the carve thread has made
\* of them, and that ends a carve only by recording its failure.
LEMMA DataUntouched ==
    ASSUME IInv,
           UNCHANGED <<src, blk, wr, arena, fill_idx, fill_used, db_offset, prefix,
                       job, scanned>>,
           error => error',
           tpc' = "start" => tpc = "start",
           tpc' = "pool" => tpc = "pool" /\ UNCHANGED <<buf, todo>>,
           tpc \in {"start", "throw"} => tpc' \in {"start", "throw"} \/ error'
    PROVE  Stream' /\ TodoIntact' /\ PagesIntact'
<1>1. FillIntact' /\ PrefixIntact' /\ Aligned'
  BY DEF IInv, Stream, FillIntact, PrefixIntact, Aligned
<1>2. JobIntact' BY DEF IInv, Stream, JobIntact
<1>3. Carried' BY DEF IInv, Stream, Carried
<1>4. Stream' BY <1>1, <1>2, <1>3 DEF IInv, Stream
<1>5. TodoIntact'
  <2>1. CASE tpc' = "pool"
    <3>1. tpc = "pool" /\ buf' = buf /\ todo' = todo BY <2>1
    <3>2. Live' = Live BY DEF Live
    <3>3. View' = View BY <3>1, <3>2 DEF View
    <3>4. Image' = Image BY DEF Image
    <3>5. QED BY <3>1, <3>3, <3>4 DEF IInv, TodoIntact, IsPage
  <2>2. CASE tpc' # "pool" BY <2>2 DEF TodoIntact
  <2>3. QED BY <2>1, <2>2
<1>6. PagesIntact' BY DEF IInv, PagesIntact, Image
<1>7. QED BY <1>4, <1>5, <1>6

-----------------------------------------------------------------------------
(* Steps of the writer. *)

LEMMA NextBlockKeepsIInv == IInv /\ NextBlock => IInv'
<1> SUFFICES ASSUME IInv, NextBlock PROVE IInv'
  OBVIOUS
<1>1. TypeOK' BY DEF IInv, TypeOK, NextBlock, WriterPC, arenaVars, carveVars, diskVars
<1>2. Control' BY DEF IInv, Control, NextBlock, arenaVars, diskVars
<1>3. src.len \in Nat /\ wr \in Nat BY SrcLen DEF IInv, TypeOK
<1>4. wr' + blk' <= src'.len BY <1>3 DEF NextBlock
<1>5. Stream'
  <2>1. FillIntact' /\ PrefixIntact' /\ Aligned' /\ JobIntact' /\ Carried'
    BY DEF IInv, Stream, FillIntact, PrefixIntact, Aligned, JobIntact, Carried,
           NextBlock, arenaVars, carveVars
  <2>2. QED BY <1>4, <2>1 DEF IInv, Stream, NextBlock, arenaVars
<1>6. TodoIntact' /\ PagesIntact'
  BY ZenonT(40) DEF IInv, TodoIntact, PagesIntact, IsPage, View, Live, Image, NextBlock,
         arenaVars, carveVars
<1>7. QED BY <1>1, <1>2, <1>5, <1>6 DEF IInv

LEMMA EndOfMemberKeepsIInv == IInv /\ EndOfMember => IInv'
<1> SUFFICES ASSUME IInv, EndOfMember PROVE IInv'
  OBVIOUS
<1>1. TypeOK' BY DEF IInv, TypeOK, EndOfMember, WriterPC, arenaVars, carveVars, diskVars
<1>2. Control' BY DEF IInv, Control, EndOfMember, arenaVars, diskVars
<1>3. Stream' /\ TodoIntact' /\ PagesIntact'
  BY DataUntouched DEF EndOfMember, arenaVars, carveVars
<1>4. QED BY <1>1, <1>2, <1>3 DEF IInv

LEMMA SourceErrorKeepsIInv == IInv /\ SourceError => IInv'
<1> SUFFICES ASSUME IInv, SourceError PROVE IInv'
  OBVIOUS
<1>1. TypeOK' BY DEF IInv, TypeOK, SourceError, WriterPC, arenaVars, carveVars, diskVars
<1>2. Control' BY DEF IInv, Control, SourceError, arenaVars, diskVars
<1>3. Stream' /\ TodoIntact' /\ PagesIntact'
  BY DataUntouched DEF SourceError, arenaVars, carveVars
<1>4. QED BY <1>1, <1>2, <1>3 DEF IInv

LEMMA WriteCheckKeepsIInv == IInv /\ WriteCheck => IInv'
<1> SUFFICES ASSUME IInv, WriteCheck PROVE IInv'
  OBVIOUS
<1>1. TypeOK' BY DEF IInv, TypeOK, WriteCheck, WriterPC, arenaVars, carveVars, diskVars
<1>2. Control' BY DEF IInv, Control, WriteCheck, arenaVars, diskVars
<1>3. Stream' /\ TodoIntact' /\ PagesIntact'
  BY DataUntouched DEF WriteCheck, arenaVars, carveVars
<1>4. QED BY <1>1, <1>2, <1>3 DEF IInv

LEMMA WriteWaitKeepsIInv == IInv /\ WriteWait => IInv'
<1> SUFFICES ASSUME IInv, WriteWait PROVE IInv'
  OBVIOUS
<1>1. TypeOK' BY DEF IInv, TypeOK, WriteWait, WriterPC, arenaVars, carveVars, diskVars
<1>2. Control' BY DEF IInv, Control, WriteWait, arenaVars, diskVars
<1>3. Stream' /\ TodoIntact' /\ PagesIntact'
  BY DataUntouched DEF WriteWait, arenaVars, carveVars
<1>4. QED BY <1>1, <1>2, <1>3 DEF IInv

LEMMA SubmitWaitKeepsIInv == IInv /\ SubmitWait => IInv'
<1> SUFFICES ASSUME IInv, SubmitWait PROVE IInv'
  OBVIOUS
<1>1. TypeOK'
  <2>1. carving' \in [{0, 1} -> BOOLEAN]
    <3>1. carving \in [{0, 1} -> BOOLEAN] BY Zenon DEF IInv, TypeOK
    <3>2. carving' = carving \/ carving' = [carving EXCEPT ![fill_idx] = TRUE]
      BY DEF SubmitWait
    <3>3. QED BY <3>1, <3>2
  <2>2. wpc' \in WriterPC BY DEF SubmitWait, WriterPC
  <2>3. QED BY <2>1, <2>2 DEF IInv, TypeOK, SubmitWait, arenaVars, carveVars, diskVars
<1>2. Control' BY DEF IInv, Control, SubmitWait, arenaVars, diskVars
<1>3. Stream' /\ TodoIntact' /\ PagesIntact'
  BY DataUntouched DEF SubmitWait, arenaVars, carveVars
<1>4. QED BY <1>1, <1>2, <1>3 DEF IInv

LEMMA EofJoinKeepsIInv == IInv /\ EofJoin => IInv'
<1> SUFFICES ASSUME IInv, EofJoin PROVE IInv'
  OBVIOUS
<1>1. TypeOK' BY DEF IInv, TypeOK, EofJoin, WriterPC, CarverPC, arenaVars, carveVars, diskVars
<1>2. Control' BY DEF IInv, Control, EofJoin, arenaVars, diskVars
<1>3. Stream' /\ TodoIntact' /\ PagesIntact'
  BY DataUntouched DEF EofJoin, arenaVars, carveVars
<1>4. QED BY <1>1, <1>2, <1>3 DEF IInv

LEMMA CloseCheckKeepsIInv == IInv /\ CloseCheck => IInv'
<1> SUFFICES ASSUME IInv, CloseCheck PROVE IInv'
  OBVIOUS
<1>1. TypeOK'
  <2>1. closing' \in BOOLEAN BY Zenon DEF IInv, TypeOK, CloseCheck
  <2>2. wpc' \in WriterPC BY DEF CloseCheck, WriterPC
  <2>3. QED BY <2>1, <2>2 DEF IInv, TypeOK, CloseCheck, arenaVars, carveVars, diskVars
<1>2. Control' BY DEF IInv, Control, CloseCheck, arenaVars, diskVars
<1>3. Stream' /\ TodoIntact' /\ PagesIntact'
  BY DataUntouched DEF CloseCheck, arenaVars, carveVars
<1>4. QED BY <1>1, <1>2, <1>3 DEF IInv

LEMMA CloseWaitKeepsIInv == IInv /\ CloseWait => IInv'
<1> SUFFICES ASSUME IInv, CloseWait PROVE IInv'
  OBVIOUS
<1>1. TypeOK' BY DEF IInv, TypeOK, CloseWait, WriterPC, CarverPC, arenaVars, carveVars, diskVars
<1>2. Control' BY DEF IInv, Control, CloseWait, arenaVars, diskVars
<1>3. Stream' /\ TodoIntact' /\ PagesIntact'
  BY DataUntouched DEF CloseWait, arenaVars, carveVars
<1>4. QED BY <1>1, <1>2, <1>3 DEF IInv

LEMMA WriterFailsKeepsIInv == IInv /\ WriterFails => IInv'
<1> SUFFICES ASSUME IInv, WriterFails PROVE IInv'
  OBVIOUS
<1>1. TypeOK' BY DEF IInv, TypeOK, WriterFails, WriterPC, CarverPC, arenaVars, carveVars, diskVars
<1>2. Control' BY DEF IInv, Control, WriterFails, arenaVars, diskVars
<1>3. Stream' /\ TodoIntact' /\ PagesIntact'
  BY DataUntouched DEF WriterFails, arenaVars, carveVars
<1>4. QED BY <1>1, <1>2, <1>3 DEF IInv

\* The block goes behind what the arena holds; the arena being carved is the
\* other one.
LEMMA CopyKeepsIInv == IInv /\ Copy => IInv'
<1> SUFFICES ASSUME IInv, Copy PROVE IInv'
  OBVIOUS
<1> DEFINE At(j) == IF j \in (fill_used + 1)..(fill_used + Take)
                    THEN wr + j - fill_used - 1
                    ELSE arena[fill_idx][j]
           filled == [j \in 1..ArenaSize |-> At(j)]
<1>1. /\ ArenaSize \in Nat /\ MaxBlock \in Nat /\ src.len \in Nat /\ wr \in Nat
      /\ fill_used \in Nat /\ fill_used <= ArenaSize /\ blk \in Nat /\ blk <= MaxBlock
      /\ fill_idx \in {0, 1} /\ wr + blk <= src.len /\ fill_used <= wr
      /\ arena[fill_idx] \in [1..ArenaSize -> Int]
      /\ arena \in [{0, 1} -> [1..ArenaSize -> Int]]
  BY SrcLen, SizesAssumption DEF IInv, TypeOK, Stream
<1>2. Take \in Nat /\ Take <= blk /\ fill_used + Take <= ArenaSize
  BY <1>1 DEF Take, Least
<1>3. /\ arena' = [arena EXCEPT ![fill_idx] = filled]
      /\ fill_used' = fill_used + Take /\ blk' = blk - Take /\ wr' = wr + Take
      /\ UNCHANGED <<src, closing, fill_idx, carving, error, tpc, job, carveVars,
                     diskVars, mpc>>
      /\ wpc = "copy" /\ wpc' \in {"submit", "check"}
  BY DEF Copy
<1>4. filled \in [1..ArenaSize -> Int]
  <2>1. \A j \in 1..ArenaSize : At(j) \in Int BY <1>1, <1>2
  <2>2. QED BY <2>1
<1>5. arena' \in [{0, 1} -> [1..ArenaSize -> Int]]
  <2> HIDE DEF filled
  <2>1. QED BY <1>1, <1>3, <1>4
<1>6. arena'[fill_idx] = filled /\ (tpc # "none" => arena'[job.idx] = arena[job.idx])
  <2> HIDE DEF filled
  <2>1. tpc # "none" => job.idx = 1 - fill_idx BY DEF IInv, Control
  <2>2. tpc # "none" => job.idx # fill_idx /\ job.idx \in {0, 1} BY <1>1, <2>1
  <2>3. QED BY <1>1, <1>3, <2>2
<1>7. TypeOK'
  <2>1. wr' \in 0..src'.len /\ blk' \in 0..MaxBlock /\ fill_used' \in 0..ArenaSize
    BY <1>1, <1>2, <1>3
  <2> HIDE DEF filled
  <2>2. QED
    BY <1>3, <1>5, <2>1 DEF IInv, TypeOK, WriterPC, carveVars, diskVars
<1>8. Control'
  <2> HIDE DEF filled
  <2>1. QED BY <1>3 DEF IInv, Control, diskVars
<1>9. Stream'
  <2>1. wr' + blk' <= src'.len /\ fill_used' <= wr' BY <1>1, <1>2, <1>3
  <2>2. wr' - fill_used' = wr - fill_used BY <1>1, <1>2, <1>3
  <2>3. FillIntact'
    <3> SUFFICES ASSUME NEW j \in 1..fill_used'
                 PROVE  arena'[fill_idx'][j] = wr' - fill_used' + j - 1
      BY DEF FillIntact
    <3>1. j \in 1..(fill_used + Take) /\ fill_idx' = fill_idx BY <1>3 DEF Copy
    <3>2. j \in 1..ArenaSize BY <1>1, <1>2, <3>1
    <3>3. arena'[fill_idx'][j] = At(j) BY <1>6, <3>1, <3>2
    <3>4. CASE j <= fill_used
      <4>1. At(j) = arena[fill_idx][j] /\ j \in 1..fill_used BY <1>1, <1>2, <3>1, <3>4
      <4>2. arena[fill_idx][j] = wr - fill_used + j - 1
        BY <4>1 DEF IInv, Stream, FillIntact
      <4>3. QED BY <2>2, <3>3, <4>1, <4>2
    <3>5. CASE j > fill_used
      <4>1. At(j) = wr + j - fill_used - 1 BY <1>1, <1>2, <3>1, <3>5
      <4>2. wr + j - fill_used - 1 = wr' - fill_used' + j - 1
        BY <1>1, <1>2, <1>3, <3>1
      <4>3. QED BY <3>3, <4>1, <4>2
    <3>6. QED BY <1>1, <3>1, <3>4, <3>5
  <2> HIDE DEF filled
  <2>4. PrefixIntact' /\ Aligned' /\ Carried'
    BY <1>3, <2>2 DEF IInv, Stream, PrefixIntact, Aligned, Carried, carveVars
  <2>5. JobIntact'
    BY <1>3, <1>6, <2>2 DEF IInv, Stream, JobIntact, carveVars
  <2>6. QED BY <2>1, <2>3, <2>4, <2>5 DEF Stream
<1>10. TodoIntact' /\ PagesIntact'
  <2> HIDE DEF filled
  <2>1. tpc # "none" => Live' = Live BY <1>3, <1>6 DEF Live
  <2>2. tpc # "none" => View' = View BY <1>3, <2>1 DEF View, carveVars
  <2>3. QED BY <1>3, <2>2 DEF IInv, TodoIntact, PagesIntact, IsPage, Image, carveVars
<1>11. QED BY <1>7, <1>8, <1>9, <1>10 DEF IInv

\* The arena that follows the leftover is handed over, unless the previous carve
\* failed.
LEMMA SubmitLaunchKeepsIInv == IInv /\ SubmitLaunch => IInv'
<1> SUFFICES ASSUME IInv, SubmitLaunch PROVE IInv'
  OBVIOUS
<1>1. CASE PreviousFailed
  <2>1. TypeOK'
    BY <1>1 DEF IInv, TypeOK, SubmitLaunch, WriterPC, CarverPC, arenaVars, carveVars,
                diskVars
  <2>2. Control' BY <1>1 DEF IInv, Control, SubmitLaunch, PreviousFailed, arenaVars, diskVars
  <2>3. Stream' /\ TodoIntact' /\ PagesIntact'
    BY <1>1, DataUntouched DEF SubmitLaunch, PreviousJoined, arenaVars, carveVars
  <2>4. QED BY <2>1, <2>2, <2>3 DEF IInv
<1>2. CASE ~PreviousFailed
  <2>1. /\ wpc = "launch" /\ tpc \in {"none", "done"} /\ tpc' = "start"
        /\ job' = [idx |-> fill_idx, used |-> fill_used, eof |-> closing]
        /\ fill_idx' = 1 - fill_idx /\ fill_used' = 0
        /\ wpc' = IF closing THEN "eofjoin" ELSE "check"
        /\ UNCHANGED <<src, blk, wr, closing, arena, carving, error, carveVars,
                       diskVars, mpc>>
    BY <1>2 DEF SubmitLaunch, PreviousJoined
  <2>2. /\ fill_idx \in {0, 1} /\ fill_used \in 0..ArenaSize /\ closing \in BOOLEAN
        /\ ArenaSize \in Nat /\ wr \in Nat /\ fill_used \in Nat
        /\ src.len \in Nat /\ blk \in Nat /\ wr + blk <= src.len
    BY SrcLen, SizesAssumption DEF IInv, TypeOK, Stream
  <2>3. job'.idx = fill_idx /\ job'.used = fill_used /\ job'.eof = closing BY <2>1
  <2>4. ~error /\ ~job.eof
    BY <1>2, <2>1 DEF IInv, Control, PreviousFailed
  <2>5. TypeOK'
    <3>1. job' \in [idx : {0, 1}, used : 0..ArenaSize, eof : BOOLEAN] BY <2>1, <2>2
    <3>2. fill_idx' \in {0, 1} /\ fill_used' \in 0..ArenaSize BY <2>1, <2>2
    <3>3. QED
      BY <2>1, <3>1, <3>2 DEF IInv, TypeOK, WriterPC, CarverPC, carveVars, diskVars
  <2>6. Control'
    <3>1. job'.idx = 1 - fill_idx' BY <2>1, <2>2, <2>3
    <3>2. QED BY <2>1, <2>3, <2>4, <3>1 DEF IInv, Control, diskVars
  <2>7. Stream'
    <3>1. FillIntact' /\ PrefixIntact' /\ Aligned' /\ Carried'
      BY <2>1 DEF IInv, Stream, FillIntact, PrefixIntact, Aligned, Carried, carveVars
    <3>2. JobIntact'
      <4>1. db_offset + Len(prefix) = wr - fill_used
        BY <2>1, <2>4 DEF IInv, Stream, Carried
      <4>2. Len(prefix) \in Nat /\ db_offset \in Nat
        BY FirstViewTypes DEF IInv, TypeOK
      <4>3. db_offset + Len(prefix) + job'.used = wr' - fill_used'
        BY <2>1, <2>2, <2>3, <4>1, <4>2
      <4>4. \A j \in 1..fill_used : arena[fill_idx][j] = wr - fill_used + j - 1
        BY DEF IInv, Stream, FillIntact
      <4>5. QED BY <2>1, <2>3, <4>1, <4>3, <4>4 DEF JobIntact, carveVars
    <3>3. wr' + blk' <= src'.len /\ fill_used' <= wr' BY <2>1, <2>2
    <3>4. QED BY <3>1, <3>2, <3>3 DEF Stream
  <2>8. TodoIntact' /\ PagesIntact'
    BY <2>1 DEF IInv, TodoIntact, PagesIntact, Image, carveVars
  <2>9. QED BY <2>5, <2>6, <2>7, <2>8 DEF IInv
<1>3. QED BY <1>1, <1>2

-----------------------------------------------------------------------------
(* Steps of the carve thread. *)

\* Nothing to scan yet: the whole view is the leftover of the next carve.
LEMMA CarveNothingKeepsIInv == IInv /\ CarveNothing => IInv'
<1> SUFFICES ASSUME IInv, CarveNothing PROVE IInv'
  OBVIOUS
<1>1. /\ tpc = "start" /\ tpc' \in {"throw", "clear"}
      /\ prefix' = IF job.eof THEN <<>> ELSE FirstView
      /\ UNCHANGED <<src, writerVars, arenaVars, carving, error, job, header_ok,
                     db_offset, buf, todo, pending, offered, scanned, diskVars, mpc>>
  BY DEF CarveNothing
<1>2. FirstView \in Seq(Int) BY FirstViewTypes DEF IInv
<1>3. /\ db_offset + Len(FirstView) = wr - fill_used
      /\ \A j \in 1..Len(FirstView) : FirstView[j] = db_offset + j - 1
  BY <1>1, FirstViewIntact DEF IInv
<1>4. TypeOK'
  <2>1. prefix' \in Seq(Int) BY <1>1, <1>2
  <2>2. QED
    BY <1>1, <2>1 DEF IInv, TypeOK, CarverPC, writerVars, arenaVars, diskVars
<1>5. Control'
  BY <1>1 DEF IInv, Control, writerVars, arenaVars, diskVars
<1>6. Stream'
  <2>1. FillIntact' /\ Aligned' /\ JobIntact'
    BY <1>1 DEF IInv, Stream, FillIntact, Aligned, JobIntact, writerVars, arenaVars
  <2>2. PrefixIntact'
    <3>1. CASE job.eof
      <4>1. prefix' = <<>> BY <1>1, <3>1
      <4>2. QED BY <4>1 DEF PrefixIntact
    <3>2. CASE ~job.eof BY <1>1, <1>3, <3>2 DEF PrefixIntact
    <3>3. QED BY <3>1, <3>2
  <2>3. Carried'
    BY <1>1, <1>3 DEF Carried, writerVars, arenaVars
  <2>4. QED BY <1>1, <2>1, <2>2, <2>3 DEF IInv, Stream, writerVars, arenaVars
<1>7. TodoIntact' /\ PagesIntact'
  BY <1>1 DEF IInv, TodoIntact, PagesIntact, Image
<1>8. QED BY <1>4, <1>5, <1>6, <1>7 DEF IInv

LEMMA BadHeaderKeepsIInv == IInv /\ BadHeader => IInv'
<1> SUFFICES ASSUME IInv, BadHeader PROVE IInv'
  OBVIOUS
<1>1. TypeOK'
  BY DEF IInv, TypeOK, BadHeader, CarverPC, writerVars, arenaVars, diskVars
<1>2. Control' BY DEF IInv, Control, BadHeader, writerVars, arenaVars, diskVars
<1>3. Stream'
  <2>1. FillIntact' /\ Aligned' /\ JobIntact' /\ Carried'
    BY DEF IInv, Stream, FillIntact, Aligned, JobIntact, Carried, BadHeader,
           writerVars, arenaVars
  <2>2. PrefixIntact' BY DEF PrefixIntact, BadHeader
  <2>3. QED BY <2>1, <2>2 DEF IInv, Stream, BadHeader, writerVars, arenaVars
<1>4. TodoIntact' /\ PagesIntact'
  BY DEF IInv, TodoIntact, PagesIntact, Image, BadHeader
<1>5. QED BY <1>1, <1>2, <1>3, <1>4 DEF IInv

\* Page k of the view is the k-th page after the last one cut, and the leftover
\* begins where the last whole page of the view ends.
LEMMA PaginateKeepsIInv == IInv /\ Paginate => IInv'
<1> SUFFICES ASSUME IInv, Paginate PROVE IInv'
  OBVIOUS
<1> DEFINE n == Len(FirstView) \div PageSize
<1>1. /\ tpc = "start" /\ tpc' = (IF n = 0 THEN "clear" ELSE "pool")
      /\ FirstView # <<>> /\ header_ok' = TRUE
      /\ buf' = (IF prefix = <<>> THEN <<>> ELSE FirstView)
      /\ todo' = {[off |-> k * PageSize, page1 |-> db_offset = 0 /\ k = 0] :
                     k \in 0..(n - 1)}
      /\ db_offset' = db_offset + n * PageSize
      /\ prefix' = (IF job.eof THEN <<>>
                    ELSE SubSeq(FirstView, n * PageSize + 1, Len(FirstView)))
      /\ pending' = {} /\ offered' = 0
      /\ UNCHANGED <<src, writerVars, arenaVars, carving, error, job, scanned,
                     diskVars, mpc>>
  BY DEF Paginate
<1>2. FirstView \in Seq(Int) /\ Len(FirstView) \in Nat BY FirstViewTypes DEF IInv
<1>3. /\ db_offset + Len(FirstView) = wr - fill_used
      /\ \A j \in 1..Len(FirstView) : FirstView[j] = db_offset + j - 1
  BY <1>1, FirstViewIntact DEF IInv
<1>4. /\ PageSize \in Nat \ {0} /\ db_offset \in Nat /\ src.len \in Nat
      /\ src.len \in Lengths /\ wr \in Nat /\ fill_used \in Nat /\ wr <= src.len
  BY SrcLen, SizesAssumption DEF IInv, TypeOK
<1>5. /\ n \in Nat /\ n * PageSize \in Nat /\ n * PageSize <= Len(FirstView)
      /\ \A k \in 0..(n - 1) : /\ k * PageSize \in Nat
                               /\ k * PageSize + PageSize <= Len(FirstView)
  BY <1>2, <1>4, WholePages
<1>6. PICK q0 \in Nat : db_offset = q0 * PageSize
  BY DEF IInv, Stream, Aligned
<1> HIDE DEF n
<1>7. prefix' \in Seq(Int) BY <1>1, <1>2, <1>5
<1>8. TypeOK'
  <2>1. db_offset' \in Nat BY <1>1, <1>4, <1>5
  <2>2. buf' \in Seq(Int) BY <1>1, <1>2
  <2>3. todo' \subseteq [off : Nat, page1 : BOOLEAN]
    <3>1. ASSUME NEW k \in 0..(n - 1)
          PROVE  [off |-> k * PageSize, page1 |-> db_offset = 0 /\ k = 0]
                   \in [off : Nat, page1 : BOOLEAN]
      <4>1. k * PageSize \in Nat BY <1>5
      <4>2. (db_offset = 0 /\ k = 0) \in BOOLEAN BY Zenon
      <4>3. QED BY <4>1, <4>2
    <3>2. QED BY <1>1, <3>1
  <2>4. header_ok' \in BOOLEAN BY <1>1, Zenon
  <2>5. tpc' \in CarverPC BY <1>1 DEF CarverPC
  <2>6. pending' \subseteq Row /\ offered' \in Nat BY <1>1
  <2>7. QED
    BY <1>1, <1>7, <2>1, <2>2, <2>3, <2>4, <2>5, <2>6
    DEF IInv, TypeOK, writerVars, arenaVars, diskVars
<1>9. Control'
  BY <1>1 DEF IInv, Control, writerVars, arenaVars, diskVars
<1>10. Stream'
  <2>1. FillIntact' /\ JobIntact'
    BY <1>1 DEF IInv, Stream, FillIntact, JobIntact, writerVars, arenaVars
  <2>2. Aligned'
    <3>1. db_offset' = (q0 + n) * PageSize BY <1>1, <1>4, <1>5, <1>6
    <3>2. q0 + n \in Nat BY <1>5
    <3>3. QED BY <3>1, <3>2 DEF Aligned
  <2>3. CASE job.eof
    <3>1. prefix' = <<>> BY <1>1, <2>3
    <3>2. PrefixIntact' /\ Carried' BY <1>1, <2>3, <3>1 DEF PrefixIntact, Carried
    <3>3. QED
      BY <1>1, <2>1, <2>2, <3>2 DEF IInv, Stream, writerVars, arenaVars
  <2>4. CASE ~job.eof
    <3>1. prefix' = SubSeq(FirstView, n * PageSize + 1, Len(FirstView))
      BY <1>1, <2>4
    <3>2. Len(prefix') = Len(FirstView) - n * PageSize BY <1>2, <1>5, <3>1
    <3>3. ASSUME NEW j \in 1..Len(prefix') PROVE prefix'[j] = db_offset' + j - 1
      <4>1. n * PageSize + j \in 1..Len(FirstView) BY <1>2, <1>5, <3>2
      <4>2. prefix'[j] = FirstView[n * PageSize + j] BY <1>2, <1>5, <3>1, <3>2, SMTT(30)
      <4>3. FirstView[n * PageSize + j] = db_offset + (n * PageSize + j) - 1
        BY <1>3, <4>1
      <4>4. j \in Nat BY <1>2, <1>5, <3>2
      <4>5. QED BY <1>1, <1>4, <1>5, <4>2, <4>3, <4>4
    <3>4. PrefixIntact' BY <3>3 DEF PrefixIntact
    <3>5. db_offset' + Len(prefix') = wr - fill_used
      <4>1. db_offset' = db_offset + n * PageSize BY <1>1
      <4>2. \A d, l, m \in Nat : (d + m) + (l - m) = d + l OBVIOUS
      <4>3. (db_offset + n * PageSize) + (Len(FirstView) - n * PageSize)
              = db_offset + Len(FirstView)
        BY <1>2, <1>4, <1>5, <4>2
      <4>4. QED BY <1>3, <3>2, <4>1, <4>3
    <3>6. Carried' BY <1>1, <3>5 DEF Carried, writerVars, arenaVars
    <3>7. QED
      BY <1>1, <2>1, <2>2, <3>4, <3>6 DEF IInv, Stream, writerVars, arenaVars
  <2>5. QED BY <2>3, <2>4
<1>11. TodoIntact'
  <2>1. View' = FirstView
    <3>1. Live' = Live BY <1>1 DEF Live, arenaVars
    <3>2. CASE prefix = <<>>
      <4>1. FirstView = Live BY <3>2, FirstViewTypes DEF IInv
      <4>2. QED BY <1>1, <3>1, <3>2, <4>1 DEF View
    <3>3. CASE prefix # <<>> BY <1>1, <3>3 DEF View
    <3>4. QED BY <3>2, <3>3
  <2> SUFFICES ASSUME NEW p \in todo' PROVE \E q \in Image' : IsPage(p, q)'
    BY DEF TodoIntact
  <2>2. PICK k \in 0..(n - 1) :
          p = [off |-> k * PageSize, page1 |-> db_offset = 0 /\ k = 0]
    BY <1>1
  <2>3. /\ k \in Nat /\ k * PageSize \in Nat
        /\ k * PageSize + PageSize <= Len(FirstView)
    BY <1>5, <2>2
  <2>4. /\ q0 + k \in Nat /\ (q0 + k) * PageSize = db_offset + k * PageSize
    BY <1>4, <1>6, <2>3
  <2>5. (q0 + k) * PageSize + PageSize <= src.len
    BY <1>2, <1>3, <1>4, <2>3, <2>4
  <2>6. q0 + k \in Image BY <1>4, <2>4, <2>5, PageOfImage
  <2>7. \A j \in 1..PageSize : FirstView[k * PageSize + j] = (q0 + k) * PageSize + j - 1
    <3> SUFFICES ASSUME NEW j \in 1..PageSize
                 PROVE  FirstView[k * PageSize + j] = (q0 + k) * PageSize + j - 1
      OBVIOUS
    <3>1. k * PageSize + j \in 1..Len(FirstView) BY <1>2, <1>4, <2>3
    <3>2. FirstView[k * PageSize + j] = db_offset + (k * PageSize + j) - 1
      BY <1>3, <3>1
    <3>3. QED BY <1>4, <2>3, <2>4, <3>2
  <2>8. (db_offset = 0 /\ k = 0) = (q0 + k = 0)
    <3>1. db_offset = 0 <=> q0 = 0 BY <1>4, <1>6
    <3>2. QED BY <2>3, <3>1
  <2>9. IsPage(p, q0 + k)' BY <2>1, <2>2, <2>3, <2>7, <2>8 DEF IsPage
  <2>10. QED BY <1>1, <2>6, <2>9 DEF Image
<1>12. PagesIntact' BY <1>1 DEF IInv, PagesIntact, Image
<1>13. QED BY <1>8, <1>9, <1>10, <1>11, <1>12 DEF IInv

LEMMA RowsReadFacts ==
    ASSUME NEW units, NEW page1
    PROVE  RowsRead(units, page1) \subseteq Row /\ Cardinality(RowsRead(units, page1)) \in Nat
<1>1. RowsRead(units, page1) \subseteq Row BY RowsAssumption DEF RowsRead
<1>2. IsFiniteSet(RowsRead(units, page1)) BY <1>1, RowsAssumption, FS_Subset
<1>3. QED BY <1>1, <1>2, FS_CardinalityType

\* What a worker reads is the page the view holds there.
LEMMA CarvePageKeepsIInv == IInv /\ CarvePage => IInv'
<1> SUFFICES ASSUME IInv, CarvePage PROVE IInv'
  OBVIOUS
<1>1. /\ tpc = "pool"
      /\ UNCHANGED <<src, writerVars, arenaVars, carving, error, tpc, job,
                     header_ok, db_offset, prefix, buf, diskVars, mpc>>
  BY DEF CarvePage
<1>2. PICK p \in todo :
        /\ todo' = todo \ {p}
        /\ scanned' = scanned \union
             {[units |-> SubSeq(View, p.off + 1, p.off + PageSize), page1 |-> p.page1]}
        /\ pending' = pending \union
             RowsRead(SubSeq(View, p.off + 1, p.off + PageSize), p.page1)
        /\ offered' = offered +
             Cardinality(RowsRead(SubSeq(View, p.off + 1, p.off + PageSize), p.page1))
  BY DEF CarvePage
<1> DEFINE units == SubSeq(View, p.off + 1, p.off + PageSize)
<1>3. PICK q \in Image : IsPage(p, q) BY <1>1 DEF IInv, TodoIntact
<1>4. p.off \in Nat /\ p.page1 \in BOOLEAN
  <2>1. p \in [off : Nat, page1 : BOOLEAN] BY DEF IInv, TypeOK
  <2>2. p.page1 \in BOOLEAN BY <2>1, Zenon
  <2>3. QED BY <2>1, <2>2
<1>5. PageSize \in Nat \ {0} /\ q \in Nat /\ q * PageSize \in Nat
  BY SizesAssumption DEF Image, Page
<1>6. View \in Seq(Int)
  BY LiveFacts DEF IInv, TypeOK, View
<1>7. units \in Seq(Int) /\ units = [j \in 1..PageSize |-> View[p.off + j]]
  <2>1. p.off + PageSize <= Len(View) BY <1>3 DEF IsPage
  <2>2. QED BY <1>4, <1>5, <1>6, <2>1, StretchOf
<1>8. units = PageUnits(q)
  BY <1>3, <1>7 DEF IsPage, PageUnits
<1> HIDE DEF units
<1>9. scanned' = scanned \union {[units |-> units, page1 |-> p.page1]}
  BY <1>2 DEF units
<1>10. TypeOK'
  <2>1. scanned' \subseteq [units : Seq(Int), page1 : BOOLEAN]
    <3>1. [units |-> units, page1 |-> p.page1] \in [units : Seq(Int), page1 : BOOLEAN]
      BY <1>4, <1>7
    <3>2. QED BY <1>9, <3>1 DEF IInv, TypeOK
  <2>2. pending' \subseteq Row /\ offered' \in Nat
    BY <1>2, RowsReadFacts DEF IInv, TypeOK
  <2>3. todo' \subseteq [off : Nat, page1 : BOOLEAN] BY <1>2 DEF IInv, TypeOK
  <2>4. QED
    BY <1>1, <2>1, <2>2, <2>3 DEF IInv, TypeOK, writerVars, arenaVars, diskVars
<1>11. Control' BY <1>1 DEF IInv, Control, writerVars, arenaVars, diskVars
<1>12. Stream'
  BY <1>1 DEF IInv, Stream, FillIntact, PrefixIntact, JobIntact, Carried, Aligned,
              writerVars, arenaVars
<1>13. TodoIntact'
  <2>1. Live' = Live BY <1>1 DEF Live, arenaVars
  <2>2. View' = View BY <1>1, <2>1 DEF View
  <2>3. Image' = Image BY <1>1 DEF Image
  <2>4. QED BY <1>1, <1>2, <2>2, <2>3 DEF IInv, TodoIntact, IsPage
<1>14. PagesIntact'
  <2>1. Image' = Image BY <1>1 DEF Image
  <2>2. p.page1 = (q = 0) BY <1>3 DEF IsPage
  <2>3. QED BY <1>8, <1>9, <2>1, <2>2 DEF IInv, PagesIntact
<1>15. QED BY <1>10, <1>11, <1>12, <1>13, <1>14 DEF IInv

LEMMA PoolAbortsKeepsIInv == IInv /\ PoolAborts => IInv'
<1> SUFFICES ASSUME IInv, PoolAborts PROVE IInv'
  OBVIOUS
<1>1. TypeOK'
  BY DEF IInv, TypeOK, PoolAborts, MainPC, writerVars, arenaVars, carveVars, diskVars
<1>2. Control'
  BY DEF IInv, Control, PoolAborts, writerVars, arenaVars, diskVars
<1>3. Stream' /\ TodoIntact' /\ PagesIntact'
  BY DataUntouched DEF PoolAborts, writerVars, arenaVars, carveVars
<1>4. QED BY <1>1, <1>2, <1>3 DEF IInv

\* What writing rows leaves: some of them, torn records, and on a disk that takes
\* every write exactly them.
LEMMA WrittenFacts ==
    ASSUME NEW rows
    PROVE  /\ \A w \in Written(rows) : w \subseteq rows \union {Torn}
           /\ ~DiskMayFill => \A w \in Written(rows) : w = rows
  BY DEF Written

LEMMA PoolJoinKeepsIInv == IInv /\ PoolJoin => IInv'
<1> SUFFICES ASSUME IInv, PoolJoin PROVE IInv'
  OBVIOUS
<1>1. /\ tpc = "pool" /\ tpc' \in {"ckpt", "clear"}
      /\ tpc' = "ckpt" => ckpt' = [alg |-> 1, step |-> "drain", group |-> part_seq,
                                   payload |-> {}]
                          /\ part_seq' = part_seq + 1
      /\ tpc' # "ckpt" => UNCHANGED <<ckpt, part_seq>>
      /\ pending' = {} /\ offered' = 0
      /\ UNCHANGED <<src, writerVars, arenaVars, carving, error, job, header_ok,
                     db_offset, prefix, buf, todo, scanned, parts, mpc>>
  BY DEF PoolJoin, StartFinalize, NextSeq
<1>2. PICK flushed \in Cardinality(pending)..offered,
           kept \in [Algo -> Written(pending)] :
        /\ shards' = [a \in Algo |-> shards[a] \union kept[a]]
        /\ resident' = resident + flushed
  BY DEF PoolJoin, Appended
<1>3. pending \subseteq Row BY DEF IInv, TypeOK
<1>4. \A a \in Algo : kept[a] \subseteq Record
  <2>1. \A a \in Algo : kept[a] \in Written(pending) BY <1>2
  <2>2. QED BY <1>3, <2>1, WrittenFacts DEF Record
<1>5. shards' \in [Algo -> SUBSET Record]
  <2>1. shards \in [Algo -> SUBSET Record] BY DEF IInv, TypeOK
  <2>2. \A a \in Algo : shards[a] \union kept[a] \in SUBSET Record
    BY <1>4, <2>1
  <2>3. QED BY <1>2, <2>2
<1>6. resident' \in Nat
  <2>1. IsFiniteSet(pending) BY <1>3, RowsAssumption, FS_Subset
  <2>2. Cardinality(pending) \in Nat BY <2>1, FS_CardinalityType
  <2>3. offered \in Nat /\ resident \in Nat BY DEF IInv, TypeOK
  <2>4. QED BY <1>2, <2>2, <2>3
<1>7. ckpt' \in [alg : 0..3, step : {"drain", "publish"},
                 group : Nat \union {CleanPack}, payload : SUBSET Record]
      /\ part_seq' \in Nat
  BY <1>1 DEF IInv, TypeOK
<1>8. TypeOK'
  <2>1. pending' \subseteq Row /\ offered' \in Nat /\ tpc' \in CarverPC
    BY <1>1 DEF CarverPC
  <2>2. QED
    BY <1>1, <1>5, <1>6, <1>7, <2>1 DEF IInv, TypeOK, writerVars, arenaVars
<1>9. Control' BY <1>1 DEF IInv, Control, writerVars, arenaVars
<1>10. Stream' /\ TodoIntact' /\ PagesIntact'
  BY <1>1, DataUntouched DEF writerVars, arenaVars
<1>11. QED BY <1>8, <1>9, <1>10 DEF IInv

\* The algorithm whose turn it is in finalize_algo.
LEMMA TurnFacts ==
    ASSUME TypeOK, ckpt.alg \in 1..3
    PROVE  /\ CurrentAlgo \in Algo
           /\ ~LastAlgo => ckpt.alg + 1 \in 1..3
<1>1. ckpt.alg = 1 \/ ckpt.alg = 2 \/ ckpt.alg = 3 OBVIOUS
<1>2. CurrentAlgo \in Algo BY <1>1 DEF CurrentAlgo, AlgoOrder, Algo
<1>3. Len(AlgoOrder) = 3 BY DEF AlgoOrder
<1>4. QED BY <1>1, <1>2, <1>3 DEF LastAlgo

LEMMA DrainTypes ==
    ASSUME TypeOK, ckpt.alg \in 1..3, NEW at \in BOOLEAN, DrainShards(at)
    PROVE  /\ ckpt' \in [alg : 0..3, step : {"drain", "publish"},
                         group : Nat \union {CleanPack}, payload : SUBSET Record]
           /\ shards' \in [Algo -> SUBSET Record]
           /\ ckpt'.alg = ckpt.alg
<1>1. CurrentAlgo \in Algo BY TurnFacts
<1>2. shards \in [Algo -> SUBSET Record] BY DEF TypeOK
<1>3. ckpt \in [alg : 0..3, step : {"drain", "publish"},
                group : Nat \union {CleanPack}, payload : SUBSET Record]
  BY DEF TypeOK
<1>4. PICK payload \in Written(shards[CurrentAlgo]) :
        ckpt' = [ckpt EXCEPT !.step = "publish", !.payload = payload]
  BY DEF DrainShards
<1>5. shards' = [shards EXCEPT ![CurrentAlgo] = {}] BY DEF DrainShards
<1>6. shards' \in [Algo -> SUBSET Record] BY <1>1, <1>2, <1>5
<1>7. payload \subseteq Record BY <1>1, <1>2, WrittenFacts DEF Record
<1>8. QED BY <1>3, <1>4, <1>6, <1>7

LEMMA PublishTypes ==
    ASSUME TypeOK, ckpt.alg \in 1..3, NEW at \in BOOLEAN, PublishPart(at)
    PROVE  /\ ckpt' \in [alg : 0..3, step : {"drain", "publish"},
                         group : Nat \union {CleanPack}, payload : SUBSET Record]
           /\ parts' \subseteq [group : Nat \union {CleanPack}, alg : Algo,
                                rows : SUBSET Record]
           /\ resident' \in Nat
           /\ ~LastAlgo => ckpt'.alg \in 1..3
<1>1. CurrentAlgo \in Algo /\ (~LastAlgo => ckpt.alg + 1 \in 1..3) BY TurnFacts
<1>2. ckpt \in [alg : 0..3, step : {"drain", "publish"},
                group : Nat \union {CleanPack}, payload : SUBSET Record]
  BY DEF TypeOK
<1>3. parts' \subseteq [group : Nat \union {CleanPack}, alg : Algo, rows : SUBSET Record]
  <2>1. PICK rows \in Written(ckpt.payload) :
          parts' = {p \in parts : p.group # ckpt.group \/ p.alg # CurrentAlgo} \union
                      {[group |-> ckpt.group, alg |-> CurrentAlgo, rows |-> rows]}
    BY DEF PublishPart
  <2>2. rows \subseteq Record BY <1>2, WrittenFacts DEF Record
  <2>3. [group |-> ckpt.group, alg |-> CurrentAlgo, rows |-> rows]
          \in [group : Nat \union {CleanPack}, alg : Algo, rows : SUBSET Record]
    BY <1>1, <1>2, <2>2
  <2>4. QED BY <2>1, <2>3 DEF TypeOK
<1>4. resident' \in Nat BY DEF PublishPart, TypeOK
<1>5. CASE LastAlgo
  <2>1. ckpt' = Idle BY <1>5 DEF PublishPart
  <2>2. Idle \in [alg : 0..3, step : {"drain", "publish"},
                  group : Nat \union {CleanPack}, payload : SUBSET Record]
    BY DEF Idle
  <2>3. QED BY <1>3, <1>4, <1>5, <2>1, <2>2, Zenon
<1>6. CASE ~LastAlgo
  <2>1. ckpt' = [ckpt EXCEPT !.alg = @ + 1, !.step = "drain", !.payload = {}]
    BY <1>6 DEF PublishPart
  <2>2. ckpt.alg + 1 \in 1..3 /\ ckpt.alg + 1 \in 0..3 BY <1>1, <1>6
  <2>3. ckpt' = [alg |-> ckpt.alg + 1, step |-> "drain", group |-> ckpt.group,
                 payload |-> {}]
    BY <1>2, <2>1
  <2>4. ckpt' \in [alg : 0..3, step : {"drain", "publish"},
                   group : Nat \union {CleanPack}, payload : SUBSET Record]
    BY <1>2, <2>2, <2>3
  <2>5. ckpt'.alg \in 1..3 BY <2>2, <2>3
  <2>6. QED BY <1>3, <1>4, <1>6, <2>4, <2>5, Zenon
<1>7. QED BY <1>5, <1>6

LEMMA CheckpointDrainKeepsIInv == IInv /\ CheckpointDrain => IInv'
<1> SUFFICES ASSUME IInv, CheckpointDrain PROVE IInv'
  OBVIOUS
<1>1. tpc = "ckpt" /\ ckpt.alg \in 1..3 /\ DrainShards(tpc = "ckpt")
  BY DEF CheckpointDrain, DrainShards, IInv, Control
<1>2. /\ UNCHANGED <<src, writerVars, arenaVars, carving, error, tpc, job,
                     carveVars, mpc>>
      /\ UNCHANGED <<resident, parts, part_seq>>
  BY DEF CheckpointDrain, DrainShards
<1>3. TypeOK'
  BY <1>1, <1>2, DrainTypes, ZenonT(40) DEF IInv, TypeOK, writerVars, arenaVars, carveVars
<1>4. Control'
  BY <1>1, <1>2, DrainTypes DEF IInv, Control, writerVars, arenaVars
<1>5. Stream' /\ TodoIntact' /\ PagesIntact'
  BY <1>2, DataUntouched DEF writerVars, arenaVars, carveVars
<1>6. QED BY <1>3, <1>4, <1>5 DEF IInv

LEMMA CheckpointPublishKeepsIInv == IInv /\ CheckpointPublish => IInv'
<1> SUFFICES ASSUME IInv, CheckpointPublish PROVE IInv'
  OBVIOUS
<1>1. tpc = "ckpt" /\ ckpt.alg \in 1..3 /\ PublishPart(tpc = "ckpt")
  BY DEF CheckpointPublish, PublishPart, IInv, Control
<1>2. /\ UNCHANGED <<src, writerVars, arenaVars, carving, error, job, carveVars, mpc>>
      /\ UNCHANGED <<shards, part_seq>>
      /\ tpc' = IF LastAlgo THEN "clear" ELSE "ckpt"
  BY DEF CheckpointPublish, PublishPart
<1>3. TypeOK'
  BY <1>1, <1>2, PublishTypes, ZenonT(40)
  DEF IInv, TypeOK, CarverPC, writerVars, arenaVars, carveVars
<1>4. Control'
  BY <1>1, <1>2, PublishTypes DEF IInv, Control, writerVars, arenaVars
<1>5. Stream' /\ TodoIntact' /\ PagesIntact'
  BY <1>1, <1>2, DataUntouched DEF writerVars, arenaVars, carveVars
<1>6. QED BY <1>3, <1>4, <1>5 DEF IInv

LEMMA CheckpointThrowsKeepsIInv == IInv /\ CheckpointThrows => IInv'
<1> SUFFICES ASSUME IInv, CheckpointThrows PROVE IInv'
  OBVIOUS
<1>1. TypeOK'
  BY DEF IInv, TypeOK, CheckpointThrows, Idle, CarverPC, writerVars, arenaVars, carveVars
<1>2. Control'
  BY DEF IInv, Control, CheckpointThrows, writerVars, arenaVars
<1>3. Stream' /\ TodoIntact' /\ PagesIntact'
  BY DataUntouched DEF CheckpointThrows, writerVars, arenaVars, carveVars
<1>4. QED BY <1>1, <1>2, <1>3 DEF IInv

LEMMA CarveFailsKeepsIInv == IInv /\ CarveFails => IInv'
<1> SUFFICES ASSUME IInv, CarveFails PROVE IInv'
  OBVIOUS
<1>1. TypeOK'
  <2>1. error' \in BOOLEAN BY Zenon DEF CarveFails
  <2>2. QED
    BY <2>1 DEF IInv, TypeOK, CarveFails, CarverPC, writerVars, arenaVars, carveVars, diskVars
<1>2. Control'
  BY DEF IInv, Control, CarveFails, writerVars, arenaVars, diskVars
<1>3. Stream' /\ TodoIntact' /\ PagesIntact'
  BY DataUntouched DEF CarveFails, writerVars, arenaVars, carveVars
<1>4. QED BY <1>1, <1>2, <1>3 DEF IInv

LEMMA CarveClearKeepsIInv == IInv /\ CarveClear => IInv'
<1> SUFFICES ASSUME IInv, CarveClear PROVE IInv'
  OBVIOUS
<1>1. TypeOK'
  <2>1. carving' \in [{0, 1} -> BOOLEAN]
    <3>1. carving \in [{0, 1} -> BOOLEAN] BY Zenon DEF IInv, TypeOK
    <3>2. carving' = [carving EXCEPT ![job.idx] = FALSE] BY DEF CarveClear, Released
    <3>3. QED BY <3>1, <3>2
  <2>2. QED
    BY <2>1 DEF IInv, TypeOK, CarveClear, CarverPC, writerVars, arenaVars, diskVars
<1>2. Control'
  BY DEF IInv, Control, CarveClear, writerVars, arenaVars, diskVars
<1>3. Stream' /\ TodoIntact' /\ PagesIntact'
  BY DataUntouched DEF CarveClear, writerVars, arenaVars
<1>4. QED BY <1>1, <1>2, <1>3 DEF IInv

-----------------------------------------------------------------------------
(* Steps of the main thread. *)

LEMMA MainJoinKeepsIInv == IInv /\ MainJoin => IInv'
<1> SUFFICES ASSUME IInv, MainJoin PROVE IInv'
  OBVIOUS
<1>1. /\ wpc \in {"closed", "dead"}
      /\ UNCHANGED <<src, writerVars, arenaVars, carving, error, tpc, job,
                     carveVars, shards, resident, parts>>
  BY DEF MainJoin, WriterEnded
<1>2. CASE wpc = "dead"
  <2>1. mpc' = "unwind_err" /\ UNCHANGED <<ckpt, part_seq>>
    BY <1>2 DEF MainJoin, WriterRaised
  <2>2. TypeOK'
    BY <1>1, <2>1 DEF IInv, TypeOK, MainPC, writerVars, arenaVars, carveVars
  <2>3. Control'
    BY <1>1, <2>1 DEF IInv, Control, writerVars, arenaVars
  <2>4. QED BY <1>1, <2>2, <2>3, DataUntouched DEF IInv, writerVars, arenaVars, carveVars
<1>3. CASE wpc = "closed"
  <2>1. /\ mpc' = "finalize"
        /\ ckpt' = [alg |-> 1, step |-> "drain",
                    group |-> IF src.chunked THEN part_seq ELSE CleanPack,
                    payload |-> {}]
        /\ part_seq' = IF src.chunked THEN part_seq + 1 ELSE part_seq
    BY <1>3 DEF MainJoin, WriterRaised, StartFinalize, NextSeq
  <2>2. part_seq' \in Nat /\ ckpt' \in [alg : 0..3, step : {"drain", "publish"},
                                        group : Nat \union {CleanPack},
                                        payload : SUBSET Record]
    BY <2>1 DEF IInv, TypeOK
  <2>3. TypeOK'
    BY <1>1, <2>1, <2>2 DEF IInv, TypeOK, MainPC, writerVars, arenaVars, carveVars
  <2>4. Control'
    BY <1>1, <1>3, <2>1 DEF IInv, Control, writerVars, arenaVars
  <2>5. QED BY <1>1, <2>3, <2>4, DataUntouched DEF IInv, writerVars, arenaVars, carveVars
<1>4. QED BY <1>1, <1>2, <1>3

LEMMA FinalDrainKeepsIInv == IInv /\ FinalDrain => IInv'
<1> SUFFICES ASSUME IInv, FinalDrain PROVE IInv'
  OBVIOUS
<1>1. mpc = "finalize" /\ ckpt.alg \in 1..3 /\ DrainShards(mpc = "finalize")
  BY DEF FinalDrain, DrainShards, IInv, Control
<1>2. /\ UNCHANGED <<src, writerVars, arenaVars, carving, error, tpc, job,
                     carveVars, mpc>>
      /\ UNCHANGED <<resident, parts, part_seq>>
  BY DEF FinalDrain, DrainShards
<1>3. TypeOK'
  BY <1>1, <1>2, DrainTypes, ZenonT(40) DEF IInv, TypeOK, writerVars, arenaVars, carveVars
<1>4. Control'
  BY <1>1, <1>2, DrainTypes DEF IInv, Control, writerVars, arenaVars
<1>5. Stream' /\ TodoIntact' /\ PagesIntact'
  BY <1>2, DataUntouched DEF writerVars, arenaVars, carveVars
<1>6. QED BY <1>3, <1>4, <1>5 DEF IInv

LEMMA FinalPublishKeepsIInv == IInv /\ FinalPublish => IInv'
<1> SUFFICES ASSUME IInv, FinalPublish PROVE IInv'
  OBVIOUS
<1>1. mpc = "finalize" /\ ckpt.alg \in 1..3 /\ PublishPart(mpc = "finalize")
  BY DEF FinalPublish, PublishPart, IInv, Control
<1>2. /\ UNCHANGED <<src, writerVars, arenaVars, carving, error, tpc, job, carveVars>>
      /\ UNCHANGED <<shards, part_seq>>
      /\ mpc' = IF LastAlgo THEN "unwind_ok" ELSE "finalize"
  BY DEF FinalPublish, PublishPart
<1>3. TypeOK'
  BY <1>1, <1>2, PublishTypes, ZenonT(40)
  DEF IInv, TypeOK, MainPC, writerVars, arenaVars, carveVars
<1>4. Control'
  BY <1>1, <1>2, PublishTypes DEF IInv, Control, writerVars, arenaVars
<1>5. Stream' /\ TodoIntact' /\ PagesIntact'
  BY <1>1, <1>2, DataUntouched DEF writerVars, arenaVars, carveVars
<1>6. QED BY <1>3, <1>4, <1>5 DEF IInv

LEMMA FinalThrowsKeepsIInv == IInv /\ FinalThrows => IInv'
<1> SUFFICES ASSUME IInv, FinalThrows PROVE IInv'
  OBVIOUS
<1>1. TypeOK'
  BY DEF IInv, TypeOK, FinalThrows, Idle, MainPC, writerVars, arenaVars, carveVars
<1>2. Control'
  BY DEF IInv, Control, FinalThrows, writerVars, arenaVars
<1>3. Stream' /\ TodoIntact' /\ PagesIntact'
  BY DataUntouched DEF FinalThrows, writerVars, arenaVars, carveVars
<1>4. QED BY <1>1, <1>2, <1>3 DEF IInv

LEMMA RemoveSpoolKeepsIInv == IInv /\ RemoveSpool => IInv'
<1> SUFFICES ASSUME IInv, RemoveSpool PROVE IInv'
  OBVIOUS
<1>1. TypeOK'
  BY DEF IInv, TypeOK, RemoveSpool, MainPC, writerVars, arenaVars
<1>2. Control'
  BY DEF IInv, Control, RemoveSpool, writerVars, arenaVars
<1>3. Stream' /\ TodoIntact' /\ PagesIntact'
  BY DataUntouched DEF RemoveSpool, writerVars, arenaVars
<1>4. QED BY <1>1, <1>2, <1>3 DEF IInv

LEMMA ExitKeepsIInv == IInv /\ Exit => IInv'
<1> SUFFICES ASSUME IInv, Exit PROVE IInv'
  OBVIOUS
<1>1. TypeOK'
  BY DEF IInv, TypeOK, Exit, ExitCode, MainPC, writerVars, arenaVars, carveVars, diskVars
<1>2. Control'
  BY DEF IInv, Control, Exit, ExitCode, writerVars, arenaVars, diskVars
<1>3. Stream' /\ TodoIntact' /\ PagesIntact'
  BY DataUntouched DEF Exit, writerVars, arenaVars, carveVars
<1>4. QED BY <1>1, <1>2, <1>3 DEF IInv

LEMMA StutterKeepsIInv == IInv /\ UNCHANGED vars => IInv'
<1> SUFFICES ASSUME IInv, UNCHANGED vars PROVE IInv'
  OBVIOUS
<1>1. TypeOK'
  BY DEF IInv, TypeOK, vars, writerVars, arenaVars, carveVars, diskVars
<1>2. Control' BY DEF IInv, Control, vars, writerVars, arenaVars, diskVars
<1>3. Stream' /\ TodoIntact' /\ PagesIntact'
  BY DataUntouched DEF vars, writerVars, arenaVars, carveVars
<1>4. QED BY <1>1, <1>2, <1>3 DEF IInv

-----------------------------------------------------------------------------
(* The theorems. *)

LEMMA WriterKeepsIInv == IInv /\ Writer => IInv'
<1>1. ASSUME IInv, NextBlock PROVE IInv' BY <1>1, NextBlockKeepsIInv
<1>2. ASSUME IInv, EndOfMember PROVE IInv' BY <1>2, EndOfMemberKeepsIInv
<1>3. ASSUME IInv, SourceError PROVE IInv' BY <1>3, SourceErrorKeepsIInv
<1>4. ASSUME IInv, WriteCheck PROVE IInv' BY <1>4, WriteCheckKeepsIInv
<1>5. ASSUME IInv, WriteWait PROVE IInv' BY <1>5, WriteWaitKeepsIInv
<1>6. ASSUME IInv, Copy PROVE IInv' BY <1>6, CopyKeepsIInv
<1>7. ASSUME IInv, SubmitWait PROVE IInv' BY <1>7, SubmitWaitKeepsIInv
<1>8. ASSUME IInv, SubmitLaunch PROVE IInv' BY <1>8, SubmitLaunchKeepsIInv
<1>9. ASSUME IInv, EofJoin PROVE IInv' BY <1>9, EofJoinKeepsIInv
<1>10. ASSUME IInv, CloseCheck PROVE IInv' BY <1>10, CloseCheckKeepsIInv
<1>11. ASSUME IInv, CloseWait PROVE IInv' BY <1>11, CloseWaitKeepsIInv
<1>12. ASSUME IInv, WriterFails PROVE IInv' BY <1>12, WriterFailsKeepsIInv
<1>13. QED
  BY <1>1, <1>2, <1>3, <1>4, <1>5, <1>6, <1>7, <1>8, <1>9, <1>10, <1>11, <1>12
     DEF Writer

LEMMA CarverKeepsIInv == IInv /\ Carver => IInv'
<1>1. ASSUME IInv, CarveNothing PROVE IInv' BY <1>1, CarveNothingKeepsIInv
<1>2. ASSUME IInv, BadHeader PROVE IInv' BY <1>2, BadHeaderKeepsIInv
<1>3. ASSUME IInv, Paginate PROVE IInv' BY <1>3, PaginateKeepsIInv
<1>4. ASSUME IInv, CarvePage PROVE IInv' BY <1>4, CarvePageKeepsIInv
<1>5. ASSUME IInv, PoolAborts PROVE IInv' BY <1>5, PoolAbortsKeepsIInv
<1>6. ASSUME IInv, PoolJoin PROVE IInv' BY <1>6, PoolJoinKeepsIInv
<1>7. ASSUME IInv, CheckpointDrain PROVE IInv' BY <1>7, CheckpointDrainKeepsIInv
<1>8. ASSUME IInv, CheckpointPublish PROVE IInv' BY <1>8, CheckpointPublishKeepsIInv
<1>9. ASSUME IInv, CheckpointThrows PROVE IInv' BY <1>9, CheckpointThrowsKeepsIInv
<1>10. ASSUME IInv, CarveFails PROVE IInv' BY <1>10, CarveFailsKeepsIInv
<1>11. ASSUME IInv, CarveClear PROVE IInv' BY <1>11, CarveClearKeepsIInv
<1>12. QED
  BY <1>1, <1>2, <1>3, <1>4, <1>5, <1>6, <1>7, <1>8, <1>9, <1>10, <1>11 DEF
     Carver

LEMMA MainKeepsIInv == IInv /\ Main => IInv'
<1>1. ASSUME IInv, MainJoin PROVE IInv' BY <1>1, MainJoinKeepsIInv
<1>2. ASSUME IInv, FinalDrain PROVE IInv' BY <1>2, FinalDrainKeepsIInv
<1>3. ASSUME IInv, FinalPublish PROVE IInv' BY <1>3, FinalPublishKeepsIInv
<1>4. ASSUME IInv, FinalThrows PROVE IInv' BY <1>4, FinalThrowsKeepsIInv
<1>5. ASSUME IInv, RemoveSpool PROVE IInv' BY <1>5, RemoveSpoolKeepsIInv
<1>6. ASSUME IInv, Exit PROVE IInv' BY <1>6, ExitKeepsIInv
<1>7. QED
  BY <1>1, <1>2, <1>3, <1>4, <1>5, <1>6 DEF Main

LEMMA StepIInv == IInv /\ [Next]_vars => IInv'
<1>1. ASSUME IInv, Ended PROVE IInv' BY <1>1, StutterKeepsIInv DEF Ended
<1>2. QED
  BY <1>1, WriterKeepsIInv, CarverKeepsIInv, MainKeepsIInv, StutterKeepsIInv DEF Next

LEMMA Invariance == Spec => []IInv
  BY InitIInv, StepIInv, PTL DEF Spec

\* The types of CarveEngine hold in every reachable state, for every input and
\* every size.
THEOREM TypeCorrect == Spec => []TypeOK
<1>1. IInv => TypeOK BY DEF IInv
<1>2. QED BY <1>1, Invariance, PTL

\* Every page carve_leaf_table_page is given is a whole page of the image at its
\* own place, whatever the arena and page sizes and however the writer, the
\* carve thread and the pool interleave.
THEOREM PagesAreIntact == Spec => []PagesIntact
<1>1. IInv => PagesIntact BY DEF IInv
<1>2. QED BY <1>1, Invariance, PTL

\* write() never copies into the arena being carved and finalize_algo never runs
\* on the main thread beside a carve thread.
THEOREM CarvesExclude == Spec => []CarveExclusive
<1>1. IInv => CarveExclusive
  <2> SUFFICES ASSUME IInv PROVE CarveExclusive
    OBVIOUS
  <2>1. fill_idx \in {0, 1} BY DEF IInv, TypeOK
  <2>2. tpc # "none" => job.idx = 1 - fill_idx BY DEF IInv, Control
  <2>3. tpc # "none" => fill_idx # job.idx BY <2>1, <2>2
  <2>4. mpc = "finalize" => tpc = "none" BY DEF IInv, Control
  <2>5. QED BY <2>3, <2>4 DEF CarveExclusive
<1>2. QED BY <1>1, Invariance, PTL

\* submit_fill_arena_ starts no carve once error_ is set, although write() and
\* close_writer() read it without the mutex.
THEOREM ErrorStopsCarves == Spec => NoCarveAfterError
<1>1. IInv /\ [Next]_vars => (tpc' = "start" /\ tpc # "start" => ~error)
  <2> SUFFICES ASSUME IInv, [Next]_vars, tpc' = "start", tpc # "start" PROVE ~error
    OBVIOUS
  <2>1. SubmitLaunch \/ UNCHANGED tpc \/ tpc' # "start"
    <3>1. CASE Writer
      BY <3>1 DEF Writer, NextBlock, EndOfMember, SourceError, WriteCheck, WriteWait,
         Copy, SubmitWait, EofJoin, CloseCheck, CloseWait, WriterFails
    <3>2. CASE Carver
      BY <3>2 DEF Carver, CarveNothing, BadHeader, Paginate, CarvePage, PoolAborts,
         PoolJoin, CheckpointDrain, CheckpointPublish, CheckpointThrows, CarveFails,
         CarveClear
    <3>3. CASE Main
      BY <3>3 DEF Main, MainJoin, FinalDrain, FinalPublish, FinalThrows, RemoveSpool,
         Exit
    <3>4. CASE Ended \/ UNCHANGED vars BY <3>4 DEF Ended, vars
    <3>5. QED BY <3>1, <3>2, <3>3, <3>4 DEF Next
  <2>2. wpc = "launch" /\ tpc \in {"none", "done"} /\ ~PreviousFailed
    BY <2>1 DEF SubmitLaunch, PreviousJoined
  <2>3. QED BY <2>2 DEF IInv, Control, PreviousFailed
<1>2. QED BY <1>1, Invariance, PTL DEF Spec, NoCarveAfterError

-----------------------------------------------------------------------------
(* Waiting. *)

\* Without a failure an arena is marked only between its claim and the launch of
\* its carve, and while that carve runs.
Marked ==
    \A i \in {0, 1} : carving[i] =>
        \/ error
        \/ wpc = "launch" /\ i = fill_idx
        \/ tpc \notin {"none", "done"} /\ i = job.idx

\* The three waits on the condition variable never block: before them the
\* previous carve was joined, so the arena they ask for is free.  What the writer
\* does wait for is that join, and the last one waits for a carve that exists.
OnlyJoinsWait ==
    /\ wpc \in {"wait", "submit"} => ~carving[fill_idx] \/ error
    /\ wpc = "closewait" => ~carving[0] /\ ~carving[1]
    /\ wpc = "eofjoin" => tpc # "none"

\* Steps that mark no arena, launch and end no carve.
LEMMA MarkedFrame ==
    ASSUME Marked, UNCHANGED <<carving, fill_idx, job>>, error => error',
           wpc = "launch" => wpc' = "launch",
           tpc \notin {"none", "done"} => tpc' \notin {"none", "done"}
    PROVE Marked'
  BY DEF Marked

LEMMA MarkedStep == ASSUME IInv, Marked, Next PROVE Marked'
<1> USE DEF writerVars, arenaVars, carveVars, diskVars
<1>1. CASE SubmitWait
  <2>1. /\ wpc = "submit" /\ UNCHANGED <<error, fill_idx, tpc, job>>
        /\ UNCHANGED carving
           \/ (wpc' = "launch" /\ carving' = [carving EXCEPT ![fill_idx] = TRUE])
    BY <1>1 DEF SubmitWait
  <2>2. carving \in [{0, 1} -> BOOLEAN] BY DEF IInv, TypeOK
  <2>3. QED BY <2>1, <2>2 DEF Marked
<1>2. CASE SubmitLaunch
  <2>1. tpc \in {"none", "done"} /\ UNCHANGED <<carving, error>>
    BY <1>2 DEF SubmitLaunch, PreviousJoined
  <2>2. CASE error BY <2>1, <2>2 DEF Marked
  <2>3. CASE ~error
    <3>1. tpc' = "start" /\ job' = [idx |-> fill_idx, used |-> fill_used, eof |-> closing]
      BY <1>2, <2>3 DEF SubmitLaunch, PreviousFailed
    <3>2. tpc' \notin {"none", "done"} /\ job'.idx = fill_idx BY <3>1
    <3>3. \A i \in {0, 1} : carving'[i] => i = job'.idx BY <2>1, <2>3, <3>2 DEF Marked
    <3>4. QED BY <3>2, <3>3 DEF Marked
  <2>4. QED BY <2>2, <2>3
<1>3. CASE EofJoin
  <2>1. wpc # "launch" /\ tpc \in {"none", "done"} /\ UNCHANGED <<carving, error>>
    BY <1>3 DEF EofJoin
  <2>2. QED BY <2>1 DEF Marked
<1>4. CASE CarveClear
  <2>1. carving' = [carving EXCEPT ![job.idx] = FALSE] /\ UNCHANGED <<error, wpc, fill_idx>>
    BY <1>4 DEF CarveClear, Released
  <2>2. carving \in [{0, 1} -> BOOLEAN] BY DEF IInv, TypeOK
  <2>3. \A i \in {0, 1} : carving'[i] => carving[i] /\ i # job.idx BY <2>1, <2>2
  <2>4. QED BY <2>1, <2>3 DEF Marked
<1>5. CASE \/ NextBlock \/ EndOfMember \/ SourceError \/ WriteCheck \/ WriteWait \/ Copy
           \/ CloseCheck \/ CloseWait \/ WriterFails
  <2>1. /\ UNCHANGED <<carving, fill_idx, job, tpc>> /\ wpc # "launch"
        /\ error => error'
    BY <1>5 DEF NextBlock, EndOfMember, SourceError, WriteCheck, WriteWait, Copy, CloseCheck,
       CloseWait, WriterFails
  <2>2. QED BY <2>1, MarkedFrame
<1>6. CASE \/ CarveNothing \/ BadHeader \/ Paginate \/ CarvePage \/ PoolAborts \/ PoolJoin
           \/ CheckpointDrain \/ CheckpointPublish \/ CheckpointThrows \/ CarveFails
  <2>1. UNCHANGED <<carving, fill_idx, job, wpc>> /\ (error => error')
    BY <1>6 DEF CarveNothing, BadHeader, Paginate, CarvePage, PoolAborts, PoolJoin,
       CheckpointDrain, CheckpointPublish, CheckpointThrows, CarveFails
  <2>2. tpc' \in {"throw", "clear", "pool", "ckpt"}
    <3>1. CASE CarveNothing \/ BadHeader \/ Paginate \/ CarvePage \/ PoolAborts
      BY <3>1 DEF CarveNothing, BadHeader, Paginate, CarvePage, PoolAborts
    <3>2. CASE PoolJoin BY <3>2 DEF PoolJoin
    <3>3. CASE CheckpointDrain \/ CheckpointPublish \/ CheckpointThrows \/ CarveFails
      BY <3>3 DEF CheckpointDrain, CheckpointPublish, CheckpointThrows, CarveFails,
         DrainShards, PublishPart
    <3>4. QED BY <1>6, <3>1, <3>2, <3>3
  <2>3. QED BY <2>1, <2>2, MarkedFrame
<1>7. CASE Main
  BY <1>7, MarkedFrame DEF Main, MainJoin, FinalDrain, FinalPublish, FinalThrows, RemoveSpool,
     Exit
<1>8. CASE Ended BY <1>8, MarkedFrame DEF Ended, vars
<1>9. QED BY <1>1, <1>2, <1>3, <1>4, <1>5, <1>6, <1>7, <1>8 DEF Next, Writer, Carver

\* write(), submit_fill_arena_ and close_writer() never wait for carving_: only
\* the join of a carve thread holds the writer up, and that thread waits for
\* nobody.
THEOREM NobodyWaitsInVain == Spec => []OnlyJoinsWait
<1>1. Init => Marked BY DEF Init, Marked
<1>2. IInv /\ Marked /\ [Next]_vars => Marked'
  <2> SUFFICES ASSUME IInv, Marked, [Next]_vars PROVE Marked'
    OBVIOUS
  <2>1. CASE Next BY <2>1, MarkedStep
  <2>2. CASE UNCHANGED vars
    BY <2>2, MarkedFrame DEF vars, writerVars, arenaVars, carveVars, diskVars
  <2>3. QED BY <2>1, <2>2
<1>3. IInv /\ Marked => OnlyJoinsWait
  <2> SUFFICES ASSUME IInv, Marked PROVE OnlyJoinsWait
    OBVIOUS
  <2>1. fill_idx \in {0, 1} /\ Control BY DEF IInv, TypeOK
  <2>2. tpc # "none" => job.idx # fill_idx BY <2>1 DEF Control
  <2>3. wpc \in {"wait", "submit"} => ~carving[fill_idx] \/ error
    BY <2>1, <2>2 DEF Marked
  <2>4. wpc = "closewait" => tpc = "none" /\ ~error BY <2>1 DEF Control
  <2>5. wpc = "closewait" => ~carving[0] /\ ~carving[1] BY <2>4 DEF Marked
  <2>6. QED BY <2>1, <2>3, <2>5 DEF Control, OnlyJoinsWait
<1>4. QED BY <1>1, <1>2, <1>3, Invariance, PTL DEF Spec
=============================================================================
