-------------------------- MODULE EngineScan_proofs --------------------------
(***************************************************************************)
(* The native engine is a full scan: on a disk that takes every write, its *)
(* packs hold exactly the digests of the image when it reports success,    *)
(* and each of its steps is a step of PageScan or leaves it alone.         *)
(*                                                                         *)
(* To IInv of CarveEngine_proofs the invariant adds where digests are from *)
(* page to pack (Rows), which packs there are while one is being made      *)
(* (Groups), what the spool holds at the end (Spool) and that no page is   *)
(* skipped between the arenas or behind the last of them (Covered, Last).  *)
(***************************************************************************)
EXTENDS CarveEngine_proofs

\* Buckets are filled only by a pool and payloads only by finalize_algo; once
\* the main thread has joined the writer, that thread is at its end; a stream
\* closed without an exception has met no error.
Phases ==
    /\ pending # {} => tpc = "pool"
    /\ ckpt.step = "publish" => tpc = "ckpt" \/ mpc = "finalize"
    /\ mpc \notin {"join", "aborted"} => wpc \in {"closed", "dead"}
    /\ mpc \in {"exit0", "exit2"} => tpc \in {"none", "done"}
    /\ wpc = "closed" => ~error

\* Group numbers have been given out, CleanPack only by the main thread, and the
\* group being made has packs of the algorithms before the current one.
Groups ==
    /\ \A p \in parts : p.group = CleanPack \/ p.group < part_seq
    /\ mpc = "join" => \A p \in parts : p.group # CleanPack
    /\ tpc = "ckpt" => ckpt.group # CleanPack
    /\ tpc = "ckpt" \/ mpc = "finalize" =>
          /\ ckpt.group = CleanPack \/ ckpt.group < part_seq
          /\ \A p \in parts : p.group = ckpt.group =>
                \E i \in 1..(ckpt.alg - 1) : p.alg = AlgoOrder[i]

\* The last finalize_algo sequence leaves no shard.
Spool ==
    /\ mpc \in {"unwind_ok", "destroy_ok", "exit0"} => \A a \in Algo : shards[a] = {}
    /\ mpc = "finalize" =>
          \A i \in 1..3 : i < ckpt.alg \/ (i = ckpt.alg /\ ckpt.step = "publish") =>
              shards[AlgoOrder[i]] = {}

\* On a disk that takes every write digests come from scanned pages only, and none
\* gets lost before a failure.
Stored(a) == Unpublished(a) \union Published(a)
Rows ==
    ~DiskMayFill =>
        /\ \A a \in Algo : Stored(a) \subseteq ScannedRows
        /\ ~Failing => \A a \in Algo : ScannedRows \subseteq Stored(a)

\* A page below db_offset has been scanned or waits for a worker.
Covered ==
    \A q \in Image : q * PageSize + PageSize <= db_offset =>
        \/ q \in ScannedPages
        \/ tpc = "pool" /\ \E p \in todo : IsPage(p, q)

\* The carve of the last arena has the whole stream before it and leaves less
\* than a page.
Last ==
    /\ wpc = "close" \/ closing => wr = src.len
    /\ closing => wpc \in {"submit", "launch", "eofjoin", "closewait", "closed",
                           "raised", "dead"}
    /\ wpc \in {"eofjoin", "closewait", "closed"} => job.eof
    /\ job.eof => closing /\ fill_used = 0
    /\ job.eof /\ ~error /\ tpc \notin {"start", "throw"} =>
          src.len < db_offset + PageSize

SInv == IInv /\ Phases /\ Groups /\ Spool /\ Rows /\ Covered /\ Last

-----------------------------------------------------------------------------
LEMMA InitSInv == Init => SInv
<1> SUFFICES ASSUME Init PROVE SInv
  OBVIOUS
<1>1. IInv BY InitIInv
<1>2. /\ wpc = "next" /\ closing = FALSE /\ error = FALSE /\ tpc = "none"
      /\ job.eof = FALSE /\ db_offset = 0 /\ pending = {} /\ scanned = {}
      /\ shards = [a \in Algo |-> {}] /\ parts = {} /\ ckpt.step = "drain"
      /\ mpc = "join"
  BY Zenon DEF Init, Idle
<1>3. Phases BY <1>2 DEF Phases
<1>4. Groups BY <1>2 DEF Groups
<1>5. Spool BY <1>2 DEF Spool
<1>6. Rows
  <2>1. \A a \in Algo : Stored(a) = {}
    BY <1>2 DEF Stored, Unpublished, Published
  <2>2. ScannedRows = {} BY <1>2 DEF ScannedRows, ScannedPages, RowsIn
  <2>3. QED BY <2>1, <2>2 DEF Rows
<1>7. Covered
  <2>1. ASSUME NEW q \in Image, q * PageSize + PageSize <= 0 PROVE FALSE
    <3>1. q \in Nat /\ PageSize \in Nat \ {0} BY SizesAssumption DEF Image, Page
    <3>2. q * PageSize \in Nat BY <3>1
    <3>3. QED BY <2>1, <3>1, <3>2
  <2>2. QED BY <1>2, <2>1 DEF Covered
<1>8. Last BY <1>2 DEF Last
<1>9. QED BY <1>1, <1>3, <1>4, <1>5, <1>6, <1>7, <1>8 DEF SInv

-----------------------------------------------------------------------------
(* The threads' places. *)

LEMMA PhasesStep == ASSUME IInv, Phases, Next PROVE Phases'
<1> USE DEF Phases
<1>1. CASE Writer
  <2> USE DEF arenaVars, carveVars, diskVars
  <2>1. CASE NextBlock BY <2>1 DEF NextBlock, Alive
  <2>2. CASE EndOfMember BY <2>2 DEF EndOfMember, Alive
  <2>3. CASE SourceError BY <2>3 DEF SourceError, Alive
  <2>4. CASE WriteCheck BY <2>4 DEF WriteCheck, Alive
  <2>5. CASE WriteWait BY <2>5 DEF WriteWait, Alive
  <2>6. CASE Copy BY <2>6 DEF Copy, Alive
  <2>7. CASE SubmitWait BY <2>7 DEF SubmitWait, Alive
  <2>8. CASE SubmitLaunch
    BY <2>8 DEF SubmitLaunch, PreviousJoined, Alive
  <2>9. CASE EofJoin BY <2>9 DEF EofJoin, Alive
  <2>10. CASE CloseCheck BY <2>10 DEF CloseCheck, Alive
  <2>11. CASE CloseWait BY <2>11 DEF CloseWait, Alive
  <2>12. CASE WriterFails BY <2>12 DEF WriterFails, Alive
  <2>13. QED
    BY <1>1, <2>1, <2>2, <2>3, <2>4, <2>5, <2>6, <2>7, <2>8, <2>9, <2>10, <2>11,
       <2>12 DEF Writer
<1>2. CASE Carver
  <2> USE DEF writerVars, arenaVars, diskVars, Alive
  <2>1. wpc = "closed" \/ mpc \in {"finalize", "exit0", "exit2"} => tpc \in {"none", "done"}
    BY DEF IInv, Control
  <2>2. CASE CarveNothing BY <2>1, <2>2 DEF CarveNothing
  <2>3. CASE BadHeader BY <2>1, <2>3 DEF BadHeader
  <2>4. CASE Paginate BY <2>1, <2>4 DEF Paginate
  <2>5. CASE CarvePage BY <2>1, <2>5 DEF CarvePage
  <2>6. CASE PoolAborts BY <2>1, <2>6 DEF PoolAborts, carveVars
  <2>7. CASE PoolJoin BY <2>1, <2>7 DEF PoolJoin, StartFinalize
  <2>8. CASE CheckpointDrain BY <2>1, <2>8 DEF CheckpointDrain, DrainShards, carveVars
  <2>9. CASE CheckpointPublish
    BY <2>1, <2>9 DEF CheckpointPublish, PublishPart, carveVars, Idle, IInv, TypeOK
  <2>10. CASE CheckpointThrows
    BY <2>1, <2>10 DEF CheckpointThrows, carveVars, Idle
  <2>11. CASE CarveFails BY <2>1, <2>11 DEF CarveFails, carveVars
  <2>12. CASE CarveClear BY <2>1, <2>12 DEF CarveClear
  <2>13. QED
    BY <1>2, <2>2, <2>3, <2>4, <2>5, <2>6, <2>7, <2>8, <2>9, <2>10, <2>11,
       <2>12 DEF Carver
<1>3. CASE Main
  <2> USE DEF writerVars, arenaVars, carveVars
  <2>1. mpc = "finalize" => tpc = "none" BY DEF IInv, Control
  <2>2. CASE MainJoin
    BY <2>2 DEF MainJoin, WriterEnded, WriterRaised, StartFinalize
  <2>3. CASE FinalDrain BY <2>3 DEF FinalDrain, DrainShards
  <2>4. CASE FinalPublish
    BY <2>1, <2>4 DEF FinalPublish, PublishPart, Idle, IInv, TypeOK
  <2>5. CASE FinalThrows BY <2>5 DEF FinalThrows, Idle
  <2>6. CASE RemoveSpool BY <2>6 DEF RemoveSpool
  <2>7. CASE Exit BY <2>7 DEF Exit, ExitCode, diskVars
  <2>8. QED BY <1>3, <2>2, <2>3, <2>4, <2>5, <2>6, <2>7 DEF Main
<1>4. CASE Ended
  BY <1>4 DEF Ended, vars, writerVars, arenaVars, carveVars, diskVars
<1>5. QED BY <1>1, <1>2, <1>3, <1>4 DEF Next

-----------------------------------------------------------------------------
(* The end of the stream. *)

LEMMA LastStep == ASSUME IInv, Phases, Last, Next PROVE Last'
<1> USE DEF Last
<1>1. CASE Writer
  <2> USE DEF arenaVars, carveVars, diskVars
  <2>1. CASE NextBlock BY <2>1 DEF NextBlock
  <2>2. CASE EndOfMember BY <2>2 DEF EndOfMember
  <2>3. CASE SourceError BY <2>3 DEF SourceError
  <2>4. CASE WriteCheck BY <2>4 DEF WriteCheck
  <2>5. CASE WriteWait BY <2>5 DEF WriteWait
  <2>6. CASE Copy BY <2>6 DEF Copy
  <2>7. CASE SubmitWait BY <2>7 DEF SubmitWait
  <2>8. CASE SubmitLaunch
    BY <2>8 DEF SubmitLaunch, PreviousJoined
  <2>9. CASE EofJoin BY <2>9 DEF EofJoin
  <2>10. CASE CloseCheck BY <2>10 DEF CloseCheck
  <2>11. CASE CloseWait BY <2>11 DEF CloseWait
  <2>12. CASE WriterFails BY <2>12 DEF WriterFails
  <2>13. QED
    BY <1>1, <2>1, <2>2, <2>3, <2>4, <2>5, <2>6, <2>7, <2>8, <2>9, <2>10, <2>11,
       <2>12 DEF Writer
<1>2. CASE Carver
  <2> USE DEF writerVars, arenaVars, diskVars, Alive
  <2>1. /\ PageSize \in Nat \ {0} /\ src.len \in Nat /\ db_offset \in Nat
        /\ wr \in Nat /\ fill_used \in Nat
    BY SrcLen, SizesAssumption DEF IInv, TypeOK
  <2>2. ASSUME tpc = "start", job.eof
        PROVE  db_offset + Len(FirstView) = src.len /\ Len(FirstView) \in Nat
    <3>1. db_offset + Len(FirstView) = wr - fill_used
      BY <2>2, FirstViewIntact DEF IInv
    <3>2. Len(FirstView) \in Nat BY FirstViewTypes DEF IInv
    <3>3. wr = src.len /\ fill_used = 0 BY <2>2
    <3>4. QED BY <2>1, <3>1, <3>2, <3>3
  <2>3. CASE CarveNothing
    <3>1. UNCHANGED <<src, writerVars, arenaVars, error, job, db_offset>>
          /\ tpc = "start" /\ tpc' \in {"throw", "clear"}
      BY <2>3 DEF CarveNothing
    <3>2. ASSUME job.eof, tpc' = "clear" PROVE src.len < db_offset + PageSize
      <4>1. FirstView = <<>> BY <2>3, <3>2 DEF CarveNothing
      <4>2. Len(FirstView) = 0 BY <4>1
      <4>3. QED BY <2>1, <2>2, <3>1, <3>2, <4>2
    <3>3. QED BY <3>1, <3>2
  <2>4. CASE BadHeader BY <2>4 DEF BadHeader
  <2>5. CASE Paginate
    <3> DEFINE n == Len(FirstView) \div PageSize
    <3>1. /\ UNCHANGED <<src, writerVars, arenaVars, error, job>>
          /\ tpc = "start" /\ db_offset' = db_offset + n * PageSize
      BY <2>5 DEF Paginate
    <3>2. ASSUME job.eof PROVE src.len < db_offset' + PageSize
      <4>1. Len(FirstView) \in Nat /\ db_offset + Len(FirstView) = src.len
        BY <2>2, <3>1, <3>2
      <4>2. n * PageSize \in Nat /\ Len(FirstView) < n * PageSize + PageSize
        <5>1. \A l \in Nat : l < (l \div PageSize) * PageSize + PageSize BY <2>1
        <5>2. QED BY <2>1, <4>1, <5>1, WholePages
      <4> HIDE DEF n
      <4>3. QED BY <2>1, <3>1, <4>1, <4>2
    <3>3. QED BY <3>1, <3>2
  <2>6. CASE CarvePage BY <2>6 DEF CarvePage
  <2>7. CASE PoolAborts BY <2>7 DEF PoolAborts, carveVars
  <2>8. CASE PoolJoin BY <2>8 DEF PoolJoin
  <2>9. CASE CheckpointDrain BY <2>9 DEF CheckpointDrain, DrainShards, carveVars
  <2>10. CASE CheckpointPublish
    BY <2>10 DEF CheckpointPublish, PublishPart, carveVars
  <2>11. CASE CheckpointThrows BY <2>11 DEF CheckpointThrows, carveVars
  <2>12. CASE CarveFails BY <2>12 DEF CarveFails, carveVars
  <2>13. CASE CarveClear BY <2>13 DEF CarveClear
  <2>14. QED
    BY <1>2, <2>3, <2>4, <2>5, <2>6, <2>7, <2>8, <2>9, <2>10, <2>11, <2>12,
       <2>13 DEF Carver
<1>3. CASE Main
  <2>1. UNCHANGED <<src, writerVars, arenaVars, error, tpc, job, db_offset>>
    BY <1>3 DEF Main, MainJoin, FinalDrain, FinalPublish, FinalThrows, RemoveSpool,
       Exit, carveVars
  <2>2. QED BY <2>1 DEF writerVars, arenaVars
<1>4. CASE Ended
  BY <1>4 DEF Ended, vars, writerVars, arenaVars, carveVars
<1>5. QED BY <1>1, <1>2, <1>3, <1>4 DEF Next

-----------------------------------------------------------------------------
(* The pages: none is skipped. *)

LEMMA MulInjective ==
    ASSUME NEW a \in Nat, NEW b \in Nat, NEW p \in Nat \ {0}, a * p = b * p
    PROVE  a = b
<1>1. a * p \in Nat /\ b * p \in Nat OBVIOUS
<1>2. CASE a + 1 <= b
  <2>1. (a + 1) * p <= b * p BY <1>2, MulMonotone
  <2>2. (a + 1) * p = a * p + p OBVIOUS
  <2>3. QED BY <1>1, <2>1, <2>2
<1>3. CASE b + 1 <= a
  <2>1. (b + 1) * p <= a * p BY <1>3, MulMonotone
  <2>2. (b + 1) * p = b * p + p OBVIOUS
  <2>3. QED BY <1>1, <2>1, <2>2
<1>4. QED BY <1>2, <1>3

\* While a pool works its view stays as it was.
LEMMA ViewStays ==
    ASSUME IInv, Next, tpc = "pool", tpc' = "pool"
    PROVE  View' = View /\ UNCHANGED <<src, db_offset>>
<1>1. /\ UNCHANGED <<src, db_offset, buf, job>>
      /\ arena'[job.idx] = arena[job.idx]
  <2>1. CASE Copy
    <3>1. arena' = [arena EXCEPT ![fill_idx] = arena'[fill_idx]]
      BY <2>1 DEF Copy, IInv, TypeOK
    <3>2. job.idx # fill_idx
      <4>1. job.idx = 1 - fill_idx /\ fill_idx \in {0, 1} BY DEF IInv, Control, TypeOK
      <4>2. QED BY <4>1
    <3>3. arena'[job.idx] = arena[job.idx] BY <3>1, <3>2 DEF IInv, TypeOK
    <3>4. QED BY <2>1, <3>3 DEF Copy, carveVars
  <2>2. CASE Writer /\ ~Copy
    BY <2>2 DEF Writer, NextBlock, EndOfMember, SourceError, WriteCheck, WriteWait,
       SubmitWait, SubmitLaunch, PreviousJoined, EofJoin, CloseCheck, CloseWait,
       WriterFails, arenaVars, carveVars
  <2>3. CASE Carver
    BY <2>3 DEF Carver, CarveNothing, BadHeader, Paginate, CarvePage, PoolAborts,
       PoolJoin, CheckpointDrain, CheckpointPublish, CheckpointThrows, CarveFails,
       CarveClear, arenaVars, carveVars
  <2>4. CASE Main
    BY <2>4 DEF Main, MainJoin, FinalDrain, FinalPublish, FinalThrows, RemoveSpool,
       Exit, arenaVars, carveVars
  <2>5. CASE Ended BY <2>5 DEF Ended, vars, arenaVars, carveVars
  <2>6. QED BY <2>1, <2>2, <2>3, <2>4, <2>5 DEF Next
<1>2. Live' = Live BY <1>1 DEF Live
<1>3. QED BY <1>1, <1>2 DEF View

\* A worker that takes page q of the image reads its units.
LEMMA UnitsRead ==
    ASSUME IInv, NEW p \in todo, NEW q \in Image, IsPage(p, q)
    PROVE  SubSeq(View, p.off + 1, p.off + PageSize) = PageUnits(q)
<1>1. p.off \in Nat
  <2>1. p \in [off : Nat, page1 : BOOLEAN] BY DEF IInv, TypeOK
  <2>2. QED BY <2>1
<1>2. PageSize \in Nat BY SizesAssumption
<1>3. View \in Seq(Int) BY LiveFacts DEF IInv, TypeOK, View
<1>4. p.off + PageSize <= Len(View) BY DEF IsPage
<1>5. SubSeq(View, p.off + 1, p.off + PageSize) = [j \in 1..PageSize |-> View[p.off + j]]
  BY <1>1, <1>2, <1>3, <1>4, StretchOf
<1>6. QED BY <1>5 DEF IsPage, PageUnits

LEMMA PaginateCovers == ASSUME IInv, Covered, Paginate, IInv' PROVE Covered'
<1> DEFINE n == Len(FirstView) \div PageSize
<1>1. /\ tpc = "start" /\ tpc' = (IF n = 0 THEN "clear" ELSE "pool")
      /\ buf' = (IF prefix = <<>> THEN <<>> ELSE FirstView)
      /\ todo' = {[off |-> k * PageSize, page1 |-> db_offset = 0 /\ k = 0] :
                     k \in 0..(n - 1)}
      /\ db_offset' = db_offset + n * PageSize
      /\ UNCHANGED <<src, arenaVars, job, scanned>>
  BY DEF Paginate
<1>2. FirstView \in Seq(Int) /\ Len(FirstView) \in Nat BY FirstViewTypes DEF IInv
<1>3. \A j \in 1..Len(FirstView) : FirstView[j] = db_offset + j - 1
  BY <1>1, FirstViewIntact DEF IInv
<1>4. PageSize \in Nat \ {0} /\ db_offset \in Nat
  BY SizesAssumption DEF IInv, TypeOK
<1>5. /\ n \in Nat /\ n * PageSize \in Nat
      /\ \A k \in 0..(n - 1) : k * PageSize \in Nat
                               /\ k * PageSize + PageSize <= Len(FirstView)
  BY <1>2, <1>4, WholePages
<1>6. PICK q0 \in Nat : db_offset = q0 * PageSize BY DEF IInv, Stream, Aligned
<1> HIDE DEF n
<1>7. View' = FirstView
  <2>1. Live' = Live BY <1>1 DEF Live, arenaVars
  <2>2. CASE prefix = <<>>
    <3>1. FirstView = Live BY <2>2, FirstViewTypes DEF IInv
    <3>2. QED BY <1>1, <2>1, <2>2, <3>1 DEF View
  <2>3. CASE prefix # <<>>
    <3>1. FirstView # <<>> BY <2>3, FirstViewTypes DEF IInv
    <3>2. QED BY <1>1, <2>3, <3>1 DEF View
  <2>4. QED BY <2>2, <2>3
<1>8. Image' = Image /\ ScannedPages' = ScannedPages
  BY <1>1 DEF Image, ScannedPages
<1> SUFFICES ASSUME NEW q \in Image, q * PageSize + PageSize <= db_offset'
             PROVE  \/ q \in ScannedPages'
                    \/ tpc' = "pool" /\ \E p \in todo' : IsPage(p, q)'
  BY <1>8 DEF Covered
<1>9. q \in Nat /\ q * PageSize \in Nat BY <1>4 DEF Image, Page
<1>10. CASE q * PageSize + PageSize <= db_offset
  BY <1>1, <1>8, <1>10 DEF Covered
<1>11. CASE ~(q * PageSize + PageSize <= db_offset)
  <2>1. q0 * PageSize < (q + 1) * PageSize
    <3>1. (q + 1) * PageSize = q * PageSize + PageSize BY <1>4, <1>9
    <3>2. QED BY <1>4, <1>6, <1>9, <1>11, <3>1
  <2>2. q0 <= q
    <3> SUFFICES ASSUME ~(q0 <= q) PROVE FALSE
      OBVIOUS
    <3>1. q + 1 <= q0 /\ q + 1 \in Nat BY <1>6, <1>9
    <3>2. (q + 1) * PageSize <= q0 * PageSize BY <1>4, <3>1, MulMonotone
    <3>3. (q + 1) * PageSize \in Nat /\ q0 * PageSize \in Nat BY <1>4, <3>1
    <3>4. QED BY <2>1, <3>2, <3>3
  <2> DEFINE k == q - q0
  <2>3. k \in Nat /\ q = q0 + k BY <1>9, <2>2
  <2> HIDE DEF k
  <2>4. q * PageSize = db_offset + k * PageSize /\ k * PageSize \in Nat
    BY <1>4, <1>6, <2>3
  <2>5. k < n
    <3> SUFFICES ASSUME ~(k < n) PROVE FALSE
      OBVIOUS
    <3>1. n * PageSize <= k * PageSize BY <1>4, <1>5, <2>3, MulMonotone
    <3>2. QED BY <1>1, <1>4, <1>5, <2>4, <3>1
  <2>6. k \in 0..(n - 1) /\ n # 0 BY <1>5, <2>3, <2>5
  <2>7. tpc' = "pool" BY <1>1, <2>6
  <2>9. PICK p \in todo' : p.off = k * PageSize
    <3>1. [off |-> k * PageSize, page1 |-> db_offset = 0 /\ k = 0] \in todo' BY <1>1, <2>6
    <3>2. QED BY <3>1
  <2>8. PICK q1 \in Image' : IsPage(p, q1)'
    <3>1. TodoIntact' BY Zenon DEF IInv
    <3>2. QED BY <2>7, <2>9, <3>1 DEF TodoIntact
  <2>10. FirstView[k * PageSize + 1] = q1 * PageSize + 1 - 1
    <3>1. \A j \in 1..PageSize : FirstView[p.off + j] = q1 * PageSize + j - 1
      BY <1>7, <2>8, Zenon DEF IsPage
    <3>2. 1 \in 1..PageSize BY <1>4
    <3>3. QED BY <2>9, <3>1, <3>2
  <2>11. FirstView[k * PageSize + 1] = db_offset + (k * PageSize + 1) - 1
    <3>1. k * PageSize + 1 \in 1..Len(FirstView) BY <1>2, <1>4, <1>5, <2>4, <2>6
    <3>2. QED BY <1>3, <3>1
  <2>12. q1 \in Nat /\ q1 * PageSize \in Nat BY <1>4, <1>8 DEF Image, Page
  <2>13. q1 * PageSize = q * PageSize BY <1>4, <2>4, <2>10, <2>11, <2>12
  <2>14. q1 = q BY <1>4, <1>9, <2>12, <2>13, MulInjective
  <2>15. IsPage(p, q)' BY <2>8, <2>14, Zenon
  <2>16. QED BY <2>7, <2>9, <2>15, Zenon
<1>12. QED BY <1>10, <1>11

LEMMA CarvePageCovers == ASSUME IInv, Covered, CarvePage PROVE Covered'
<1>1. tpc = "pool" /\ tpc' = "pool" /\ UNCHANGED <<src, db_offset>> BY DEF CarvePage
<1>2. PICK p \in todo :
        /\ todo' = todo \ {p}
        /\ scanned' = scanned \union
             {[units |-> SubSeq(View, p.off + 1, p.off + PageSize), page1 |-> p.page1]}
  BY DEF CarvePage
<1>3. View' = View /\ Image' = Image
  BY <1>1, ViewStays DEF Next, Carver, Image
<1> SUFFICES ASSUME NEW q \in Image, q * PageSize + PageSize <= db_offset
             PROVE  \/ q \in ScannedPages'
                    \/ \E t \in todo' : IsPage(t, q)'
  BY <1>1, <1>3 DEF Covered
<1>4. CASE q \in ScannedPages BY <1>2, <1>4 DEF ScannedPages
<1>5. CASE q \notin ScannedPages
  <2>1. PICK t \in todo : IsPage(t, q) BY <1>5 DEF Covered
  <2>2. CASE t = p
    <3>1. SubSeq(View, p.off + 1, p.off + PageSize) = PageUnits(q) /\ p.page1 = (q = 0)
      BY <2>1, <2>2, UnitsRead DEF IsPage
    <3>2. q \in Page BY DEF Image
    <3>3. QED BY <1>2, <3>1, <3>2 DEF ScannedPages
  <2>3. CASE t # p
    <3>1. t \in todo' BY <1>2, <2>3
    <3>2. IsPage(t, q)' BY <1>3, <2>1 DEF IsPage
    <3>3. QED BY <3>1, <3>2
  <2>4. QED BY <2>2, <2>3
<1>6. QED BY <1>4, <1>5

LEMMA CoveredStep == ASSUME IInv, Covered, Next, IInv' PROVE Covered'
<1>1. CASE Paginate BY <1>1, PaginateCovers
<1>2. CASE CarvePage BY <1>2, CarvePageCovers
<1>3. CASE ~Paginate /\ ~CarvePage
  <2>1. /\ UNCHANGED <<src, db_offset, scanned>>
        /\ tpc = "pool" => (tpc' = "pool" /\ todo' = todo) \/ todo = {}
    <3>1. CASE Writer
      BY <3>1 DEF Writer, NextBlock, EndOfMember, SourceError, WriteCheck, WriteWait,
         Copy, SubmitWait, SubmitLaunch, PreviousJoined, EofJoin, CloseCheck, CloseWait,
         WriterFails, carveVars
    <3>2. CASE Carver
      BY <1>3, <3>2 DEF Carver, CarveNothing, BadHeader, PoolAborts, PoolJoin,
         CheckpointDrain, CheckpointPublish, CheckpointThrows, CarveFails, CarveClear,
         PublishPart, carveVars
    <3>3. CASE Main
      BY <3>3 DEF Main, MainJoin, FinalDrain, FinalPublish, FinalThrows, RemoveSpool,
         Exit, carveVars
    <3>4. CASE Ended BY <3>4 DEF Ended, vars, carveVars
    <3>5. QED BY <3>1, <3>2, <3>3, <3>4 DEF Next
  <2>2. Image' = Image /\ ScannedPages' = ScannedPages
    BY <2>1 DEF Image, ScannedPages
  <2>3. CASE tpc = "pool" /\ todo # {}
    <3>1. tpc' = "pool" /\ todo' = todo BY <2>1, <2>3
    <3>2. View' = View BY <2>3, <3>1, ViewStays
    <3>3. \A t, q : IsPage(t, q) => IsPage(t, q)' BY <3>2 DEF IsPage
    <3>4. QED BY <2>1, <2>2, <3>1, <3>3 DEF Covered
  <2>4. CASE ~(tpc = "pool" /\ todo # {}) BY <2>1, <2>2, <2>4 DEF Covered
  <2>5. QED BY <2>3, <2>4
<1>4. QED BY <1>1, <1>2, <1>3

-----------------------------------------------------------------------------
(* The packs: none is replaced. *)

\* finalize_algo publishes a pack under a name no pack has.
LEMMA PublishAdds ==
    ASSUME IInv, Groups, tpc = "ckpt" \/ mpc = "finalize",
           NEW at \in BOOLEAN, PublishPart(at)
    PROVE  /\ ckpt.alg \in 1..3 /\ ckpt.step = "publish"
           /\ \E rows : /\ ~DiskMayFill => rows = ckpt.payload
                        /\ parts' = parts \union {[group |-> ckpt.group,
                                                   alg |-> CurrentAlgo, rows |-> rows]}
           /\ CurrentAlgo = AlgoOrder[ckpt.alg]
           /\ ~LastAlgo => ckpt' = [ckpt EXCEPT !.alg = @ + 1, !.step = "drain",
                                                !.payload = {}]
           /\ LastAlgo => ckpt' = Idle
           /\ UNCHANGED <<shards, part_seq>>
<1>1. ckpt.alg \in 1..3 BY DEF IInv, Control
<1>2. CurrentAlgo = AlgoOrder[ckpt.alg] BY DEF CurrentAlgo
<1>3. \A i \in 1..(ckpt.alg - 1) : AlgoOrder[i] # AlgoOrder[ckpt.alg]
  BY <1>1 DEF AlgoOrder
<1>4. \A p \in parts : p.group # ckpt.group \/ p.alg # CurrentAlgo
  BY <1>2, <1>3 DEF Groups
<1>5. parts = {p \in parts : p.group # ckpt.group \/ p.alg # CurrentAlgo}
  BY <1>4
<1>6. PICK rows \in Written(ckpt.payload) :
        parts' = {p \in parts : p.group # ckpt.group \/ p.alg # CurrentAlgo} \union
                    {[group |-> ckpt.group, alg |-> CurrentAlgo, rows |-> rows]}
  BY DEF PublishPart
<1>7. ~DiskMayFill => rows = ckpt.payload BY WrittenFacts
<1>8. parts' = parts \union {[group |-> ckpt.group, alg |-> CurrentAlgo, rows |-> rows]}
  BY <1>5, <1>6
<1>9. QED BY <1>1, <1>2, <1>7, <1>8, Zenon DEF PublishPart

LEMMA GroupsFrame ==
    ASSUME Groups, UNCHANGED <<parts, part_seq>>,
           ckpt'.alg = ckpt.alg /\ ckpt'.group = ckpt.group,
           tpc' = "ckpt" => tpc = "ckpt", mpc' = "finalize" => mpc = "finalize",
           mpc' = "join" => mpc = "join"
    PROVE  Groups'
  BY DEF Groups

LEMMA PublishKeepsGroups ==
    ASSUME IInv, Groups, tpc = "ckpt" \/ mpc = "finalize",
           NEW at \in BOOLEAN, PublishPart(at),
           tpc' = "ckpt" => tpc = "ckpt", mpc' = "join" => mpc = "join",
           mpc = "join" => ckpt.group # CleanPack,
           tpc' = "ckpt" \/ mpc' = "finalize" => ~LastAlgo
    PROVE  Groups'
<1>1. /\ ckpt.alg \in 1..3
      /\ \E rows : parts' = parts \union {[group |-> ckpt.group,
                                           alg |-> AlgoOrder[ckpt.alg], rows |-> rows]}
      /\ ~LastAlgo => ckpt' = [ckpt EXCEPT !.alg = @ + 1, !.step = "drain",
                                           !.payload = {}]
      /\ part_seq' = part_seq
  BY PublishAdds
<1>2. ckpt \in [alg : 0..3, step : {"drain", "publish"},
                group : Nat \union {CleanPack}, payload : SUBSET Record]
  BY DEF IInv, TypeOK
<1>3. ~LastAlgo => ckpt'.alg = ckpt.alg + 1 /\ ckpt'.group = ckpt.group BY <1>1, <1>2
<1>4. \A p \in parts' : p.group = CleanPack \/ p.group < part_seq
  BY <1>1 DEF Groups
<1>5. mpc' = "join" => \A p \in parts' : p.group # CleanPack BY <1>1 DEF Groups
<1>6. ASSUME tpc' = "ckpt" \/ mpc' = "finalize", NEW p \in parts', p.group = ckpt'.group
      PROVE  \E i \in 1..(ckpt'.alg - 1) : p.alg = AlgoOrder[i]
  <2>1. ckpt'.alg - 1 = ckpt.alg /\ ckpt'.group = ckpt.group BY <1>1, <1>3, <1>6
  <2>2. CASE p \in parts
    <3>1. PICK i \in 1..(ckpt.alg - 1) : p.alg = AlgoOrder[i]
      BY <1>6, <2>1, <2>2 DEF Groups
    <3>2. i \in 1..(ckpt'.alg - 1) BY <1>1, <2>1
    <3>3. QED BY <3>1, <3>2
  <2>3. CASE p \notin parts
    <3>1. p.alg = AlgoOrder[ckpt.alg] BY <1>1, <2>3
    <3>2. ckpt.alg \in 1..(ckpt'.alg - 1) BY <1>1, <2>1
    <3>3. QED BY <3>1, <3>2
  <2>4. QED BY <2>2, <2>3
<1>7. QED BY <1>1, <1>3, <1>4, <1>5, <1>6 DEF Groups

\* A finalize_algo sequence begins under a number no pack has.
LEMMA StartKeepsGroups ==
    ASSUME IInv, Groups, NEW g, parts' = parts, StartFinalize(g),
           \/ g = part_seq /\ part_seq' = part_seq + 1
           \/ g = CleanPack /\ part_seq' = part_seq /\ mpc = "join" /\ mpc' # "join"
              /\ tpc' # "ckpt",
           mpc' = "join" => mpc = "join"
    PROVE  Groups'
<1>1. ckpt' = [alg |-> 1, step |-> "drain", group |-> g, payload |-> {}]
  BY DEF StartFinalize
<1>2. part_seq \in Nat /\ \A p \in parts : p.group \in Nat \union {CleanPack}
  BY DEF IInv, TypeOK
<1>3. \A p \in parts : p.group # g
  BY <1>2 DEF Groups, CleanPack
<1>4. g # CleanPack \/ tpc' # "ckpt" BY <1>2 DEF CleanPack
<1>5. \A p \in parts : p.group = CleanPack \/ p.group < part_seq' BY <1>2 DEF Groups
<1>6. g = CleanPack \/ g < part_seq' BY <1>2
<1>7. QED BY <1>1, <1>3, <1>4, <1>5, <1>6 DEF Groups

LEMMA GroupsStep == ASSUME IInv, Phases, Groups, Next PROVE Groups'
<1>0. mpc' = "join" => mpc = "join"
  BY DEF Next, Writer, NextBlock, EndOfMember, SourceError, WriteCheck, WriteWait,
     Copy, SubmitWait, SubmitLaunch, EofJoin, CloseCheck, CloseWait, WriterFails,
     Carver, CarveNothing, BadHeader, Paginate, CarvePage, PoolAborts, PoolJoin,
     CheckpointDrain, CheckpointPublish, CheckpointThrows, CarveFails, CarveClear,
     Main, MainJoin, FinalDrain, FinalPublish, FinalThrows, RemoveSpool, Exit, ExitCode,
     Ended, vars
<1>1. CASE PoolJoin
  <2>1. CASE tpc' = "ckpt"
    <3>1. /\ StartFinalize(part_seq) /\ part_seq' = part_seq + 1 /\ parts' = parts
      BY <1>1, <2>1 DEF PoolJoin, NextSeq
    <3>2. QED BY <1>0, <3>1, StartKeepsGroups
  <2>2. CASE tpc' # "ckpt"
    <3>1. UNCHANGED <<ckpt, part_seq, parts, mpc>> BY <1>1, <2>2 DEF PoolJoin
    <3>2. QED BY <2>2, <3>1, GroupsFrame
  <2>3. QED BY <2>1, <2>2
<1>2. CASE CheckpointDrain
  <2>1. tpc = "ckpt" /\ DrainShards(tpc = "ckpt") /\ UNCHANGED <<tpc, mpc>>
    BY <1>2 DEF CheckpointDrain, DrainShards
  <2>2. ckpt'.alg = ckpt.alg /\ ckpt'.group = ckpt.group /\ UNCHANGED <<parts, part_seq>>
    BY <2>1 DEF DrainShards, IInv, TypeOK
  <2>3. QED BY <2>1, <2>2, GroupsFrame
<1>3. CASE CheckpointPublish
  <2>1. /\ tpc = "ckpt" /\ PublishPart(tpc = "ckpt") /\ mpc' = mpc
        /\ tpc' = "ckpt" => ~LastAlgo
    BY <1>3 DEF CheckpointPublish, PublishPart
  <2>2. ckpt.group # CleanPack /\ mpc # "finalize"
    BY <2>1 DEF Groups, IInv, Control
  <2>3. QED BY <2>1, <2>2, PublishKeepsGroups
<1>4. CASE CheckpointThrows
  <2>1. tpc' # "ckpt" /\ mpc' # "finalize" /\ UNCHANGED <<parts, part_seq, mpc>>
    BY <1>4 DEF CheckpointThrows, IInv, Control
  <2>2. QED BY <2>1 DEF Groups
<1>5. CASE MainJoin
  <2>1. mpc = "join" /\ UNCHANGED <<tpc, parts>>
        /\ mpc' \in {"unwind_err", "finalize"}
    BY <1>5 DEF MainJoin
  <2>2. CASE mpc' = "unwind_err"
    <3>1. UNCHANGED <<ckpt, part_seq>> BY <1>5, <2>2 DEF MainJoin
    <3>2. QED BY <2>1, <2>2, <3>1, GroupsFrame
  <2>3. CASE mpc' = "finalize"
    <3>1. wpc = "closed" /\ tpc = "none" /\ ~WriterRaised
      BY <1>5, <2>3 DEF MainJoin, WriterEnded, WriterRaised, IInv, Control
    <3>2. CASE src.chunked
      <4>1. StartFinalize(part_seq) /\ part_seq' = part_seq + 1
        BY <1>5, <2>3, <3>2 DEF MainJoin, NextSeq
      <4>2. QED BY <1>0, <2>1, <4>1, StartKeepsGroups
    <3>3. CASE ~src.chunked
      <4>1. StartFinalize(CleanPack) /\ part_seq' = part_seq
        BY <1>5, <2>3, <3>3 DEF MainJoin
      <4>2. QED BY <2>1, <2>3, <3>1, <4>1, StartKeepsGroups
    <3>4. QED BY <3>2, <3>3
  <2>4. QED BY <2>1, <2>2, <2>3
<1>6. CASE FinalDrain
  <2>1. mpc = "finalize" /\ DrainShards(mpc = "finalize") /\ UNCHANGED <<tpc, mpc>>
    BY <1>6 DEF FinalDrain, DrainShards
  <2>2. ckpt'.alg = ckpt.alg /\ ckpt'.group = ckpt.group /\ UNCHANGED <<parts, part_seq>>
    BY <2>1 DEF DrainShards, IInv, TypeOK
  <2>3. QED BY <2>1, <2>2, GroupsFrame
<1>7. CASE FinalPublish
  <2>1. /\ mpc = "finalize" /\ PublishPart(mpc = "finalize") /\ tpc' = tpc
        /\ mpc' = "finalize" => ~LastAlgo
    BY <1>7 DEF FinalPublish, PublishPart
  <2>2. tpc = "none" BY <2>1 DEF IInv, Control
  <2>3. QED BY <1>0, <2>1, <2>2, PublishKeepsGroups
<1>8. CASE FinalThrows
  <2>1. tpc' # "ckpt" /\ mpc' = "unwind_err" /\ UNCHANGED <<parts, part_seq>>
    BY <1>8 DEF FinalThrows, IInv, Control
  <2>2. QED BY <2>1 DEF Groups
<1>9. CASE ~(PoolJoin \/ CheckpointDrain \/ CheckpointPublish \/ CheckpointThrows)
           /\ ~(MainJoin \/ FinalDrain \/ FinalPublish \/ FinalThrows)
  <2>1. /\ UNCHANGED <<ckpt, parts, part_seq>>
        /\ tpc' = "ckpt" => tpc = "ckpt"
        /\ mpc' = "finalize" => mpc = "finalize"
    BY <1>9 DEF Next, Writer, NextBlock, EndOfMember, SourceError, WriteCheck, WriteWait,
       Copy, SubmitWait, SubmitLaunch, EofJoin, CloseCheck, CloseWait, WriterFails,
       Carver, CarveNothing, BadHeader, Paginate, CarvePage, PoolAborts,
       CarveFails, CarveClear, Main, RemoveSpool, Exit, ExitCode, Ended, vars, diskVars
  <2>2. QED BY <1>0, <2>1, GroupsFrame
<1>10. QED BY <1>1, <1>2, <1>3, <1>4, <1>5, <1>6, <1>7, <1>8, <1>9

-----------------------------------------------------------------------------
(* The spool: the last finalize_algo sequence empties it. *)

LEMMA SpoolStep == ASSUME IInv, Spool, Next PROVE Spool'
<1>1. CASE Writer
  <2>1. UNCHANGED <<shards, ckpt, mpc>>
    BY <1>1 DEF Writer, NextBlock, EndOfMember, SourceError, WriteCheck, WriteWait,
       Copy, SubmitWait, SubmitLaunch, EofJoin, CloseCheck, CloseWait, WriterFails,
       diskVars
  <2>2. QED BY <2>1 DEF Spool
<1>2. CASE Carver
  <2>1. tpc \notin {"none", "done"} /\ mpc' \in {mpc, "aborted"}
    BY <1>2 DEF Carver, CarveNothing, BadHeader, Paginate, CarvePage, PoolAborts,
       PoolJoin, CheckpointDrain, DrainShards, CheckpointPublish, PublishPart,
       CheckpointThrows, CarveFails, CarveClear
  <2>2. mpc \notin {"finalize", "unwind_ok", "destroy_ok", "exit0"}
    BY <2>1 DEF IInv, Control
  <2>3. QED BY <2>1, <2>2 DEF Spool
<1>3. CASE MainJoin
  <2>1. mpc' \in {"unwind_err", "finalize"} BY <1>3 DEF MainJoin
  <2>2. mpc' = "finalize" => ckpt'.alg = 1 /\ ckpt'.step = "drain"
    BY <1>3 DEF MainJoin, StartFinalize
  <2>3. QED BY <2>1, <2>2 DEF Spool
<1>4. CASE FinalDrain
  <2>1. mpc = "finalize" /\ mpc' = mpc /\ DrainShards(mpc = "finalize")
    BY <1>4 DEF FinalDrain, DrainShards
  <2>2. ckpt.alg \in 1..3 BY <2>1 DEF IInv, Control
  <2>3. shards \in [Algo -> SUBSET Record] BY DEF IInv, TypeOK
  <2>4. shards' = [shards EXCEPT ![AlgoOrder[ckpt.alg]] = {}]
    BY <2>1 DEF DrainShards, CurrentAlgo
  <2>5. \A i \in 1..3 : AlgoOrder[i] \in Algo BY DEF Algo, AlgoOrder
  <2>6. ckpt'.alg = ckpt.alg BY <2>1, <2>2, DrainTypes DEF IInv
  <2>7. ASSUME NEW i \in 1..3, i <= ckpt.alg PROVE shards'[AlgoOrder[i]] = {}
    <3>1. CASE i = ckpt.alg BY <2>3, <2>4, <2>5, <3>1
    <3>2. CASE i < ckpt.alg
      <4>1. shards[AlgoOrder[i]] = {} BY <2>1, <3>2 DEF Spool
      <4>2. QED BY <2>3, <2>4, <2>5, <4>1
    <3>3. QED BY <2>2, <2>7, <3>1, <3>2
  <2>8. QED BY <2>1, <2>2, <2>6, <2>7 DEF Spool
<1>5. CASE FinalPublish
  <2>1. /\ mpc = "finalize" /\ PublishPart(mpc = "finalize")
        /\ mpc' = IF LastAlgo THEN "unwind_ok" ELSE "finalize"
    BY <1>5 DEF FinalPublish, PublishPart
  <2>2. /\ ckpt.alg \in 1..3 /\ ckpt.step = "publish" /\ shards' = shards
        /\ ~LastAlgo => ckpt' = [ckpt EXCEPT !.alg = @ + 1, !.step = "drain",
                                             !.payload = {}]
    BY <2>1 DEF IInv, Control, PublishPart
  <2>3. ckpt \in [alg : 0..3, step : {"drain", "publish"},
                  group : Nat \union {CleanPack}, payload : SUBSET Record]
    BY DEF IInv, TypeOK
  <2>4. \A i \in 1..3 : i <= ckpt.alg => shards[AlgoOrder[i]] = {}
    BY <2>1, <2>2 DEF Spool
  <2>5. CASE LastAlgo
    <3>1. ckpt.alg = 3 BY <2>5 DEF LastAlgo, AlgoOrder
    <3>2. \A a \in Algo : \E i \in 1..3 : a = AlgoOrder[i]
      <4>1. AlgoOrder[1] = "md5" /\ AlgoOrder[2] = "sha1" /\ AlgoOrder[3] = "sha256"
        BY DEF AlgoOrder
      <4>2. QED BY <4>1 DEF Algo
    <3>3. \A a \in Algo : shards[a] = {} BY <2>4, <3>1, <3>2
    <3>4. QED BY <2>1, <2>2, <2>5, <3>3 DEF Spool
  <2>6. CASE ~LastAlgo
    <3>1. ckpt'.alg = ckpt.alg + 1 /\ ckpt'.step = "drain" BY <2>2, <2>3, <2>6
    <3>2. QED BY <2>1, <2>2, <2>4, <2>6, <3>1 DEF Spool
  <2>7. QED BY <2>5, <2>6
<1>6. CASE FinalThrows BY <1>6 DEF FinalThrows, Spool
<1>7. CASE RemoveSpool
  <2>1. shards' = [a \in Algo |-> {}] /\ mpc' # "finalize" BY <1>7 DEF RemoveSpool
  <2>2. QED BY <2>1 DEF Spool
<1>8. CASE Exit BY <1>8 DEF Exit, ExitCode, Spool, diskVars
<1>9. CASE Ended BY <1>9 DEF Ended, vars, diskVars, Spool
<1>10. QED BY <1>1, <1>2, <1>3, <1>4, <1>5, <1>6, <1>7, <1>8, <1>9 DEF Next, Main

-----------------------------------------------------------------------------
(* The digests: where they are between the page and the pack. *)

LEMMA PageUnitsInjective ==
    ASSUME NEW p \in Page, NEW q \in Page, PageUnits(p) = PageUnits(q)
    PROVE  p = q
<1>1. PageSize \in Nat \ {0} /\ p \in Nat /\ q \in Nat BY SizesAssumption DEF Page
<1>2. PageUnits(p)[1] = p * PageSize + 1 - 1 /\ PageUnits(q)[1] = q * PageSize + 1 - 1
  BY <1>1 DEF PageUnits
<1>3. p * PageSize \in Nat /\ q * PageSize \in Nat BY <1>1
<1>4. p * PageSize = q * PageSize BY <1>2, <1>3
<1>5. QED BY <1>1, <1>4, MulInjective

\* A worker scans a page of the image and offers the rows of that page.
LEMMA CarvePageScans ==
    ASSUME IInv, CarvePage
    PROVE  \E q \in Image :
               /\ pending' = pending \union RowsOn[q]
               /\ ScannedPages' = ScannedPages \union {q}
               /\ ScannedRows' = ScannedRows \union RowsOn[q]
<1>1. PICK p \in todo :
        /\ scanned' = scanned \union
             {[units |-> SubSeq(View, p.off + 1, p.off + PageSize), page1 |-> p.page1]}
        /\ pending' = pending \union
             RowsRead(SubSeq(View, p.off + 1, p.off + PageSize), p.page1)
  BY DEF CarvePage
<1>2. PICK q \in Image : IsPage(p, q) BY DEF CarvePage, IInv, TodoIntact
<1>3. SubSeq(View, p.off + 1, p.off + PageSize) = PageUnits(q) /\ p.page1 = (q = 0)
  BY <1>2, UnitsRead DEF IsPage
<1>4. q \in Page BY DEF Image
<1>5. /\ scanned' = scanned \union {[units |-> PageUnits(q), page1 |-> q = 0]}
      /\ pending' = pending \union RowsRead(PageUnits(q), q = 0)
  BY <1>1, <1>3, Zenon
<1>6. \A x \in Page : PageUnits(q) = PageUnits(x) <=> x = q
  BY <1>4, PageUnitsInjective
<1>7. RowsRead(PageUnits(q), q = 0) = RowsOn[q]
  <2>1. {x \in Page : PageUnits(q) = PageUnits(x) /\ (q = 0) = (x = 0)} = {q}
    BY <1>4, <1>6
  <2>2. QED BY <2>1 DEF RowsRead
<1>8. ScannedPages' = ScannedPages \union {q}
  <2>1. ASSUME NEW x \in Page
        PROVE  [units |-> PageUnits(x), page1 |-> x = 0] \in scanned' <=>
                 [units |-> PageUnits(x), page1 |-> x = 0] \in scanned \/ x = q
    <3>1. [units |-> PageUnits(x), page1 |-> x = 0]
            = [units |-> PageUnits(q), page1 |-> q = 0] <=> x = q
      BY <1>6
    <3>2. QED BY <1>5, <3>1
  <2>2. QED BY <1>4, <2>1 DEF ScannedPages
<1>9. ScannedRows' = ScannedRows \union RowsOn[q]
  BY <1>8 DEF ScannedRows, RowsIn
<1>10. QED BY <1>5, <1>7, <1>8, <1>9

LEMMA FailingStays ==
    ASSUME Next, Failing
    PROVE  Failing'
<1>1. CASE Writer
  BY <1>1 DEF Failing, Writer, NextBlock, EndOfMember, SourceError, WriteCheck, WriteWait,
     Copy, SubmitWait, SubmitLaunch, PreviousJoined, EofJoin, CloseCheck, CloseWait,
     WriterFails
<1>2. CASE Carver
  BY <1>2 DEF Failing, Carver, CarveNothing, BadHeader, Paginate, CarvePage, PoolAborts,
     PoolJoin, CheckpointDrain, CheckpointPublish, PublishPart, CheckpointThrows,
     CarveFails, CarveClear
<1>3. CASE Main
  BY <1>3 DEF Failing, Main, MainJoin, FinalDrain, DrainShards, FinalPublish, PublishPart,
     FinalThrows, RemoveSpool, Exit, ExitCode
<1>4. CASE Ended BY <1>4 DEF Ended, vars, Failing
<1>5. QED BY <1>1, <1>2, <1>3, <1>4 DEF Next

\* On a disk that takes every write digests move from the shards to the payload
\* and from there to the pack.
LEMMA DrainStores ==
    ASSUME ~DiskMayFill, IInv, ckpt.alg \in 1..3, NEW at \in BOOLEAN, DrainShards(at),
           pending' = pending
    PROVE  \A a \in Algo : Stored(a)' = Stored(a)
<1>1. CurrentAlgo \in Algo BY TurnFacts DEF IInv
<1>2. shards \in [Algo -> SUBSET Record]
      /\ ckpt \in [alg : 0..3, step : {"drain", "publish"},
                   group : Nat \union {CleanPack}, payload : SUBSET Record]
  BY DEF IInv, TypeOK
<1>3. /\ ckpt.step = "drain" /\ parts' = parts
      /\ ckpt' = [ckpt EXCEPT !.step = "publish", !.payload = shards[CurrentAlgo]]
      /\ shards' = [shards EXCEPT ![CurrentAlgo] = {}]
  BY WrittenFacts DEF DrainShards
<1>4. ckpt'.alg = ckpt.alg /\ ckpt'.step = "publish" /\ ckpt'.payload = shards[CurrentAlgo]
  BY <1>2, <1>3
<1>5. CurrentAlgo' = CurrentAlgo BY <1>4 DEF CurrentAlgo
<1> SUFFICES ASSUME NEW a \in Algo PROVE Stored(a)' = Stored(a)
  OBVIOUS
<1>6. Published(a)' = Published(a) BY <1>3 DEF Published
<1>7. Unpublished(a)' = shards'[a] \union pending \union
                         (IF CurrentAlgo = a THEN shards[CurrentAlgo] ELSE {})
  BY <1>4, <1>5 DEF Unpublished
<1>8. Unpublished(a) = shards[a] \union pending BY <1>3 DEF Unpublished
<1>9. Unpublished(a)' = Unpublished(a)
  <2>1. CASE a = CurrentAlgo
    <3>1. shards'[a] = {} BY <1>1, <1>2, <1>3, <2>1
    <3>2. QED BY <1>7, <1>8, <2>1, <3>1
  <2>2. CASE a # CurrentAlgo
    <3>1. shards'[a] = shards[a] BY <1>2, <1>3, <2>2
    <3>2. QED BY <1>7, <1>8, <2>2, <3>1
  <2>3. QED BY <2>1, <2>2
<1>10. QED BY <1>6, <1>9 DEF Stored

LEMMA PublishStores ==
    ASSUME ~DiskMayFill, IInv, Groups, tpc = "ckpt" \/ mpc = "finalize",
           NEW at \in BOOLEAN, PublishPart(at), pending' = pending
    PROVE  \A a \in Algo :
               /\ Stored(a)' = Stored(a)
               /\ Published(a)' = Published(a) \union
                    (IF a = CurrentAlgo THEN ckpt.payload ELSE {})
<1>1. /\ ckpt.alg \in 1..3 /\ ckpt.step = "publish" /\ shards' = shards
      /\ parts' = parts \union {[group |-> ckpt.group, alg |-> CurrentAlgo,
                                 rows |-> ckpt.payload]}
      /\ ~LastAlgo => ckpt' = [ckpt EXCEPT !.alg = @ + 1, !.step = "drain",
                                           !.payload = {}]
      /\ LastAlgo => ckpt' = Idle
  BY PublishAdds
<1>2. ckpt'.step = "drain"
  <2>1. ckpt \in [alg : 0..3, step : {"drain", "publish"},
                  group : Nat \union {CleanPack}, payload : SUBSET Record]
    BY DEF IInv, TypeOK
  <2>2. CASE LastAlgo BY <1>1, <2>2 DEF Idle
  <2>3. CASE ~LastAlgo
    <3>1. ckpt' = [ckpt EXCEPT !.alg = @ + 1, !.step = "drain", !.payload = {}]
      BY <1>1, <2>3
    <3>2. QED BY <2>1, <3>1
  <2>4. QED BY <2>2, <2>3
<1> SUFFICES ASSUME NEW a \in Algo
             PROVE  /\ Stored(a)' = Stored(a)
                    /\ Published(a)' = Published(a) \union
                         (IF a = CurrentAlgo THEN ckpt.payload ELSE {})
  OBVIOUS
<1>3. Published(a)' = Published(a) \union (IF a = CurrentAlgo THEN ckpt.payload ELSE {})
  <2> DEFINE new == [group |-> ckpt.group, alg |-> CurrentAlgo, rows |-> ckpt.payload]
             of == {x \in parts : x.alg = a}
             ofNext == {x \in parts' : x.alg = a}
  <2>1. Published(a) = UNION {p.rows : p \in of} BY DEF Published
  <2>2. Published(a)' = UNION {p.rows : p \in ofNext} BY DEF Published
  <2>3. new.rows = ckpt.payload /\ new.alg = CurrentAlgo OBVIOUS
  <2>4. parts' = parts \union {new} BY <1>1
  <2> HIDE DEF new
  <2>5. CASE a = CurrentAlgo
    <3>1. ofNext = of \union {new} BY <2>3, <2>4, <2>5
    <3> HIDE DEF of, ofNext
    <3>2. QED BY <2>1, <2>2, <2>3, <2>5, <3>1
  <2>6. CASE a # CurrentAlgo
    <3>1. ofNext = of BY <2>3, <2>4, <2>6
    <3> HIDE DEF of, ofNext
    <3>2. QED BY <2>1, <2>2, <2>6, <3>1
  <2>7. QED BY <2>5, <2>6
<1>4. Unpublished(a)' = shards[a] \union pending BY <1>1, <1>2 DEF Unpublished
<1>5. Unpublished(a) = shards[a] \union pending \union
                        (IF a = CurrentAlgo THEN ckpt.payload ELSE {})
  BY <1>1 DEF Unpublished
<1>6. Stored(a)' = Stored(a) BY <1>3, <1>4, <1>5 DEF Stored
<1>7. QED BY <1>3, <1>6

\* Where scanning adds nothing it suffices to look at what is stored.
LEMMA RowsFrame ==
    ASSUME ~DiskMayFill, Rows, Next, scanned' = scanned,
           \A a \in Algo : Stored(a)' \subseteq Stored(a),
           ~Failing' => \A a \in Algo : Stored(a) \subseteq Stored(a)'
    PROVE  Rows'
<1>1. ScannedRows' = ScannedRows BY DEF ScannedRows, ScannedPages
<1>2. \A a \in Algo : Stored(a)' \subseteq ScannedRows' BY <1>1 DEF Rows
<1>3. ASSUME ~Failing' PROVE \A a \in Algo : ScannedRows' \subseteq Stored(a)'
  <2>1. ~Failing BY <1>3, FailingStays
  <2>2. \A a \in Algo : ScannedRows \subseteq Stored(a) BY <2>1 DEF Rows
  <2>3. QED BY <1>1, <1>3, <2>2
<1>4. QED BY <1>2, <1>3 DEF Rows

LEMMA RowsStep == ASSUME IInv, Phases, Groups, Spool, Rows, Next PROVE Rows'
<1> SUFFICES ASSUME ~DiskMayFill PROVE Rows'
  BY DEF Rows
<1>0. tpc # "none" => mpc \notin {"finalize", "unwind_ok"} BY DEF IInv, Control
<1>1. CASE CarvePage
  <2>1. PICK q \in Image : /\ pending' = pending \union RowsOn[q]
                           /\ ScannedRows' = ScannedRows \union RowsOn[q]
    BY <1>1, CarvePageScans
  <2>2. UNCHANGED <<shards, ckpt, parts, error, tpc, mpc>> BY <1>1 DEF CarvePage, diskVars
  <2>3. \A a \in Algo : Stored(a)' = Stored(a) \union RowsOn[q]
    BY <2>1, <2>2 DEF Stored, Unpublished, Published, CurrentAlgo
  <2>4. Failing' <=> Failing BY <2>2 DEF Failing
  <2>5. QED BY <2>1, <2>3, <2>4 DEF Rows
<1>2. CASE PoolJoin
  <2>1. /\ tpc = "pool" /\ pending' = {} /\ UNCHANGED <<parts, scanned>>
        /\ ckpt'.step = "drain" \/ ckpt' = ckpt
    BY <1>2 DEF PoolJoin, StartFinalize
  <2>2. PICK kept \in [Algo -> Written(pending)] :
           shards' = [a \in Algo |-> shards[a] \union kept[a]]
    BY <1>2 DEF PoolJoin, Appended
  <2>3. ckpt.step # "publish" /\ ckpt'.step # "publish" BY <1>0, <2>1 DEF Phases
  <2>4. ASSUME NEW a \in Algo
        PROVE  /\ Stored(a)' = shards[a] \union kept[a] \union Published(a)
               /\ Stored(a) = shards[a] \union pending \union Published(a)
    BY <2>1, <2>2, <2>3 DEF Stored, Unpublished, Published
  <2>5. \A a \in Algo : kept[a] = pending BY <2>2, WrittenFacts
  <2>6. \A a \in Algo : Stored(a)' = Stored(a) BY <2>4, <2>5
  <2>7. QED BY <2>1, <2>6, RowsFrame
<1>3. CASE CheckpointDrain
  <2>1. /\ ckpt.alg \in 1..3 /\ DrainShards(tpc = "ckpt")
        /\ UNCHANGED <<pending, scanned>>
    BY <1>3 DEF CheckpointDrain, DrainShards, carveVars, IInv, Control
  <2>2. \A a \in Algo : Stored(a)' = Stored(a) BY <2>1, DrainStores
  <2>3. QED BY <2>1, <2>2, RowsFrame
<1>4. CASE FinalDrain
  <2>1. /\ ckpt.alg \in 1..3 /\ DrainShards(mpc = "finalize")
        /\ UNCHANGED <<pending, scanned>>
    BY <1>4 DEF FinalDrain, DrainShards, carveVars, IInv, Control
  <2>2. \A a \in Algo : Stored(a)' = Stored(a) BY <2>1, DrainStores
  <2>3. QED BY <2>1, <2>2, RowsFrame
<1>5. CASE CheckpointPublish
  <2>1. /\ tpc = "ckpt" /\ PublishPart(tpc = "ckpt") /\ UNCHANGED <<pending, scanned>>
    BY <1>5 DEF CheckpointPublish, PublishPart, carveVars
  <2>2. \A a \in Algo : Stored(a)' = Stored(a) BY <2>1, PublishStores
  <2>3. QED BY <2>1, <2>2, RowsFrame
<1>6. CASE FinalPublish
  <2>1. /\ mpc = "finalize" /\ PublishPart(mpc = "finalize")
        /\ UNCHANGED <<pending, scanned>>
    BY <1>6 DEF FinalPublish, PublishPart, carveVars
  <2>2. \A a \in Algo : Stored(a)' = Stored(a) BY <2>1, PublishStores
  <2>3. QED BY <2>1, <2>2, RowsFrame
<1>7. CASE CheckpointThrows \/ FinalThrows
  <2>1. /\ UNCHANGED <<shards, pending, parts, scanned>> /\ ckpt'.step = "drain"
        /\ tpc' = "throw" \/ mpc' = "unwind_err"
    BY <1>7 DEF CheckpointThrows, FinalThrows, Idle, carveVars
  <2>2. Failing' BY <2>1 DEF Failing
  <2>3. \A a \in Algo : Stored(a)' \subseteq Stored(a)
    BY <2>1 DEF Stored, Unpublished, Published
  <2>4. QED BY <2>1, <2>2, <2>3, RowsFrame
<1>8. CASE RemoveSpool
  <2>1. /\ UNCHANGED <<ckpt, parts, scanned>> /\ pending' \subseteq pending
        /\ shards' = [a \in Algo |-> {}]
        /\ mpc = "unwind_ok" \/ mpc' = "destroy_err"
    BY <1>8 DEF RemoveSpool
  <2>2. \A a \in Algo : Stored(a)' \subseteq Stored(a)
    BY <2>1 DEF Stored, Unpublished, Published, CurrentAlgo
  <2>3. ASSUME ~Failing' PROVE \A a \in Algo : Stored(a) \subseteq Stored(a)'
    <3>1. mpc = "unwind_ok" BY <2>1, <2>3 DEF Failing
    <3>2. \A a \in Algo : shards[a] = {} BY <3>1 DEF Spool
    <3>3. pending = {} BY <1>0, <3>1 DEF Phases
    <3>4. QED BY <2>1, <3>2, <3>3 DEF Stored, Unpublished, Published, CurrentAlgo
  <2>4. QED BY <2>1, <2>2, <2>3, RowsFrame
<1>9. CASE MainJoin
  <2>1. /\ UNCHANGED <<shards, pending, parts, scanned, tpc>> /\ mpc = "join"
        /\ ckpt' = ckpt \/ (ckpt'.step = "drain" /\ wpc = "closed")
    BY <1>9 DEF MainJoin, WriterEnded, WriterRaised, StartFinalize, carveVars
  <2>2. wpc = "closed" => tpc = "none" BY DEF IInv, Control
  <2>3. ckpt' = ckpt \/ (ckpt'.step # "publish" /\ ckpt.step # "publish")
    BY <2>1, <2>2 DEF Phases
  <2>4. \A a \in Algo : Stored(a)' = Stored(a)
    BY <2>1, <2>3 DEF Stored, Unpublished, Published, CurrentAlgo
  <2>5. QED BY <2>1, <2>4, RowsFrame
<1>10. CASE ~(CarvePage \/ PoolJoin \/ CheckpointDrain \/ CheckpointPublish
              \/ CheckpointThrows)
            /\ ~(MainJoin \/ FinalDrain \/ FinalPublish \/ FinalThrows \/ RemoveSpool)
  <2>1. tpc = "start" => pending = {} BY DEF Phases
  <2>2. UNCHANGED <<shards, pending, ckpt, parts, scanned>>
    BY <1>10, <2>1 DEF Next, Writer, NextBlock, EndOfMember, SourceError, WriteCheck,
       WriteWait, Copy, SubmitWait, SubmitLaunch, EofJoin, CloseCheck, CloseWait,
       WriterFails, Carver, CarveNothing, BadHeader, Paginate, PoolAborts, CarveFails,
       CarveClear, Main, Exit, Ended, vars, carveVars, diskVars
  <2>3. \A a \in Algo : Stored(a)' = Stored(a)
    BY <2>2 DEF Stored, Unpublished, Published, CurrentAlgo
  <2>4. QED BY <2>2, <2>3, RowsFrame
<1>11. QED BY <1>1, <1>2, <1>3, <1>4, <1>5, <1>6, <1>7, <1>8, <1>9, <1>10

-----------------------------------------------------------------------------
LEMMA StepSInv == SInv /\ [Next]_vars => SInv'
<1> SUFFICES ASSUME SInv, [Next]_vars PROVE SInv'
  OBVIOUS
<1>1. IInv' BY StepIInv DEF SInv
<1>2. CASE Next
  <2>1. Phases' BY <1>2, PhasesStep DEF SInv
  <2>2. Groups' BY <1>2, GroupsStep DEF SInv
  <2>3. Spool' BY <1>2, SpoolStep DEF SInv
  <2>4. Rows' BY <1>2, RowsStep DEF SInv
  <2>5. Covered' BY <1>1, <1>2, CoveredStep DEF SInv
  <2>6. Last' BY <1>2, LastStep DEF SInv
  <2>7. QED BY <1>1, <2>1, <2>2, <2>3, <2>4, <2>5, <2>6 DEF SInv
<1>3. CASE UNCHANGED vars
  <2>1. UNCHANGED <<src, wpc, blk, wr, closing, arena, fill_idx, fill_used, carving, error,
                    header_ok, db_offset, prefix, buf, todo, pending, offered, scanned,
                    shards, resident, parts, ckpt, part_seq, tpc, job, mpc>>
    BY <1>3 DEF vars, writerVars, arenaVars, carveVars, diskVars
  <2>2. Phases' BY <2>1 DEF SInv, Phases
  <2>3. Groups' BY <2>1 DEF SInv, Groups
  <2>4. Spool' BY <2>1 DEF SInv, Spool
  <2>5. Rows' BY <2>1 DEF SInv, Rows, Stored, Unpublished, Published, CurrentAlgo,
                          ScannedRows, ScannedPages, Failing
  <2>6. Covered'
    <3>1. View' = View /\ ScannedPages' = ScannedPages BY <2>1 DEF View, Live, ScannedPages
    <3>2. \A p, q : IsPage(p, q)' = IsPage(p, q) BY <3>1 DEF IsPage
    <3>3. Covered BY DEF SInv
    <3>4. QED BY <2>1, <3>1, <3>2, <3>3, Zenon DEF Covered, Image
  <2>7. Last' BY <2>1 DEF SInv, Last
  <2>8. QED BY <1>1, <2>2, <2>3, <2>4, <2>5, <2>6, <2>7 DEF SInv
<1>4. QED BY <1>2, <1>3

LEMMA ScanInvariance == Spec => []SInv
  BY InitSInv, StepSInv, PTL DEF Spec

\* finalize_algo renames no pack over one that is there, whichever thread runs
\* it and however many checkpoints there have been: the uploader may take a part
\* the moment it appears.
THEOREM PartsAreImmutable == Spec => PartsImmutable
<1>1. SInv /\ [Next]_vars => parts \subseteq parts'
  <2> SUFFICES ASSUME SInv, [Next]_vars PROVE parts \subseteq parts'
    OBVIOUS
  <2>1. CASE CheckpointPublish
    <3>1. tpc = "ckpt" /\ PublishPart(tpc = "ckpt")
      BY <2>1 DEF CheckpointPublish, PublishPart
    <3>2. QED BY <3>1, PublishAdds DEF SInv
  <2>2. CASE FinalPublish
    <3>1. mpc = "finalize" /\ PublishPart(mpc = "finalize")
      BY <2>2 DEF FinalPublish, PublishPart
    <3>2. QED BY <3>1, PublishAdds DEF SInv
  <2>3. CASE ~CheckpointPublish /\ ~FinalPublish
    BY <2>3 DEF Next, Writer, NextBlock, EndOfMember, SourceError, WriteCheck, WriteWait,
       Copy, SubmitWait, SubmitLaunch, EofJoin, CloseCheck, CloseWait, WriterFails,
       Carver, CarveNothing, BadHeader, Paginate, CarvePage, PoolAborts, PoolJoin,
       CheckpointDrain, DrainShards, CheckpointThrows, CarveFails, CarveClear,
       Main, MainJoin, FinalDrain, FinalThrows, RemoveSpool, Exit, Ended, vars, diskVars
  <2>4. QED BY <2>1, <2>2, <2>3
<1>2. QED BY <1>1, ScanInvariance, PTL DEF Spec, PartsImmutable

\* On a disk that takes every write no digest of a scanned page is lost between
\* the pool and the packs as long as nothing has failed.
THEOREM NothingLost == ASSUME ~DiskMayFill PROVE Spec => []NoDigestLost
<1>1. SInv => NoDigestLost
  <2> SUFFICES ASSUME SInv, ~Failing, NEW a \in Algo
               PROVE  Unpublished(a) \union Published(a) = ScannedRows
    BY DEF NoDigestLost
  <2>1. Stored(a) = ScannedRows BY DEF SInv, Rows
  <2>2. QED BY <2>1 DEF Stored
<1>2. QED BY <1>1, ScanInvariance, PTL

\* Every page of the image lies below the offset the last carve leaves.

LEMMA OnlyImagePages == ASSUME SInv PROVE ScannedPages \subseteq Image
<1>1. SUFFICES ASSUME NEW q \in ScannedPages PROVE q \in Image
  OBVIOUS
<1>2. q \in Page /\ [units |-> PageUnits(q), page1 |-> q = 0] \in scanned
  BY DEF ScannedPages
<1>3. PICK p \in Image : PageUnits(q) = PageUnits(p)
  BY <1>2 DEF SInv, IInv, PagesIntact
<1>4. p \in Page BY DEF Image
<1>5. QED BY <1>2, <1>3, <1>4, PageUnitsInjective

LEMMA AllPagesScanned ==
    ASSUME SInv, mpc \in {"destroy_ok", "exit0"}
    PROVE  ScannedPages = Image
<1>1. wpc = "closed" /\ tpc = "none" /\ ~error
  BY DEF SInv, IInv, Control, Phases
<1>2. src.len < db_offset + PageSize BY <1>1 DEF SInv, Last
<1>3. PageSize \in Nat \ {0} BY SizesAssumption
<1>4. PICK q0 \in Nat : db_offset = q0 * PageSize BY DEF SInv, IInv, Stream, Aligned
<1>5. src.len \in Nat BY SrcLen, SizesAssumption DEF SInv, IInv, TypeOK
<1>6. ASSUME NEW q \in Image PROVE q \in ScannedPages
  <2>1. q \in Nat /\ q * PageSize \in Nat /\ q * PageSize + PageSize <= src.len
    BY <1>3 DEF Image, Page
  <2>2. q * PageSize < q0 * PageSize
    <3>1. q0 * PageSize \in Nat BY <1>3
    <3>2. QED BY <1>2, <1>3, <1>4, <1>5, <2>1, <3>1
  <2>3. q + 1 <= q0
    <3> SUFFICES ASSUME q0 <= q PROVE FALSE
      BY <1>4, <2>1
    <3>1. q0 * PageSize <= q * PageSize /\ q0 * PageSize \in Nat
      BY <1>3, <1>4, <2>1, MulMonotone
    <3>2. QED BY <2>1, <2>2, <3>1
  <2>4. (q + 1) * PageSize <= q0 * PageSize BY <1>3, <1>4, <2>1, <2>3, MulMonotone
  <2>5. (q + 1) * PageSize = q * PageSize + PageSize BY <1>3, <2>1
  <2>6. q * PageSize + PageSize <= db_offset BY <1>4, <2>4, <2>5
  <2>7. QED BY <1>1, <2>6 DEF SInv, Covered
<1>7. QED BY <1>6, OnlyImagePages

LEMMA PacksComplete ==
    ASSUME SInv, ~DiskMayFill, mpc \in {"destroy_ok", "exit0"}
    PROVE  \A a \in Algo : Published(a) = RowsIn(Image)
<1>1. wpc = "closed" /\ tpc = "none" /\ ~error
  BY DEF SInv, IInv, Control, Phases
<1>2. ~Failing BY <1>1 DEF Failing
<1>3. pending = {} /\ ckpt.step # "publish" /\ \A a \in Algo : shards[a] = {}
  BY <1>1 DEF SInv, Phases, Spool
<1>4. ASSUME NEW a \in Algo PROVE Published(a) = ScannedRows
  <2>1. Stored(a) = ScannedRows BY <1>2 DEF SInv, Rows
  <2>2. QED BY <1>3, <2>1 DEF Stored, Unpublished
<1>5. QED BY <1>4, AllPagesScanned DEF ScannedRows

\* On a disk that takes every write a pack holds digests of pages of the image
\* only, in a run that fails as in one that succeeds: no digest is made from bytes
\* of two arenas, from a prefix in the wrong place or from what the writer has
\* overwritten (write, carve_arena_, finalize_algo).
THEOREM NothingInvented ==
    ASSUME ~DiskMayFill
    PROVE  Spec => [](\A p \in parts : p.rows \subseteq RowsIn(Image))
<1>1. SInv => \A p \in parts : p.rows \subseteq RowsIn(Image)
  <2> SUFFICES ASSUME SInv, NEW p \in parts PROVE p.rows \subseteq RowsIn(Image)
    OBVIOUS
  <2>1. p.alg \in Algo BY DEF SInv, IInv, TypeOK
  <2>2. p.rows \subseteq Published(p.alg) BY DEF Published
  <2>3. Published(p.alg) \subseteq ScannedRows BY <2>1 DEF SInv, Rows, Stored
  <2>4. ScannedRows \subseteq RowsIn(Image) BY OnlyImagePages DEF ScannedRows, RowsIn
  <2>5. QED BY <2>2, <2>3, <2>4
<1>2. QED BY <1>1, ScanInvariance, PTL

\* Whatever the disk does, an exit status of 0 means that every page of the image
\* was scanned, and nothing else: the arenas' seams and their last page included.
THEOREM SuccessScansAll == Spec => [](mpc = "exit0" => ScannedPages = Image)
<1>1. SInv => (mpc = "exit0" => ScannedPages = Image) BY AllPagesScanned
<1>2. QED BY <1>1, ScanInvariance, PTL

\* An exit status of 0 means that every page of the image was scanned, whatever
\* the sizes, and that every pack family holds exactly the image's digests.
THEOREM SuccessIsExact == ASSUME ~DiskMayFill PROVE Spec => []ExactOnSuccess
<1>1. SInv => ExactOnSuccess BY AllPagesScanned, PacksComplete DEF ExactOnSuccess
<1>2. QED BY <1>1, ScanInvariance, PTL

-----------------------------------------------------------------------------
(* Refinement. *)

LEMMA ScanInit == Init => Abstract!Init
<1> SUFFICES ASSUME Init PROVE Abstract!Init
  OBVIOUS
<1>1. parts = {} /\ scanned = {} /\ mpc = "join" BY Zenon DEF Init
<1>2. Image \in SUBSET Page BY DEF Image
<1>3. ScannedPages = {} BY <1>1 DEF ScannedPages
<1>4. [a \in Algo |-> Published(a)] = [a \in Algo |-> {}] BY <1>1 DEF Published
<1>5. Outcome = "running" BY <1>1 DEF Outcome
<1>6. QED BY <1>2, <1>3, <1>4, <1>5 DEF Abstract!Init

\* A pack is made of digests of scanned pages.
LEMMA PublishRefines ==
    ASSUME ~DiskMayFill, SInv, tpc = "ckpt" \/ mpc = "finalize", NEW at \in BOOLEAN,
           PublishPart(at), UNCHANGED <<src, pending, scanned>>,
           Outcome = "running", Outcome' = "running"
    PROVE  Abstract!Publish
<1>1. \A a \in Algo : Published(a)' = Published(a) \union
                        (IF a = CurrentAlgo THEN ckpt.payload ELSE {})
  BY PublishStores DEF SInv
<1>2. ckpt.step = "publish" /\ CurrentAlgo \in Algo
  BY TurnFacts DEF PublishPart, SInv, IInv, Control
<1>3. ckpt.payload \subseteq ScannedRows
  <2>1. Stored(CurrentAlgo) \subseteq ScannedRows BY <1>2 DEF SInv, Rows
  <2>2. QED BY <1>2, <2>1 DEF Stored, Unpublished
<1>4. ckpt.payload \in SUBSET Abstract!RowsIn(ScannedPages)
  BY <1>3 DEF ScannedRows, RowsIn, Abstract!RowsIn
<1>5. [a \in Algo |-> Published(a)]' = [[a \in Algo |-> Published(a)]
          EXCEPT ![CurrentAlgo] = @ \union ckpt.payload]
  BY <1>1, <1>2
<1>6. Image' = Image /\ ScannedPages' = ScannedPages BY DEF Image, ScannedPages
<1>7. QED BY <1>2, <1>4, <1>5, <1>6 DEF Abstract!Publish

LEMMA ScanStep ==
    ASSUME ~DiskMayFill, SInv, [Next]_vars
    PROVE  [Abstract!Next]_Abstract!vars
<1>0. Image' = Image
  <2>1. src' = src
    BY DEF Next, Writer, NextBlock, EndOfMember, SourceError, WriteCheck, WriteWait,
       Copy, SubmitWait, SubmitLaunch, EofJoin, CloseCheck, CloseWait, WriterFails,
       Carver, CarveNothing, BadHeader, Paginate, CarvePage, PoolAborts, PoolJoin,
       CheckpointDrain, CheckpointPublish, CheckpointThrows, CarveFails, CarveClear,
       Main, MainJoin, FinalDrain, FinalPublish, FinalThrows, RemoveSpool, Exit,
       Ended, vars
  <2>2. QED BY <2>1 DEF Image
<1>1. tpc \notin {"none", "done"} => mpc \notin {"exit0", "exit2"} BY DEF SInv, Phases
<1>2. CASE CarvePage
  <2>1. PICK q \in Image : ScannedPages' = ScannedPages \union {q}
    BY <1>2, CarvePageScans DEF SInv
  <2>2. UNCHANGED <<parts, mpc>> /\ Outcome = "running"
    BY <1>1, <1>2 DEF CarvePage, Alive, diskVars, Outcome
  <2>3. Outcome' = Outcome /\ [a \in Algo |-> Published(a)]' = [a \in Algo |-> Published(a)]
    BY <2>2 DEF Outcome, Published
  <2>4. Abstract!Scan BY <1>0, <2>1, <2>2, <2>3 DEF Abstract!Scan
  <2>5. QED BY <2>4 DEF Abstract!Next
<1>3. CASE CheckpointPublish
  <2>1. /\ tpc = "ckpt" /\ PublishPart(tpc = "ckpt")
        /\ UNCHANGED <<src, pending, scanned, mpc>> /\ Alive
    BY <1>3 DEF CheckpointPublish, PublishPart, carveVars
  <2>2. Outcome = "running" /\ Outcome' = "running" BY <1>1, <2>1 DEF Outcome, Alive
  <2>3. QED BY <2>1, <2>2, PublishRefines DEF Abstract!Next
<1>4. CASE FinalPublish
  <2>1. /\ mpc = "finalize" /\ PublishPart(mpc = "finalize")
        /\ UNCHANGED <<src, pending, scanned>> /\ mpc' \in {"finalize", "unwind_ok"}
    BY <1>4 DEF FinalPublish, PublishPart, carveVars
  <2>2. Outcome = "running" /\ Outcome' = "running" BY <2>1 DEF Outcome
  <2>3. QED BY <2>1, <2>2, PublishRefines DEF Abstract!Next
<1>5. CASE ~CarvePage /\ ~CheckpointPublish /\ ~FinalPublish
  <2>1. UNCHANGED <<parts, scanned>>
    BY <1>5 DEF Next, Writer, NextBlock, EndOfMember, SourceError, WriteCheck, WriteWait,
       Copy, SubmitWait, SubmitLaunch, EofJoin, CloseCheck, CloseWait, WriterFails,
       Carver, CarveNothing, BadHeader, Paginate, PoolAborts, PoolJoin,
       CheckpointDrain, DrainShards, CheckpointThrows, CarveFails, CarveClear,
       Main, MainJoin, FinalDrain, FinalThrows, RemoveSpool, Exit, Ended, vars,
       carveVars, diskVars
  <2>2. ScannedPages' = ScannedPages
        /\ [a \in Algo |-> Published(a)]' = [a \in Algo |-> Published(a)]
    BY <2>1 DEF ScannedPages, Published
  <2>3. CASE Exit \/ PoolAborts
    <3>1. Outcome = "running" BY <1>1, <2>3 DEF Exit, PoolAborts, Alive, Outcome
    <3>2. CASE mpc' = "exit0"
      <4>1. mpc = "destroy_ok" /\ Outcome' = "ok"
        BY <2>3, <3>2 DEF Exit, ExitCode, PoolAborts, Outcome
      <4>2. ScannedPages = Image /\ \A a \in Algo : Published(a) = RowsIn(Image)
        BY <4>1, AllPagesScanned, PacksComplete
      <4>3. Abstract!Succeed
        BY <1>0, <2>2, <3>1, <4>1, <4>2 DEF Abstract!Succeed, RowsIn, Abstract!RowsIn
      <4>4. QED BY <4>3 DEF Abstract!Next
    <3>3. CASE mpc' # "exit0"
      <4>1. Outcome' = "failed"
        BY <2>3, <3>3 DEF Exit, ExitCode, PoolAborts, Outcome
      <4>2. Abstract!Fail BY <1>0, <2>2, <3>1, <4>1 DEF Abstract!Fail
      <4>3. QED BY <4>2 DEF Abstract!Next
    <3>4. QED BY <3>2, <3>3
  <2>4. CASE ~Exit /\ ~PoolAborts
    <3>1. mpc' = mpc \/ (mpc \notin Exits /\ mpc' \notin Exits)
      BY <1>5, <2>4 DEF Next, Writer, NextBlock, EndOfMember, SourceError, WriteCheck,
         WriteWait, Copy, SubmitWait, SubmitLaunch, EofJoin, CloseCheck, CloseWait,
         WriterFails, Carver, CarveNothing, BadHeader, Paginate, PoolJoin,
         CheckpointDrain, CheckpointThrows, CarveFails, CarveClear,
         Main, MainJoin, FinalDrain, FinalThrows, RemoveSpool, Ended, vars, Exits
    <3>2. Outcome' = Outcome BY <3>1 DEF Outcome, Exits
    <3>3. QED BY <1>0, <2>2, <3>2 DEF Abstract!vars
  <2>5. QED BY <2>3, <2>4
<1>6. QED BY <1>2, <1>3, <1>4, <1>5

\* The native engine implements PageScan: it scans pages of the image, publishes
\* digests of scanned pages only and withdraws none, and reports success only
\* when the scan is complete.
THEOREM EngineIsScan == ASSUME ~DiskMayFill PROVE Spec => ImplementsPageScan
<1>1. QED
  BY ScanInit, ScanStep, ScanInvariance, PTL
  DEF Spec, ImplementsPageScan, Abstract!Spec
-----------------------------------------------------------------------------
(* The window: what is not in a part file is counted, and bounded between     *)
(* two batches.                                                               *)

\* The digests of an algorithm on the way from shard files to a pack.
Spooled(a) == shards[a] \union
              (IF ckpt.step = "publish" /\ CurrentAlgo = a THEN ckpt.payload ELSE {})

\* A finalize_algo sequence has emptied the shard files it is past.
Emptied ==
    \A i \in 1..3 : i < ckpt.alg \/ (i = ckpt.alg /\ ckpt.step = "publish") =>
        shards[AlgoOrder[i]] = {}

\* The resident counter covers what is spooled, and a checkpoint brings it down.
Counted ==
    /\ tpc = "ckpt" => Emptied
    /\ src.chunked /\ mpc = "finalize" => ckpt.group # CleanPack
    /\ src.chunked /\ ~Failing => \A a \in Algo : Cardinality(Spooled(a)) <= resident
    /\ src.chunked /\ ~Failing /\ tpc # "ckpt" /\ mpc # "finalize" =>
          resident < CheckpointRows

LEMMA CountedFrame ==
    ASSUME Counted, Next, src' = src, \A a \in Algo : Spooled(a)' = Spooled(a),
           resident' = resident, Emptied => Emptied',
           tpc' = "ckpt" <=> tpc = "ckpt", mpc' = "finalize" <=> mpc = "finalize",
           ckpt'.group = ckpt.group
    PROVE  Counted'
<1>1. ~Failing' => ~Failing BY FailingStays
<1>2. QED BY <1>1 DEF Counted

\* A drain moves digests from the shard files to the payload.
LEMMA DrainSpools ==
    ASSUME ~DiskMayFill, IInv, ckpt.alg \in 1..3, NEW at \in BOOLEAN, DrainShards(at)
    PROVE  /\ \A a \in Algo : Spooled(a)' = Spooled(a)
           /\ ckpt'.group = ckpt.group /\ (Emptied => Emptied')
<1>1. CurrentAlgo \in Algo /\ CurrentAlgo = AlgoOrder[ckpt.alg]
  BY TurnFacts DEF IInv, CurrentAlgo
<1>2. shards \in [Algo -> SUBSET Record]
      /\ ckpt \in [alg : 0..3, step : {"drain", "publish"},
                   group : Nat \union {CleanPack}, payload : SUBSET Record]
  BY DEF IInv, TypeOK
<1>3. /\ ckpt.step = "drain"
      /\ ckpt' = [ckpt EXCEPT !.step = "publish", !.payload = shards[CurrentAlgo]]
      /\ shards' = [shards EXCEPT ![CurrentAlgo] = {}]
  BY WrittenFacts DEF DrainShards
<1>4. /\ ckpt'.alg = ckpt.alg /\ ckpt'.step = "publish" /\ ckpt'.group = ckpt.group
      /\ ckpt'.payload = shards[CurrentAlgo]
  BY <1>2, <1>3
<1>5. CurrentAlgo' = CurrentAlgo BY <1>4 DEF CurrentAlgo
<1>6. \A a \in Algo : shards'[a] = IF a = CurrentAlgo THEN {} ELSE shards[a]
  BY <1>1, <1>2, <1>3
<1>7. \A a \in Algo : Spooled(a)' = Spooled(a)
  BY <1>3, <1>4, <1>5, <1>6 DEF Spooled
<1>8. ASSUME Emptied PROVE Emptied'
  <2> SUFFICES ASSUME NEW i \in 1..3, i <= ckpt.alg PROVE shards'[AlgoOrder[i]] = {}
    BY <1>4 DEF Emptied
  <2>1. AlgoOrder[i] \in Algo BY DEF Algo, AlgoOrder
  <2>2. CASE i = ckpt.alg BY <1>1, <1>6, <2>1, <2>2
  <2>3. CASE i < ckpt.alg
    <3>1. shards[AlgoOrder[i]] = {} BY <1>8, <2>3 DEF Emptied
    <3>2. QED BY <1>6, <2>1, <3>1
  <2>4. QED BY <2>2, <2>3
<1>9. QED BY <1>4, <1>7, <1>8

\* A publication takes the payload away; the last one leaves nothing.
LEMMA PublishSpools ==
    ASSUME IInv, Groups, tpc = "ckpt" \/ mpc = "finalize", Emptied,
           NEW at \in BOOLEAN, PublishPart(at)
    PROVE  /\ \A a \in Algo : Spooled(a)' \subseteq Spooled(a)
           /\ LastAlgo => \A a \in Algo : Spooled(a)' = {}
           /\ ~LastAlgo => Emptied' /\ ckpt'.group = ckpt.group /\ resident' = resident
           /\ LastAlgo /\ ckpt.group # CleanPack => resident' = 0
<1>1. /\ ckpt.alg \in 1..3 /\ ckpt.step = "publish" /\ shards' = shards
      /\ ~LastAlgo => ckpt' = [ckpt EXCEPT !.alg = @ + 1, !.step = "drain",
                                           !.payload = {}]
      /\ LastAlgo => ckpt' = Idle
  BY PublishAdds
<1>2. ckpt \in [alg : 0..3, step : {"drain", "publish"},
                group : Nat \union {CleanPack}, payload : SUBSET Record]
  BY DEF IInv, TypeOK
<1>3. ~LastAlgo => ckpt'.alg = ckpt.alg + 1 /\ ckpt'.step = "drain"
                   /\ ckpt'.group = ckpt.group
  BY <1>1, <1>2
<1>4. ckpt'.step = "drain" BY <1>1, <1>3 DEF Idle
<1>5. \A a \in Algo : Spooled(a)' = shards[a] BY <1>1, <1>4 DEF Spooled
<1>6. \A a \in Algo : shards[a] \subseteq Spooled(a) BY DEF Spooled
<1>7. \A i \in 1..3 : i <= ckpt.alg => shards[AlgoOrder[i]] = {} BY <1>1 DEF Emptied
<1>8. ASSUME LastAlgo PROVE \A a \in Algo : Spooled(a)' = {}
  <2>1. ckpt.alg = 3 BY <1>8 DEF LastAlgo, AlgoOrder
  <2>2. \A a \in Algo : \E i \in 1..3 : a = AlgoOrder[i]
    <3>1. AlgoOrder[1] = "md5" /\ AlgoOrder[2] = "sha1" /\ AlgoOrder[3] = "sha256"
      BY DEF AlgoOrder
    <3>2. QED BY <3>1 DEF Algo
  <2>3. QED BY <1>5, <1>7, <2>1, <2>2
<1>9. ~LastAlgo => Emptied' BY <1>1, <1>3, <1>7 DEF Emptied
<1>10. /\ ~LastAlgo => resident' = resident
       /\ LastAlgo /\ ckpt.group # CleanPack => resident' = 0
  BY DEF PublishPart
<1>11. QED BY <1>3, <1>5, <1>6, <1>8, <1>9, <1>10

LEMMA SpooledFacts ==
    ASSUME IInv, NEW a \in Algo
    PROVE  /\ IsFiniteSet(Spooled(a))
           /\ Cardinality(Spooled(a)) \in Nat /\ IsFiniteSet(pending)
           /\ Cardinality(pending) \in Nat /\ resident \in Nat
<1>1. Spooled(a) \subseteq Record /\ pending \subseteq Row /\ resident \in Nat
  BY DEF Spooled, IInv, TypeOK
<1>2. IsFiniteSet(Record) BY RowsAssumption, FS_Singleton, FS_Union DEF Record
<1>3. QED BY <1>1, <1>2, RowsAssumption, FS_Subset, FS_CardinalityType

\* A flush is counted, so that the counter grows by at least what is added.
LEMMA FlushIsCounted ==
    ASSUME IInv, Phases, Counted, ~DiskMayFill, src.chunked, ~Failing, PoolJoin,
           mpc # "finalize"
    PROVE  /\ \A a \in Algo : Cardinality(Spooled(a)') <= resident'
           /\ tpc' # "ckpt" => resident' < CheckpointRows
<1>1. PICK flushed \in Cardinality(pending)..offered,
           kept \in [Algo -> Written(pending)] :
         /\ shards' = [a \in Algo |-> Appended(a, kept[a])]
         /\ IF CheckpointDue(resident + flushed)
            THEN /\ tpc' = "ckpt"
                 /\ StartFinalize(part_seq) /\ part_seq' = NextSeq
            ELSE tpc' = "clear" /\ UNCHANGED <<ckpt, part_seq>>
         /\ resident' = resident + flushed
  BY DEF PoolJoin
<1>2. flushed \in Nat /\ Cardinality(pending) <= flushed /\ resident \in Nat
  <2>1. Cardinality(pending) \in Nat /\ resident \in Nat BY SpooledFacts DEF Algo
  <2>2. offered \in Nat BY DEF IInv, TypeOK
  <2>3. QED BY <2>1, <2>2
<1>3. ckpt.step # "publish" /\ ckpt'.step # "publish"
  <2>1. tpc = "pool" BY DEF PoolJoin
  <2>2. ckpt.step # "publish" BY <2>1 DEF Phases
  <2>3. ckpt' = ckpt \/ ckpt'.step = "drain" BY <1>1 DEF StartFinalize
  <2>4. QED BY <2>2, <2>3
<1>4. ASSUME NEW a \in Algo PROVE Cardinality(Spooled(a)') <= resident'
  <2>1. Spooled(a)' = shards[a] \union pending /\ Spooled(a) = shards[a]
    BY <1>1, <1>3, WrittenFacts DEF Spooled, Appended
  <2>2. /\ IsFiniteSet(shards[a]) /\ Cardinality(shards[a]) \in Nat
        /\ IsFiniteSet(pending) /\ Cardinality(pending) \in Nat
    BY <2>1, SpooledFacts
  <2>3. Cardinality(shards[a]) <= resident BY <2>1 DEF Counted
  <2>4. /\ Cardinality(shards[a] \union pending)
             = Cardinality(shards[a]) + Cardinality(pending)
                 - Cardinality(shards[a] \cap pending)
        /\ Cardinality(shards[a] \cap pending) \in Nat
    <3>1. IsFiniteSet(shards[a] \cap pending) BY <2>2, FS_Subset
    <3>2. QED BY <2>2, <3>1, FS_Union, FS_CardinalityType
  <2>5. Cardinality(shards[a] \union pending) <= resident + flushed
    BY <1>2, <2>2, <2>3, <2>4
  <2>6. QED BY <1>1, <2>1, <2>5
<1>5. tpc' # "ckpt" => resident' < CheckpointRows
  BY <1>1, <1>2, SizesAssumption DEF CheckpointDue
<1>6. QED BY <1>4, <1>5

LEMMA CountedStep ==
    ASSUME IInv, Phases, Groups, Spool, Counted, ~DiskMayFill, Next
    PROVE  Counted'
<1>0. /\ tpc # "none" => mpc \notin {"finalize", "unwind_ok"}
      /\ wpc = "closed" => tpc = "none"
      /\ tpc = "ckpt" \/ mpc = "finalize" => ckpt.alg \in 1..3
  BY DEF IInv, Control
<1>1. CASE PoolJoin
  <2>1. tpc = "pool" /\ src' = src /\ mpc' = mpc /\ tpc' \in {"ckpt", "clear"}
        /\ (tpc' = "ckpt" => ckpt'.alg = 1 /\ ckpt'.step = "drain")
    BY <1>1 DEF PoolJoin, StartFinalize
  <2>2. tpc' = "ckpt" => Emptied' BY <2>1 DEF Emptied
  <2>3. ~Failing' => ~Failing BY FailingStays
  <2>4. QED BY <1>0, <1>1, <2>1, <2>2, <2>3, FlushIsCounted DEF Counted
<1>2. CASE CheckpointDrain
  <2>1. DrainShards(tpc = "ckpt") /\ tpc = "ckpt" /\ UNCHANGED <<src, tpc, mpc, resident>>
    BY <1>2 DEF CheckpointDrain, DrainShards
  <2>2. QED BY <1>0, <2>1, DrainSpools, CountedFrame
<1>3. CASE FinalDrain
  <2>1. DrainShards(mpc = "finalize") /\ mpc = "finalize"
        /\ UNCHANGED <<src, tpc, mpc, resident>>
    BY <1>3 DEF FinalDrain, DrainShards
  <2>2. QED BY <1>0, <2>1, DrainSpools, CountedFrame
<1>4. CASE CheckpointPublish \/ FinalPublish
  <2>1. PICK at \in BOOLEAN : PublishPart(at)
    BY <1>4 DEF CheckpointPublish, FinalPublish
  <2>2. /\ (tpc = "ckpt" \/ mpc = "finalize") /\ src' = src
        /\ (tpc = "ckpt" => mpc # "finalize" /\ mpc' = mpc
                            /\ tpc' = IF LastAlgo THEN "clear" ELSE "ckpt")
        /\ (mpc = "finalize" => tpc # "ckpt" /\ tpc' = tpc
                                /\ mpc' = IF LastAlgo THEN "unwind_ok" ELSE "finalize")
    BY <1>0, <1>4 DEF CheckpointPublish, FinalPublish, PublishPart
  <2>3. src' = src BY <1>4 DEF CheckpointPublish, FinalPublish
  <2>4. Emptied BY <2>2 DEF Counted, Spool, Emptied
  <2>5. /\ \A a \in Algo : Spooled(a)' \subseteq Spooled(a)
        /\ LastAlgo => \A a \in Algo : Spooled(a)' = {}
        /\ ~LastAlgo => Emptied' /\ ckpt'.group = ckpt.group /\ resident' = resident
        /\ LastAlgo /\ ckpt.group # CleanPack => resident' = 0
    BY <2>1, <2>2, <2>4, PublishSpools
  <2>6. ~Failing' => ~Failing BY FailingStays
  <2>7. src.chunked => ckpt.group # CleanPack BY <2>2 DEF Groups, Counted
  <2>8. CASE LastAlgo
    <3>1. \A a \in Algo : Cardinality(Spooled(a)') = 0 BY <2>5, <2>8, FS_EmptySet
    <3>2. QED BY <2>2, <2>3, <2>5, <2>7, <2>8, <3>1, SizesAssumption DEF Counted
  <2>9. CASE ~LastAlgo
    <3>1. ASSUME NEW a \in Algo, src.chunked, ~Failing
          PROVE  Cardinality(Spooled(a)') <= resident
      <4>1. Cardinality(Spooled(a)) <= resident BY <3>1 DEF Counted
      <4>2. Cardinality(Spooled(a)') <= Cardinality(Spooled(a))
            /\ Cardinality(Spooled(a)') \in Nat
        BY <2>5, SpooledFacts, FS_Subset, FS_CardinalityType
      <4>3. QED BY <4>1, <4>2, SpooledFacts
    <3>2. QED BY <2>2, <2>3, <2>5, <2>6, <2>7, <2>9, <3>1 DEF Counted
  <2>10. QED BY <2>8, <2>9
<1>5. CASE CheckpointThrows \/ FinalThrows
  <2>1. (tpc' = "throw" /\ mpc' = mpc /\ mpc # "finalize") \/ mpc' = "unwind_err"
    BY <1>0, <1>5 DEF CheckpointThrows, FinalThrows
  <2>2. tpc' # "ckpt" BY <1>0, <1>5 DEF CheckpointThrows, FinalThrows
  <2>3. Failing' /\ mpc' # "finalize" BY <2>1 DEF Failing
  <2>4. QED BY <2>2, <2>3 DEF Counted
<1>6. CASE RemoveSpool
  <2>1. /\ shards' = [a \in Algo |-> {}] /\ UNCHANGED <<src, ckpt, resident, tpc>>
        /\ mpc' # "finalize" /\ mpc # "finalize"
    BY <1>6 DEF RemoveSpool
  <2>2. Emptied' BY <2>1 DEF Emptied, Algo, AlgoOrder
  <2>3. ~Failing' => ~Failing BY FailingStays
  <2>4. ASSUME NEW a \in Algo, src.chunked, ~Failing
        PROVE  Cardinality(Spooled(a)') <= resident
    <3>1. Spooled(a)' \subseteq Spooled(a) BY <2>1 DEF Spooled, CurrentAlgo
    <3>2. Cardinality(Spooled(a)') <= Cardinality(Spooled(a))
          /\ Cardinality(Spooled(a)') \in Nat
      BY <3>1, SpooledFacts, FS_Subset, FS_CardinalityType
    <3>3. Cardinality(Spooled(a)) <= resident BY <2>4 DEF Counted
    <3>4. QED BY <3>2, <3>3, SpooledFacts
  <2>5. QED BY <2>1, <2>2, <2>3, <2>4 DEF Counted
<1>7. CASE MainJoin
  <2>1. /\ UNCHANGED <<src, shards, resident, tpc>> /\ mpc = "join"
        /\ \/ mpc' = "unwind_err" /\ ckpt' = ckpt
           \/ /\ mpc' = "finalize" /\ wpc = "closed" /\ ckpt'.step = "drain"
              /\ ckpt'.group = IF src.chunked THEN part_seq ELSE CleanPack
    BY <1>7 DEF MainJoin, WriterEnded, WriterRaised, StartFinalize
  <2>2. CASE mpc' = "unwind_err"
    <3>1. Failing' BY <2>2 DEF Failing
    <3>2. Emptied => Emptied' BY <2>1, <2>2 DEF Emptied
    <3>3. QED BY <2>1, <2>2, <3>1, <3>2 DEF Counted
  <2>3. CASE mpc' = "finalize"
    <3>1. tpc = "none" /\ ckpt.step # "publish" BY <1>0, <2>1, <2>3 DEF Phases
    <3>2. \A a \in Algo : Spooled(a)' = Spooled(a) BY <2>1, <2>3, <3>1 DEF Spooled
    <3>3. part_seq # CleanPack BY DEF IInv, TypeOK, CleanPack
    <3>4. ~Failing' => ~Failing BY FailingStays
    <3>5. QED BY <2>1, <2>3, <3>1, <3>2, <3>3, <3>4 DEF Counted
  <2>4. QED BY <2>1, <2>2, <2>3
<1>8. CASE ~(PoolJoin \/ CheckpointDrain \/ CheckpointPublish \/ CheckpointThrows)
           /\ ~(MainJoin \/ FinalDrain \/ FinalPublish \/ FinalThrows \/ RemoveSpool)
  <2>1. /\ UNCHANGED <<src, shards, ckpt, resident>>
        /\ tpc' = "ckpt" <=> tpc = "ckpt"
        /\ mpc' = "finalize" <=> mpc = "finalize"
    BY <1>0, <1>8 DEF Next, Writer, NextBlock, EndOfMember, SourceError, WriteCheck,
       WriteWait, Copy, SubmitWait, SubmitLaunch, PreviousJoined, EofJoin, CloseCheck,
       CloseWait, WriterFails, Carver, CarveNothing, BadHeader, Paginate, CarvePage,
       PoolAborts, CarveFails, CarveClear, Main, Exit, ExitCode, Ended, vars, carveVars,
       diskVars
  <2>2. \A a \in Algo : Spooled(a)' = Spooled(a) BY <2>1 DEF Spooled, CurrentAlgo
  <2>3. Emptied => Emptied' BY <2>1 DEF Emptied
  <2>4. QED BY <2>1, <2>2, <2>3, CountedFrame
<1>9. QED BY <1>1, <1>2, <1>3, <1>4, <1>5, <1>6, <1>7, <1>8

LEMMA CountedInit == ASSUME Init PROVE Counted
<1>1. \A a \in Algo : Spooled(a) = {} BY DEF Init, Idle, Spooled
<1>2. \A a \in Algo : Cardinality(Spooled(a)) = 0 BY <1>1, FS_EmptySet
<1>3. QED BY <1>2, SizesAssumption DEF Init, Counted

LEMMA CountedStutter == ASSUME Counted, UNCHANGED vars PROVE Counted'
<1>1. UNCHANGED <<src, error, tpc, mpc, shards, resident, ckpt>>
  BY DEF vars, diskVars
<1>2. \A a \in Algo : Spooled(a)' = Spooled(a) BY <1>1 DEF Spooled, CurrentAlgo
<1>3. Emptied' <=> Emptied BY <1>1 DEF Emptied
<1>4. Failing' <=> Failing BY <1>1 DEF Failing
<1>5. QED BY <1>1, <1>2, <1>3, <1>4 DEF Counted

\* In chunked mode the resident counter covers what is in no part file yet, and
\* between two batches it stays below the checkpoint size (maybe_checkpoint_,
\* do_checkpoint_), on a disk that takes every write.
THEOREM WindowIsBounded == ASSUME ~DiskMayFill PROVE Spec => []WindowBounded
<1>1. Init => Counted BY CountedInit
<1>2. SInv /\ Counted /\ [Next]_vars => Counted'
  BY CountedStep, CountedStutter DEF SInv
<1>3. SInv /\ Counted => WindowBounded
  <2> SUFFICES ASSUME SInv, Counted, src.chunked, ~Failing, NEW a \in Algo
               PROVE  Cardinality(ScannedRows \ Published(a))
                        <= resident + Cardinality(pending)
    BY DEF WindowBounded, Counted
  <2>1. ScannedRows \ Published(a) \subseteq Spooled(a) \union pending
    BY DEF SInv, Rows, Stored, Unpublished, Spooled
  <2>2. /\ IsFiniteSet(Spooled(a)) /\ Cardinality(Spooled(a)) \in Nat
        /\ IsFiniteSet(pending) /\ Cardinality(pending) \in Nat /\ resident \in Nat
    BY SpooledFacts DEF SInv
  <2>3. /\ IsFiniteSet(Spooled(a) \union pending)
        /\ Cardinality(Spooled(a) \union pending)
             = Cardinality(Spooled(a)) + Cardinality(pending)
                 - Cardinality(Spooled(a) \cap pending)
        /\ Cardinality(Spooled(a) \cap pending) \in Nat
    <3>1. IsFiniteSet(Spooled(a) \cap pending) BY <2>2, FS_Subset
    <3>2. QED BY <2>2, <3>1, FS_Union, FS_CardinalityType
  <2>4. /\ Cardinality(ScannedRows \ Published(a)) <= Cardinality(Spooled(a) \union pending)
        /\ Cardinality(ScannedRows \ Published(a)) \in Nat
    BY <2>1, <2>3, FS_Subset, FS_CardinalityType
  <2>5. Cardinality(Spooled(a)) <= resident BY DEF Counted
  <2>6. QED BY <2>2, <2>3, <2>4, <2>5
<1>4. QED BY <1>1, <1>2, <1>3, ScanInvariance, PTL DEF Spec
=============================================================================
