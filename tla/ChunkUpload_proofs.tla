------------------------- MODULE ChunkUpload_proofs -------------------------
(***************************************************************************)
(* The uploader's guarantees for any number of parts: nothing is dropped   *)
(* while the process lives, and a last drain without a failed upload means *)
(* that the release is complete.                                           *)
(***************************************************************************)
EXTENDS ChunkUpload, TLAPS

LastPhase == {"lastglob", "lastdrain", "done"}

\* Once the uploader is past its loop the engine makes no more parts, unless the
\* run fails.
LastPhaseIsLast ==
    /\ upc \in LastPhase => stop
    /\ stop => mpc \notin {"carving", "finalizing", "stopping"}

\* The drain works on files that are there; nothing has a name that was not
\* given out.
QueueIsLocal ==
    /\ Alive => queue \subseteq local
    /\ local \subseteq 1..made
    /\ remote \subseteq 1..made

\* What the last drain of a run that does not fail has dealt with is in the
\* release, unless it missed some.
LastDrainCovers ==
    mpc \in {"joining", "exit0"} =>
        /\ upc = "lastdrain" /\ ~missed /\ Alive => 1..made \subseteq queue \union remote
        /\ upc = "done" /\ ~missed => 1..made \subseteq remote

\* The inductive invariant.
IInv == TypeOK /\ LastPhaseIsLast /\ QueueIsLocal /\ NoPartDropped /\ LastDrainCovers

LEMMA InitIInv == Init => IInv
<1> SUFFICES ASSUME Init PROVE IInv
  OBVIOUS
<1> USE DEF Init
<1>1. TypeOK
  <2>1. made \in 0..LastPart BY PartAssumption
  <2>2. local \subseteq Part /\ remote \subseteq Part /\ queue \subseteq Part OBVIOUS
  <2>3. stop \in BOOLEAN /\ missed \in BOOLEAN BY Zenon
  <2>4. QED BY <2>1, <2>2, <2>3 DEF TypeOK, MainPC
<1>2. LastPhaseIsLast BY DEF LastPhaseIsLast, LastPhase
<1>3. QueueIsLocal BY DEF QueueIsLocal
<1>4. 1..made = {} OBVIOUS
<1>5. NoPartDropped BY <1>4 DEF NoPartDropped
<1>6. LastDrainCovers BY DEF LastDrainCovers
<1>7. QED BY <1>1, <1>2, <1>3, <1>5, <1>6 DEF IInv

LEMMA MainKeepsIInv == ASSUME IInv, Main PROVE IInv'
<1> USE PartAssumption DEF IInv, TypeOK, LastPhaseIsLast, LastPhase, QueueIsLocal, NoPartDropped,
        LastDrainCovers, MainPC, Alive, Gone, Part, uploaderVars
<1>1. CASE CheckpointPart BY <1>1 DEF CheckpointPart, NewPart, PartName
<1>2. CASE CarveDone BY <1>2 DEF CarveDone
<1>3. CASE FinalPart BY <1>3 DEF FinalPart, NewPart, PartName
<1>4. CASE Stop BY <1>4 DEF Stop
<1>5. CASE ExitOk BY <1>5 DEF ExitOk, CutOff, Current, Drains
<1>6. CASE CarveError BY <1>6 DEF CarveError
<1>7. CASE LatePart BY <1>7 DEF LatePart, NewPart, PartName
<1>8. CASE ExitError BY <1>8 DEF ExitError, CutOff, Current, Drains
<1>9. QED BY <1>1, <1>2, <1>3, <1>4, <1>5, <1>6, <1>7, <1>8 DEF Main

LEMMA UploaderKeepsIInv == ASSUME IInv, Uploader PROVE IInv'
<1> USE PartAssumption DEF IInv, TypeOK, LastPhaseIsLast, LastPhase, QueueIsLocal, NoPartDropped,
        LastDrainCovers, MainPC, Alive, Gone, Part, uploaderVars, Drains
<1>1. CASE CheckStop BY <1>1 DEF CheckStop, AfterStop
<1>2. CASE Glob BY <1>2 DEF Glob, Candidates
<1>3. CASE Drained BY <1>3 DEF Drained, AfterDrain
<1>4. CASE Wait BY <1>4 DEF Wait
<1>5. ASSUME NEW p \in Part, UploadSucceeds(p) PROVE IInv'
  BY <1>5 DEF UploadSucceeds, Current
<1>6. ASSUME NEW p \in Part, UploadFails(p) PROVE IInv'
  BY <1>6 DEF UploadFails, KeptOnFailure, Current
<1>7. QED BY <1>1, <1>2, <1>3, <1>4, <1>5, <1>6 DEF Uploader

LEMMA StepIInv == IInv /\ [Next]_vars => IInv'
<1> SUFFICES ASSUME IInv, [Next]_vars PROVE IInv'
  OBVIOUS
<1>1. CASE Main BY <1>1, MainKeepsIInv
<1>2. CASE Uploader BY <1>2, UploaderKeepsIInv
<1>3. CASE Kill
  BY <1>3 DEF Kill, CutOff, Current, Drains, IInv, TypeOK, LastPhaseIsLast, LastPhase,
     QueueIsLocal, NoPartDropped, LastDrainCovers, MainPC, Alive, Gone, Part, uploaderVars
<1>4. CASE Ended \/ UNCHANGED vars
  <2>1. UNCHANGED vars BY <1>4 DEF Ended
  <2>2. /\ made' = made /\ local' = local /\ remote' = remote /\ upc' = upc
        /\ queue' = queue /\ missed' = missed /\ stop' = stop /\ mpc' = mpc
    BY <2>1 DEF vars, uploaderVars
  <2>3. QED
    BY <2>2 DEF IInv, TypeOK, LastPhaseIsLast, QueueIsLocal, NoPartDropped,
       LastDrainCovers, Alive
<1>5. QED BY <1>1, <1>2, <1>3, <1>4 DEF Next

LEMMA Invariance == Spec => []IInv
  BY InitIInv, StepIInv, PTL DEF Spec

\* TypeOK of ChunkUpload holds in every reachable state.
THEOREM TypeCorrect == Spec => []TypeOK
<1>1. IInv => TypeOK BY DEF IInv
<1>2. QED BY <1>1, Invariance, PTL

\* PartUploader never drops a part while the process lives, however its uploads
\* fail: it unlinks a file only after the upload command has succeeded.
THEOREM NothingDropped == Spec => []NoPartDropped
<1>1. IInv => NoPartDropped BY DEF IInv
<1>2. QED BY <1>1, Invariance, PTL

\* Exit status 0 with a finished uploader whose last drain had no failure means
\* a complete release: the last drain lists its candidates after the last part
\* has been renamed into place and tries every one.
THEOREM LastDrainSuffices == Spec => []CompleteUnlessMissed
<1>1. IInv => CompleteUnlessMissed
  BY DEF IInv, LastDrainCovers, QueueIsLocal, CompleteUnlessMissed
<1>2. QED BY <1>1, Invariance, PTL
=============================================================================
