----------------------------- MODULE ChunkUpload -----------------------------
(***************************************************************************)
(* Chunked mode as the runner sees it: the engine renames finished part    *)
(* files into parts_dir, a PartUploader thread uploads them to the scratch *)
(* release and unlinks them, and stream_rds_zip_carve_full stops the       *)
(* uploader before the process exits.  CarveEngine describes how the parts *)
(* come about; here they appear one after the other, in the order of their *)
(* names, AlgosPerGroup of them to a checkpoint.                           *)
(***************************************************************************)
EXTENDS Naturals, FiniteSets

CONSTANTS LastPart,         \* no run makes more part files than this
          AlgosPerGroup     \* part files of one checkpoint

ASSUME PartAssumption ==
    /\ AlgosPerGroup \in Nat \ {0}
    /\ LastPart \in Nat /\ LastPart >= AlgosPerGroup

Part == 1..LastPart

VARIABLES
    made,     \* parts 1..made have been renamed into parts_dir
    local,    \* parts now in parts_dir
    remote,   \* parts that are assets of the scratch release
    upc,      \* where the uploader thread is
    queue,    \* candidates of the current drain not tried yet
    stop,     \* the _stop event
    missed,   \* an upload of the last drain failed
    mpc       \* where the main thread is

uploaderVars == <<upc, queue, missed>>
vars == <<made, local, remote, uploaderVars, stop, mpc>>

MainPC == {"carving", "finalizing", "stopping", "joining", "unwinding", "failing",
           "exit0", "exit2", "killed"}
Gone == {"exit0", "exit2", "killed"}
Alive == mpc \notin Gone

Init ==
    /\ made = 0 /\ local = {} /\ remote = {}
    /\ upc = "loop" /\ queue = {} /\ missed = FALSE
    /\ stop = FALSE
    /\ mpc = "carving"

-----------------------------------------------------------------------------
(* Main thread, and the engine it drives. *)

\* Mutant of PartName: the sequence number is advanced before it is used.
SkippedName == made + 2

\* The name the next part is renamed to.
PartName == made + 1

NewPart ==
    /\ made' = made + 1
    /\ local' = local \union {PartName}

Whole(n) == n % AlgosPerGroup = 0

\* A periodic checkpoint publishes one more part.  LastPart leaves room for the
\* last group.
CheckpointPart ==
    /\ mpc = "carving"
    /\ made + AlgosPerGroup < LastPart
    /\ NewPart
    /\ UNCHANGED <<remote, uploaderVars, stop, mpc>>

\* The writer has ended without an exception, every checkpoint with it.
CarveDone ==
    /\ mpc = "carving" /\ Whole(made)
    /\ mpc' = "finalizing"
    /\ UNCHANGED <<made, local, remote, uploaderVars, stop>>

\* finalize_chunked() publishes the last group.
FinalPart ==
    /\ mpc = "finalizing" /\ made < LastPart
    /\ NewPart
    /\ mpc' = IF Whole(made + 1) THEN "stopping" ELSE "finalizing"
    /\ UNCHANGED <<remote, uploaderVars, stop>>

\* stop_and_join() sets the event ...
Stop ==
    /\ mpc = "stopping"
    /\ stop' = TRUE
    /\ mpc' = "joining"
    /\ UNCHANGED <<made, local, remote, uploaderVars>>

\* An upload may be under way when the process, and with it this daemon thread,
\* ends; --clobber deletes the old asset before it sends the new one.
Drains == {"drain", "lastdrain"}
Current == {p \in queue : upc \in Drains /\ \A q \in queue : p <= q}
CutOff == {remote} \union {remote \union {p} : p \in Current}
                   \union {remote \ {p} : p \in Current}

\* ... and joins the thread, which has ended, or the timeout passes and a warning
\* is printed; the same again with 60 s in the finally block; then main() returns 0.
ExitOk ==
    /\ mpc = "joining"
    /\ mpc' = "exit0"
    /\ remote' \in CutOff
    /\ UNCHANGED <<made, local, uploaderVars, stop>>

\* The writer raises, or the last checkpoint does: only the finally block stops
\* the uploader, for 60 s, and main() returns 2.
CarveError ==
    /\ mpc \in {"carving", "finalizing"}
    /\ stop' = TRUE
    /\ mpc' = IF mpc = "carving" THEN "unwinding" ELSE "failing"
    /\ UNCHANGED <<made, local, remote, uploaderVars>>

\* When the writer has raised, the carve thread may still be at a checkpoint:
\* only the engine's destructor joins it.
LatePart ==
    /\ mpc = "unwinding" /\ made < LastPart
    /\ NewPart
    /\ UNCHANGED <<remote, uploaderVars, stop, mpc>>

ExitError ==
    /\ mpc \in {"unwinding", "failing"}
    /\ mpc' = "exit2"
    /\ remote' \in CutOff
    /\ UNCHANGED <<made, local, uploaderVars, stop>>

\* The job is cancelled at its time limit, the runner dies, the process aborts:
\* the runner's disk is gone.
Kill ==
    /\ Alive
    /\ mpc' = "killed"
    /\ remote' \in CutOff
    /\ local' = {}
    /\ UNCHANGED <<made, uploaderVars, stop>>

-----------------------------------------------------------------------------
(* Uploader thread: _run, _drain_once, _upload_one. *)

\* Mutant of AfterStop: the thread ends with its loop.
NoLastDrain == "done"

\* What follows the loop once the event is set.
AfterStop == "lastglob"

\* The head of the loop: another round, or the drain after the loop.
CheckStop ==
    /\ Alive /\ upc = "loop"
    /\ upc' = IF stop THEN AfterStop ELSE "glob"
    /\ UNCHANGED <<made, local, remote, queue, missed, stop, mpc>>

\* _candidates(): the sorted part_*.bin files there are at this moment.
Candidates == local

Glob ==
    /\ Alive /\ upc \in {"glob", "lastglob"}
    /\ queue' = Candidates
    /\ upc' = IF upc = "glob" THEN "drain" ELSE "lastdrain"
    /\ UNCHANGED <<made, local, remote, missed, stop, mpc>>

\* The command succeeds and the file is unlinked; an OSError of unlink is
\* ignored, and the part is uploaded once more in the next round.
UploadSucceeds(p) ==
    /\ Alive /\ p \in Current
    /\ queue' = queue \ {p}
    /\ remote' = remote \union {p}
    /\ local' \in {local \ {p}, local}
    /\ UNCHANGED <<made, upc, missed, stop, mpc>>

\* Mutant of KeptOnFailure: the file is unlinked whatever the command returned.
DroppedOnFailure(p) == local \ {p}

\* The file of a failed upload stays for the next round.
KeptOnFailure(p) == local

\* The command fails or is killed after 300 s.  The asset may nevertheless have
\* arrived, or the old one may be deleted and the new one not there.
UploadFails(p) ==
    /\ Alive /\ p \in Current
    /\ queue' = queue \ {p}
    /\ remote' \in {remote, remote \union {p}, remote \ {p}}
    /\ local' = KeptOnFailure(p)
    /\ missed' = (missed \/ upc = "lastdrain")
    /\ UNCHANGED <<made, upc, stop, mpc>>

\* Mutant of AfterDrain: a round that leaves a file behind ends the thread.
GiveUp == IF upc = "lastdrain" \/ local # {} THEN "done" ELSE "wait"

\* Where a drain that has tried every candidate goes.
AfterDrain == IF upc = "lastdrain" THEN "done" ELSE "wait"

Drained ==
    /\ Alive /\ upc \in Drains /\ queue = {}
    /\ upc' = AfterDrain
    /\ UNCHANGED <<made, local, remote, queue, missed, stop, mpc>>

\* _stop.wait(poll_interval) returns.
Wait ==
    /\ Alive /\ upc = "wait"
    /\ upc' = "loop"
    /\ UNCHANGED <<made, local, remote, queue, missed, stop, mpc>>

Ended == ~Alive /\ UNCHANGED vars

-----------------------------------------------------------------------------
Main == CheckpointPart \/ CarveDone \/ FinalPart \/ Stop \/ ExitOk
        \/ CarveError \/ LatePart \/ ExitError

Uploader == \/ CheckStop \/ Glob \/ Drained \/ Wait
            \/ \E p \in Part : UploadSucceeds(p) \/ UploadFails(p)

Next == Main \/ Uploader \/ Kill \/ Ended

Spec == Init /\ [][Next]_vars

\* The uploader is scheduled, its command ends (it has a timeout), and failures
\* are transient: an upload tried over and over succeeds some time.  Nothing is
\* assumed of the carve, which may go on for hours.
FairSpec == Spec /\ WF_vars(Uploader)
                 /\ \A p \in Part : SF_vars(UploadSucceeds(p))

-----------------------------------------------------------------------------
(* Properties. *)

\* Every variable stays within its type.
TypeOK ==
    /\ made \in 0..LastPart
    /\ local \subseteq Part /\ remote \subseteq Part /\ queue \subseteq Part
    /\ upc \in {"loop", "glob", "drain", "wait", "lastglob", "lastdrain", "done"}
    /\ stop \in BOOLEAN /\ missed \in BOOLEAN
    /\ mpc \in MainPC

\* Until the process ends, every part made is on the runner's disk or among the
\* assets of the release, through failed, timed-out and half-done uploads and
\* uploads repeated because a file could not be unlinked.
NoPartDropped == Alive => 1..made \subseteq local \union remote

\* What makes the last drain enough: when the process ends with status 0, its
\* uploader has finished and no upload of the last drain failed, then every
\* part is in the release, failures of earlier rounds notwithstanding.
CompleteUnlessMissed ==
    mpc = "exit0" /\ upc = "done" /\ ~missed => remote = 1..made

\* While the carve goes on, no part is stuck behind others that fail: each one
\* is uploaded after finitely many rounds.
EventuallyUploaded ==
    \A p \in Part : p \in local ~> p \in remote \/ mpc \notin {"carving", "finalizing"}

\* "a transient gh/network failure loses no data": when the process ends with
\* status 0, which starts the merge, and its uploader has finished, every part
\* is in the release.
SuccessMeansUploaded ==
    mpc = "exit0" /\ upc = "done" => remote = 1..made

\* "a timeout/crash loses at most the current in-flight checkpoint window":
\* after a kill the parts missing from the release belong to one checkpoint.
Group(p) == (p - 1) \div AlgosPerGroup

AtMostOneWindowLost ==
    mpc = "killed" => Cardinality({Group(p) : p \in 1..made \ remote}) <= 1
=============================================================================
