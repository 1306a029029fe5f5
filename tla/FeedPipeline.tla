---------------------------- MODULE FeedPipeline ----------------------------
(***************************************************************************)
(* The jobs of sync_clean_hashes.yml over several workflow runs: probe,    *)
(* carve into a scratch release of the run's own, merge, split, deploy to  *)
(* latest-feed, text export per algorithm, release notes.  Any step may    *)
(* fail; failed jobs may be run again; runs may overlap, as the workflow   *)
(* has no concurrency group.  latest-feed is shared by all runs and no job *)
(* removes an asset from it other than by replacing it.                    *)
(***************************************************************************)
EXTENDS PackSplit, SortedLists

CONSTANTS Run,            \* workflow runs
          Algo,           \* algorithms
          DigestSize,     \* bytes of a digest, per algorithm
          Db,             \* per run and algorithm, the digest sets of the parts
          MaxFaults,      \* bound: parts of a run that are missed or short
          MaxReruns       \* bound: failed jobs that are run again

ASSUME FeedAssumption ==
    /\ DigestSize \in [Algo -> Nat \ {0}] /\ {MaxFaults, MaxReruns} \subseteq Nat
    /\ \A r \in Run, a \in Algo :
          /\ Db[r][a] \in Seq(SUBSET Nat)
          /\ \A i \in DOMAIN Db[r][a] : IsFiniteSet(Db[r][a][i])

VARIABLES
    stage,       \* per run, the job it is at
    releases,    \* runs that have a scratch release
    scratch,     \* per run, the parts in its scratch release
    sent,        \* per run, the parts its carve uploaded
    made,        \* per run, the assets its merge job made
    todo,        \* per run, those not deployed yet
    export,      \* per run and algorithm, where the export job is
    loaded,      \* per run and algorithm, the .bin files it downloaded
    feed,        \* latest-feed: a function from asset names to files
    alone,       \* per run: no other run deployed anything since its deploy began
    reruns       \* jobs run again so far

vars == <<stage, releases, scratch, sent, made, todo, export, loaded, feed, alone,
          reruns>>
scratchVars == <<releases, scratch, sent>>
mergeVars == <<scratchVars, made, todo, alone>>
exportVars == <<export, loaded>>

None == << >>     \* the function with an empty domain

LineSize(a) == 2 * DigestSize[a] + 1

\* The parts of a run: an algorithm and a number; torn says that a part is
\* shorter than its header claims.
PartIds(r) == UNION {{a} \X DOMAIN Db[r][a] : a \in Algo}
Part(id, torn) == [id |-> id, torn |-> torn]

Digests(r, a, ids) == UNION {Db[r][a][id[2]] : id \in {x \in ids : x[1] = a}}

\* The pack merge_one_algo writes from these parts: KWayMerge's result behind a
\* header.
Pack(r, a, ids) ==
    LET digests == Sorted(Digests(r, a, ids))
    IN <<Header(r, Len(digests))>>
       \o [i \in DOMAIN digests |-> Record(r, digests[i])]

Name(a, ext, k) == <<a, ext, k>>
Files(assets, a, ext) ==
    [k \in {n[3] : n \in {m \in DOMAIN assets : m[1] = a /\ m[2] = ext}} |->
        assets[Name(a, ext, k)]]
Assets(files, a, ext) ==
    [n \in {Name(a, ext, k) : k \in DOMAIN files} |-> files[n[3]]]
Without(f, S) == [x \in DOMAIN f \ S |-> f[x]]

Init ==
    /\ stage = [r \in Run |-> "waiting"]
    /\ releases = {} /\ scratch = [r \in Run |-> {}]
    /\ sent = [r \in Run |-> {}]
    /\ made = [r \in Run |-> None] /\ todo = [r \in Run |-> {}]
    /\ export = [r \in Run |-> [a \in Algo |-> "blocked"]]
    /\ loaded = [r \in Run |-> [a \in Algo |-> None]]
    /\ feed = None
    /\ alone = [r \in Run |-> TRUE]
    /\ reruns = 0

Go(r, to) == stage' = [stage EXCEPT ![r] = to]

-----------------------------------------------------------------------------
(* Probe and carve. *)

\* will_fit, or force_run.
ProbeFits(r) ==
    /\ stage[r] = "waiting" /\ Go(r, "carve")
    /\ UNCHANGED <<mergeVars, exportVars, feed, reruns>>

\* The gate is closed or the probe itself fails: the other jobs are skipped.
ProbeRefuses(r) ==
    /\ stage[r] = "waiting" /\ Go(r, "skipped")
    /\ UNCHANGED <<mergeVars, exportVars, feed, reruns>>

\* gh release create, which fails when the tag has a release.
CreateScratch(r) ==
    /\ stage[r] = "carve" /\ r \notin releases
    /\ releases' = releases \union {r}
    /\ Go(r, "carving")
    /\ UNCHANGED <<scratch, sent, made, todo, alone, exportVars, feed, reruns>>

\* What a carve leaves in the scratch release: all parts, or all but a few,
\* whose uploads were missed, some of them perhaps short.
Upload(r) ==
    \E ids \in SUBSET PartIds(r) : \E short \in SUBSET ids :
        /\ Cardinality(PartIds(r) \ ids) + Cardinality(short) <= MaxFaults
        /\ scratch' = [scratch EXCEPT ![r] = {Part(id, id \in short) : id \in ids}]
        /\ sent' = [sent EXCEPT ![r] = ids]

\* Exit status 0.
CarveEnds(r) ==
    /\ stage[r] = "carving" /\ Upload(r) /\ Go(r, "merge")
    /\ UNCHANGED <<releases, made, todo, alone, exportVars, feed, reruns>>

\* The job fails or is killed.  No later job runs, and the scratch release stays.
CarveFails(r) ==
    /\ stage[r] \in {"carve", "carving"}
    /\ Go(r, "carvefailed")
    /\ UNCHANGED <<mergeVars, exportVars, feed, reruns>>

-----------------------------------------------------------------------------
(* merge-parts. *)

\* The last step, if: always() and continue-on-error: the scratch release is
\* deleted however the job ended, or the deletion fails.
DeleteScratch(r) ==
    \/ UNCHANGED <<releases, scratch>>
    \/ releases' = releases \ {r} /\ scratch' = [scratch EXCEPT ![r] = {}]

\* Mutant of Refused: the size of a part is not compared with its header.
NeverRefused(parts) == FALSE

\* _payload_only raises MergeError.
Refused(parts) == \E p \in parts : p.torn

\* What is left of a part that was taken as it is.
Intact(parts) == {p.id : p \in {q \in parts : ~q.torn}}

Algos(parts) == {p.id[1] : p \in parts}

Mergeable(r) ==
    /\ scratch[r] # {}
    /\ ~Refused(scratch[r])
    /\ \A a \in Algos(scratch[r]) :
          CanSplit(Pack(r, a, Intact(scratch[r])), DigestSize[a])

\* The parts are downloaded, merged and split; an algorithm without a part is
\* left out.
MergeParts(r) ==
    /\ stage[r] = "merge" /\ Mergeable(r)
    /\ LET split(a) == SplitFile(Pack(r, a, Intact(scratch[r])), DigestSize[a])
           names == UNION {{Name(a, "bin", k) : k \in DOMAIN split(a)} :
                              a \in Algos(scratch[r])}
       IN /\ made' = [made EXCEPT ![r] = [n \in names |-> split(n[1])[n[3]]]]
          /\ todo' = [todo EXCEPT ![r] = names]
    /\ alone' = [alone EXCEPT ![r] = TRUE]
    /\ Go(r, "deploy")
    /\ UNCHANGED <<scratchVars, exportVars, feed, reruns>>

\* No release, no part, a short part, a pack that cannot be split, or any
\* failure of the runner.
MergeFails(r) ==
    /\ stage[r] = "merge" /\ DeleteScratch(r) /\ Go(r, "mergefailed")
    /\ UNCHANGED <<sent, made, todo, alone, exportVars, feed, reruns>>

Others(r) == [q \in Run |-> IF q = r THEN alone[q] ELSE FALSE]

\* Assets are put into latest-feed, where they replace their namesakes.
Put(assets) == [n \in DOMAIN assets \union DOMAIN feed |->
                  IF n \in DOMAIN assets THEN assets[n] ELSE feed[n]]

\* An old asset of the name is deleted before the new one is uploaded.  The
\* assets are handled at once: several may be gone at a time.
Withdraw(r, n) ==
    /\ stage[r] = "deploy" /\ n \in todo[r] /\ n \in DOMAIN feed
    /\ feed' = Without(feed, {n})
    /\ alone' = Others(r)
    /\ UNCHANGED <<stage, scratchVars, made, todo, exportVars, reruns>>

Deploy(r, n) ==
    /\ stage[r] = "deploy" /\ n \in todo[r] /\ n \notin DOMAIN feed
    /\ feed' = Put([x \in {n} |-> made[r][n]])
    /\ todo' = [todo EXCEPT ![r] = @ \ {n}]
    /\ alone' = Others(r)
    /\ UNCHANGED <<stage, scratchVars, made, exportVars, reruns>>

\* The export jobs need a merge job that succeeded.
Unblocked(r) == [export EXCEPT ![r] = [a \in Algo |-> "ready"]]

DeployEnds(r) ==
    /\ stage[r] = "deploy" /\ todo[r] = {}
    /\ DeleteScratch(r) /\ Go(r, "exporting")
    /\ export' = Unblocked(r)
    /\ UNCHANGED <<sent, made, todo, alone, loaded, feed, reruns>>

\* Mutant of StillBlocked: the export jobs do not wait for success (if: always()).
NotBlocked(r) == Unblocked(r)

StillBlocked(r) == export

\* The deploy breaks off, the old assets withdrawn so far being gone.
DeployFails(r) ==
    /\ stage[r] = "deploy" /\ todo[r] # {}
    /\ DeleteScratch(r) /\ Go(r, "mergefailed")
    /\ export' = StillBlocked(r)
    /\ UNCHANGED <<sent, made, todo, alone, loaded, feed, reruns>>

-----------------------------------------------------------------------------
(* export-txt, one job per algorithm, and publish-release-notes. *)

At(r, a, from, to) ==
    export[r][a] = from /\ export' = [export EXCEPT ![r][a] = to]

\* Every piece of the algorithm there is in latest-feed, whoever made it.
Download(r, a) ==
    /\ At(r, a, "ready", "loaded")
    /\ DOMAIN Files(feed, a, "bin") # {}
    /\ loaded' = [loaded EXCEPT ![r][a] = Files(feed, a, "bin")]
    /\ UNCHANGED <<stage, mergeVars, feed, reruns>>

Whole(r, a) == Cat(loaded[r][a])
TextFits(r, a) == Readable(Whole(r, a)) /\ CanSplit(Lines(Whole(r, a)), LineSize(a))

\* The runner and what it downloaded are gone.
Clean(r, a) == loaded' = [loaded EXCEPT ![r][a] = None]

\* cat, conversion, split, upload.
ExportText(r, a) ==
    /\ At(r, a, "loaded", "done")
    /\ TextFits(r, a)
    /\ feed' = Put(Assets(SplitFile(Lines(Whole(r, a)), LineSize(a)), a, "txt"))
    /\ Clean(r, a)
    /\ UNCHANGED <<stage, mergeVars, reruns>>

\* Nothing to download, an unreadable pack, or a failure of the runner.  No job
\* reads a .txt asset: an upload that breaks off is one that changed nothing.
ExportFails(r, a) ==
    /\ export[r][a] \in {"ready", "loaded"} /\ At(r, a, export[r][a], "failed")
    /\ Clean(r, a)
    /\ UNCHANGED <<stage, mergeVars, feed, reruns>>

\* All exports have succeeded: the notes describe the assets of this moment.
PublishNotes(r) ==
    /\ stage[r] = "exporting" /\ \A a \in Algo : export[r][a] = "done"
    /\ Go(r, "done")
    /\ UNCHANGED <<mergeVars, exportVars, feed, reruns>>

-----------------------------------------------------------------------------
\* The failed jobs of a run are run again, under the same run id.
Rerun(r) ==
    /\ reruns < MaxReruns /\ reruns' = reruns + 1
    /\ \/ stage[r] = "carvefailed" /\ Go(r, "carve") /\ UNCHANGED export
       \/ stage[r] = "mergefailed" /\ Go(r, "merge") /\ UNCHANGED export
       \/ \E a \in Algo : At(r, a, "failed", "ready") /\ UNCHANGED stage
    /\ UNCHANGED <<mergeVars, loaded, feed>>

\* Nothing is left to do, or nobody does it.
Rest ==
    /\ \A r \in Run : stage[r] \in {"skipped", "carvefailed", "mergefailed",
                                    "exporting", "done"}
    /\ UNCHANGED vars

RunStep(r) ==
    \/ ProbeFits(r) \/ ProbeRefuses(r) \/ CreateScratch(r) \/ CarveEnds(r)
    \/ CarveFails(r) \/ MergeParts(r) \/ MergeFails(r) \/ DeployEnds(r)
    \/ DeployFails(r) \/ PublishNotes(r) \/ Rerun(r)
    \/ \E n \in todo[r] : Withdraw(r, n) \/ Deploy(r, n)
    \/ \E a \in Algo : Download(r, a) \/ ExportText(r, a) \/ ExportFails(r, a)

Next == Rest \/ \E r \in Run : RunStep(r)

Spec == Init /\ [][Next]_vars

-----------------------------------------------------------------------------
(* Properties. *)

FileOf(f) == \A i \in DOMAIN f : f[i].kind \in {"header", "record"} /\ f[i].run \in Run

\* Every variable stays within its type: parts are in a release, assets to deploy
\* have been made, exports have started only behind a complete deploy.
TypeOK ==
    /\ stage \in [Run -> {"waiting", "skipped", "carve", "carving", "carvefailed",
                          "merge", "mergefailed", "deploy", "exporting", "done"}]
    /\ \A r \in Run :
          /\ \A p \in scratch[r] : r \in releases /\ p.id \in sent[r]
          /\ sent[r] \subseteq PartIds(r)
          /\ todo[r] \subseteq DOMAIN made[r]
          /\ (\E a \in Algo : export[r][a] # "blocked") => stage[r] \in {"exporting", "done"}
    /\ export \in [Run -> [Algo -> {"blocked", "ready", "loaded", "done", "failed"}]]
    /\ \A n \in DOMAIN feed :
          n[1] \in Algo /\ n[2] \in {"bin", "txt"} /\ n[3] \in Nat /\ FileOf(feed[n])
    /\ alone \in [Run -> BOOLEAN] /\ reruns \in 0..MaxReruns

\* No asset is over the limit, that of the first part with its header and those
\* of a split that had to be repeated included.
PiecesFit ==
    \A n \in DOMAIN feed :
        FileSize(feed[n], IF n[2] = "bin" THEN DigestSize[n[1]] ELSE LineSize(n[1]))
            <= Limit

Made(r, a) == Files(made[r], a, "bin")

\* `cat` of the parts a run made is its pack: the header counts all digests, and
\* those are the digests of every part its carve uploaded.
PacksExact ==
    \A r \in Run, a \in Algo :
        DOMAIN Made(r, a) # {} => Cat(Made(r, a)) = Pack(r, a, sent[r])

\* What an export job downloads holds every part of some run's pack.
HasPack(files, q, a) ==
    /\ DOMAIN Made(q, a) # {}
    /\ \A k \in DOMAIN Made(q, a) : k \in DOMAIN files /\ files[k] = Made(q, a)[k]

\* An unsplit file of another run sorts before the parts of a split pack ('.'
\* before '_') and is read in their place.
Shadowed(files, q, a) == 0 \in DOMAIN files /\ 0 \notin DOMAIN Made(q, a)

\* Pieces left by other runs, before, behind or among those of a pack, do not get
\* mixed into the text: it is one run's whole list.  It is the list of the job's
\* own run when that run made pieces, no other deployed in between and no
\* unsplit file of another is there (with one, SelfTesting fails).
NoMixedText ==
    \A r \in Run, a \in Algo :
        export[r][a] = "loaded" /\ (\E q \in Run : HasPack(loaded[r][a], q, a)) =>
            /\ Readable(Whole(r, a))
            /\ \E q \in Run : Lines(Whole(r, a)) = Tail(Pack(q, a, sent[q]))
            /\ alone[r] /\ DOMAIN Made(r, a) # {} /\ ~Shadowed(loaded[r][a], r, a) =>
                  Lines(Whole(r, a)) = Tail(Pack(r, a, sent[r]))

\* Unless another run deployed in between, an export job has all parts its own
\* run made, through reruns and failures of any job before it.
ExportAfterDeploy ==
    \A r \in Run, a \in Algo :
        export[r][a] = "loaded" /\ alone[r] /\ DOMAIN Made(r, a) # {} =>
            HasPack(loaded[r][a], r, a)

\* The command the release notes publish for an algorithm: `cat` of the parts
\* when there is more than one .bin asset, else the file as it is.
Published(a) ==
    LET bins == Files(feed, a, "bin")
    IN IF Cardinality(DOMAIN bins) > 1 THEN Cat(Without(bins, {0})) ELSE Cat(bins)

\* The list of a run is in latest-feed.
ListPublished(r, a) ==
    LET texts == SplitFile(Tail(Pack(r, a, sent[r])), LineSize(a))
    IN \A k \in DOMAIN texts :
          Name(a, "txt", k) \in DOMAIN feed /\ feed[Name(a, "txt", k)] = texts[k]

\* The export "reconstructs the full .bin with the EXACT SAME `cat` command" as
\* the notes publish, "self-testing: if that command were ever wrong, this job
\* would fail too": when all jobs of a run succeeded and no other run is under
\* way, the command yields the run's pack and the text is its list.
SelfTesting ==
    \A r \in Run, a \in Algo :
        /\ stage[r] = "done" /\ alone[r]
        /\ \A q \in Run : stage[q] \in {"waiting", "done"}
        /\ DOMAIN Made(r, a) # {}
        => Published(a) = Pack(r, a, sent[r]) /\ ListPublished(r, a)
=============================================================================
