------------------------------ MODULE KWayMerge ------------------------------
(***************************************************************************)
(* merge_sorted_raw_runs: the k-way merge every exact-unique guarantee of  *)
(* the feed rests on.  merge_cvt1_parts.py applies it to the payloads of   *)
(* all part files of an algorithm, the Python fallback to the spilled runs *)
(* of ExternalUniqueSink.  Each run is sorted and without duplicates; a    *)
(* digest is a number, as the code only compares digests.  A run file may  *)
(* end in the middle of a digest, which every read of the code checks.     *)
(***************************************************************************)
EXTENDS SortedLists

CONSTANT Inputs     \* the lists of runs the merge may be given

ASSUME InputsAssumption ==
    \A in \in Inputs : in \in Seq(Seq(Nat)) /\ \A i \in 1..Len(in) : Ascending(in[i])

VARIABLES
    run,      \* the run files
    cut,      \* whether a run file ends in a partial digest
    pos,      \* place of the next digest to read, per handle
    prime,    \* next handle to read a first digest from
    heap,     \* one pair of digest and handle per open run
    last,     \* the digest written last
    out,      \* the merged file
    count,    \* number of digests written
    pc

vars == <<run, cut, pos, prime, heap, last, out, count, pc>>

NoDigest == -1      \* Python's None
Partial == -2       \* a read shorter than digest_size

Handle == 1..Len(run)

\* What is left to read of a run.
Unread(i) == {run[i][j] : j \in pos[i]..Len(run[i])}

InRun(i) == {run[i][j] : j \in 1..Len(run[i])}
All == UNION {InRun(i) : i \in Handle}
Written == {out[k] : k \in 1..Len(out)}

Init ==
    /\ run \in Inputs
    /\ cut \in [Handle -> BOOLEAN]
    /\ pos = [i \in Handle |-> 1]
    /\ prime = 1 /\ heap = {} /\ last = NoDigest
    /\ out = <<>> /\ count = 0
    /\ pc = "start"

-----------------------------------------------------------------------------
\* No runs: an empty file.
NoRuns ==
    /\ pc = "start" /\ run = <<>>
    /\ pc' = "done"
    /\ UNCHANGED <<run, cut, pos, prime, heap, last, out, count>>

\* Mutant of BadSize: the size of the copy is divided and the rest dropped.
AnySize == FALSE

BadSize == cut[1]

\* One run is copied as it is; its size tells a partial digest.
OneRun ==
    /\ pc = "start" /\ Len(run) = 1
    /\ out' = run[1]
    /\ IF BadSize THEN pc' = "raised" /\ UNCHANGED count
                  ELSE pc' = "done" /\ count' = Len(run[1])
    /\ UNCHANGED <<run, cut, pos, prime, heap, last>>

ManyRuns ==
    /\ pc = "start" /\ Len(run) > 1
    /\ pc' = "prime"
    /\ UNCHANGED <<run, cut, pos, prime, heap, last, out, count>>

\* Mutant of TooShort: a partial digest is taken for a whole one.
NeverTooShort(d) == FALSE

TooShort(d) == d = Partial

\* Handle i is at the end of its file.
AtEnd(i) == pos[i] > Len(run[i]) /\ ~cut[i]

\* What a read of one digest from handle i returns.
NextDigest(i) == IF pos[i] > Len(run[i]) THEN Partial ELSE run[i][pos[i]]

\* Mutant of AfterEmptyRun: the loop is left (break) at the first empty run.
BreakAtEmptyRun(i) == Len(run) + 1

\* The loop over the handles goes on after an empty run.
AfterEmptyRun(i) == i + 1

\* The first digest of the next run goes on the heap.
PrimeHeap ==
    /\ pc = "prime" /\ prime <= Len(run)
    /\ IF AtEnd(prime)
       THEN prime' = AfterEmptyRun(prime) /\ UNCHANGED <<pos, heap, pc>>
       ELSE LET d == NextDigest(prime) IN
            IF TooShort(d)
            THEN pc' = "raised" /\ UNCHANGED <<pos, prime, heap>>
            ELSE /\ heap' = heap \union {<<d, prime>>}
                 /\ pos' = [pos EXCEPT ![prime] = @ + 1]
                 /\ prime' = prime + 1
                 /\ UNCHANGED pc
    /\ UNCHANGED <<run, cut, last, out, count>>

Primed ==
    /\ pc = "prime" /\ prime > Len(run)
    /\ pc' = "merge"
    /\ UNCHANGED <<run, cut, pos, prime, heap, last, out, count>>

\* Mutant of Smallest: the heap is not a heap.
Whichever(e) == e \in heap

\* The pair heappop returns: pairs compare by digest, then by handle.
Smallest(e) ==
    /\ e \in heap
    /\ \A f \in heap : e[1] < f[1] \/ (e[1] = f[1] /\ e[2] <= f[2])

Popped(e) == heap \ {e}

\* Mutant of IsNew: a digest found in two runs is written twice.
AlwaysNew(d) == TRUE

IsNew(d) == d # last

\* Mutant of Refills: a duplicate does not make its run advance.
RefillsIfNew(e) == IsNew(e[1]) /\ ~AtEnd(e[2])

\* Whether the run of the popped pair has more to give.
Refills(e) == ~AtEnd(e[2])

\* One turn of the loop: pop, write unless a duplicate, read the next digest of
\* the same run.
Pop ==
    /\ pc = "merge"
    /\ \E e \in heap :
        /\ Smallest(e)
        /\ IF IsNew(e[1])
           THEN out' = Append(out, e[1]) /\ last' = e[1] /\ count' = count + 1
           ELSE UNCHANGED <<out, last, count>>
        /\ IF Refills(e)
           THEN LET d == NextDigest(e[2]) IN
                IF TooShort(d)
                THEN pc' = "raised" /\ heap' = Popped(e) /\ UNCHANGED pos
                ELSE /\ heap' = Popped(e) \union {<<d, e[2]>>}
                     /\ pos' = [pos EXCEPT ![e[2]] = @ + 1]
                     /\ UNCHANGED pc
           ELSE heap' = Popped(e) /\ UNCHANGED <<pos, pc>>
    /\ UNCHANGED <<run, cut, prime>>

Emptied ==
    /\ pc = "merge" /\ heap = {}
    /\ pc' = "done"
    /\ UNCHANGED <<run, cut, pos, prime, heap, last, out, count>>

Ended == pc \in {"done", "raised"} /\ UNCHANGED vars

Next == NoRuns \/ OneRun \/ ManyRuns \/ PrimeHeap \/ Primed \/ Pop \/ Emptied \/ Ended

Spec == Init /\ [][Next]_vars

-----------------------------------------------------------------------------
(* Properties. *)

\* Every variable stays within its type.
TypeOK ==
    /\ run \in Seq(Seq(Nat))
    /\ cut \in [Handle -> BOOLEAN]
    /\ pos \in [Handle -> Nat \ {0}]
    /\ prime \in 1..(Len(run) + 1)
    /\ heap \subseteq (Nat \X Handle)
    /\ last \in Nat \union {NoDigest}
    /\ out \in Seq(Nat)
    /\ count \in Nat
    /\ pc \in {"start", "prime", "merge", "done", "raised"}

\* At every moment the merged file is sorted and without duplicates, although
\* only the digest written last is remembered.
StrictlyAscending == Ascending(out)

\* No digest is lost between the run files, the heap and the merged file while
\* the merge goes on, and no run is abandoned: one that still has digests to
\* give has a pair on the heap, as nothing but its pair makes it advance.
NothingLost ==
    pc \in {"prime", "merge"} =>
        /\ All = Written \union {e[1] : e \in heap} \union UNION {Unread(i) : i \in Handle}
        /\ \A i \in Handle : i < prime /\ Unread(i) # {} => \E e \in heap : e[2] = i

\* The heap, all that is kept in memory, has at most one pair per run.
HeapBounded == \A e, f \in heap : e[2] = f[2] => e = f

\* A merge that returns has written the union of its runs, and the number it
\* returns, which becomes the count field of the pack, is the number written.
MergeExact == pc = "done" => Written = All /\ count = Len(out)

\* A run cut short never yields a result.
CutRunRefused == pc = "done" => \A i \in Handle : ~cut[i]
=============================================================================
