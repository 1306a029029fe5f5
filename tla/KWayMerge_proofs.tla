-------------------------- MODULE KWayMerge_proofs --------------------------
(***************************************************************************)
(* The k-way merge is exact for any number of runs of any length: the      *)
(* merged file is strictly ascending and is the union of the runs.         *)
(***************************************************************************)
EXTENDS KWayMerge, FiniteSetTheorems, FunctionTheorems, SequenceTheorems, TLAPS

\* Every pair on the heap is the digest read last from its handle, and no
\* handle has two.
HeapIsLastRead ==
    \A e \in heap : /\ e[2] < prime
                    /\ pos[e[2]] > 1
                    /\ e[1] = run[e[2]][pos[e[2]] - 1]

\* A handle that has been primed has a pair on the heap or is at its end; one
\* that has not is at its beginning.
HandlesAccounted ==
    \A i \in Handle :
        /\ pos[i] <= Len(run[i]) + 1
        /\ i >= prime => pos[i] = 1
        /\ i < prime /\ (\A e \in heap : e[2] # i) => AtEnd(i)

\* A digest that has been read is written or on the heap.
ReadAccounted ==
    \A i \in Handle : \A j \in 1..Len(run[i]) :
        j < pos[i] => run[i][j] \in Written \/ <<run[i][j], i>> \in heap

\* The digest written last is that of the file and no pair is below it.
LastIsFloor ==
    /\ last = IF out = <<>> THEN NoDigest ELSE out[Len(out)]
    /\ \A e \in heap : last <= e[1]

\* What holds while the loops run.
Merging ==
    /\ HeapIsLastRead /\ HandlesAccounted /\ ReadAccounted /\ LastIsFloor
    /\ count = Len(out)
    /\ pc = "prime" => out = <<>>
    /\ pc = "merge" => prime = Len(run) + 1

\* The inductive invariant.
IInv ==
    /\ TypeOK
    /\ run \in Inputs
    /\ Written \subseteq All
    /\ StrictlyAscending
    /\ HeapBounded
    /\ pc = "start" => out = <<>> /\ heap = {} /\ prime = 1 /\ last = NoDigest
                       /\ count = 0 /\ \A i \in Handle : pos[i] = 1
    /\ pc \in {"prime", "merge"} => Merging
    /\ MergeExact /\ CutRunRefused

LEMMA RunFacts ==
    ASSUME run \in Inputs
    PROVE  /\ run \in Seq(Seq(Nat))
           /\ \A i \in Handle : Ascending(run[i]) /\ run[i] \in Seq(Nat)
  BY InputsAssumption DEF Handle

\* Appending a number above the last one keeps a sequence ascending.
LEMMA AppendAscending ==
    ASSUME NEW s \in Seq(Nat), NEW d \in Nat, Ascending(s),
           s # <<>> => s[Len(s)] < d
    PROVE  Ascending(Append(s, d))
<1>1. \A k \in 1..Len(s) : s[k] < d
  <2> SUFFICES ASSUME NEW k \in 1..Len(s) PROVE s[k] < d
    OBVIOUS
  <2>1. s # <<>> OBVIOUS
  <2>2. s[k] \in Nat /\ s[Len(s)] \in Nat OBVIOUS
  <2>3. k = Len(s) \/ s[k] < s[Len(s)] BY DEF Ascending
  <2>4. QED BY <2>1, <2>2, <2>3
<1>2. QED BY <1>1 DEF Ascending

LEMMA InitIInv == Init => IInv
<1> SUFFICES ASSUME Init PROVE IInv
  OBVIOUS
<1> USE DEF Init
<1>1. run \in Seq(Seq(Nat)) BY RunFacts
<1>2. TypeOK BY <1>1 DEF TypeOK, Handle
<1>3. Written = {} BY DEF Written
<1>4. StrictlyAscending BY DEF StrictlyAscending, Ascending
<1>5. QED BY <1>2, <1>3, <1>4 DEF IInv, HeapBounded, MergeExact, CutRunRefused

\* The run files and the merged file decide what All and Written are.
LEMMA SameFiles ==
    /\ run' = run => All' = All /\ Handle' = Handle
    /\ out' = out => Written' = Written
  BY DEF All, InRun, Handle, Written

LEMMA NoRunsKeepsIInv == ASSUME IInv, NoRuns PROVE IInv'
<1> USE DEF NoRuns, IInv
<1>1. All = {} BY DEF All, Handle
<1>2. Handle = {} BY DEF Handle
<1>3. TypeOK' BY DEF TypeOK, Handle
<1>4. Written = {} BY DEF Written
<1>5. QED
  BY <1>1, <1>2, <1>3, <1>4, SameFiles
  DEF StrictlyAscending, HeapBounded, MergeExact, CutRunRefused

LEMMA OneRunKeepsIInv == ASSUME IInv, OneRun PROVE IInv'
<1> USE DEF OneRun, IInv
<1>1. Handle = {1} /\ Handle' = Handle
  <2>1. Handle = 1..1 BY DEF Handle
  <2>2. 1..1 = {1} OBVIOUS
  <2>3. QED BY <2>1, <2>2, SameFiles
<1>2. run[1] \in Seq(Nat) /\ Ascending(run[1]) BY RunFacts, <1>1
<1>3. TypeOK' BY <1>1, <1>2 DEF TypeOK
<1>4. All' = Written' BY <1>1, <1>2 DEF All, InRun, Written
<1>5. StrictlyAscending' BY <1>2 DEF StrictlyAscending
<1>6. HeapBounded' BY DEF HeapBounded
<1>7. (MergeExact /\ CutRunRefused)'
  BY <1>1, <1>4 DEF MergeExact, CutRunRefused, BadSize
<1>8. pc' \in {"done", "raised"} OBVIOUS
<1>9. QED BY <1>3, <1>4, <1>5, <1>6, <1>7, <1>8

LEMMA ManyRunsKeepsIInv == ASSUME IInv, ManyRuns PROVE IInv'
<1> USE DEF ManyRuns, IInv
<1>1. TypeOK' BY DEF TypeOK, Handle
<1>2. Handle' = Handle /\ All' = All /\ Written' = Written BY SameFiles
<1>3. Merging'
  <2>1. run \in Seq(Seq(Nat)) BY RunFacts
  <2>2. HeapIsLastRead' BY DEF HeapIsLastRead
  <2>3. HandlesAccounted' BY <1>2, <2>1 DEF HandlesAccounted, Handle
  <2>4. ReadAccounted' BY <1>2 DEF ReadAccounted
  <2>5. LastIsFloor' BY DEF LastIsFloor
  <2>6. QED BY <2>2, <2>3, <2>4, <2>5 DEF Merging
<1>4. (StrictlyAscending /\ HeapBounded)' BY DEF StrictlyAscending, HeapBounded
<1>5. (MergeExact /\ CutRunRefused)' BY DEF MergeExact, CutRunRefused
<1>6. QED BY <1>1, <1>2, <1>3, <1>4, <1>5

LEMMA PrimedKeepsIInv == ASSUME IInv, Primed PROVE IInv'
<1> USE DEF Primed, IInv
<1>1. TypeOK' BY DEF TypeOK, Handle
<1>2. Handle' = Handle /\ All' = All /\ Written' = Written BY SameFiles
<1>3. prime = Len(run) + 1
  <2>1. Len(run) \in Nat BY RunFacts
  <2>2. prime \in 1..(Len(run) + 1) BY DEF TypeOK
  <2>3. QED BY <2>1, <2>2
<1>4. Merging'
  BY <1>2, <1>3 DEF Merging, HeapIsLastRead, HandlesAccounted, ReadAccounted, LastIsFloor, AtEnd
<1>5. (StrictlyAscending /\ HeapBounded)' BY DEF StrictlyAscending, HeapBounded
<1>6. (MergeExact /\ CutRunRefused)' BY DEF MergeExact, CutRunRefused
<1>7. QED BY <1>1, <1>2, <1>4, <1>5, <1>6

LEMMA EmptiedKeepsIInv == ASSUME IInv, Emptied PROVE IInv'
<1> USE DEF Emptied, IInv
<1>1. TypeOK' BY DEF TypeOK, Handle
<1>2. Handle' = Handle /\ All' = All /\ Written' = Written BY SameFiles
<1>3. Merging /\ prime = Len(run) + 1 BY DEF Merging
<1>4. \A i \in Handle : AtEnd(i)
  BY <1>3, RunFacts DEF Merging, HandlesAccounted, Handle
<1>5. \A i \in Handle : \A j \in 1..Len(run[i]) : run[i][j] \in Written
  BY <1>3, <1>4, RunFacts DEF Merging, ReadAccounted, AtEnd, TypeOK
<1>6. All = Written BY <1>5 DEF All, InRun
<1>7. (MergeExact /\ CutRunRefused)'
  BY <1>2, <1>3, <1>4, <1>6 DEF MergeExact, CutRunRefused, AtEnd, Merging
<1>8. (StrictlyAscending /\ HeapBounded)' BY DEF StrictlyAscending, HeapBounded
<1>9. QED BY <1>1, <1>2, <1>7, <1>8

LEMMA PrimeHeapKeepsIInv == ASSUME IInv, PrimeHeap PROVE IInv'
<1> USE DEF IInv
<1>1. Handle' = Handle /\ All' = All /\ Written' = Written BY SameFiles DEF PrimeHeap
<1>2. /\ prime \in Handle /\ prime \in Nat /\ pos[prime] = 1 /\ Merging
      /\ pc = "prime" /\ run' = run /\ cut' = cut /\ out' = out /\ last' = last /\ count' = count
  BY DEF PrimeHeap, TypeOK, Handle, Merging, HandlesAccounted
<1>3. run[prime] \in Seq(Nat) /\ \A i \in Handle : run[i] \in Seq(Nat)
  BY RunFacts, <1>2
<1>4. (StrictlyAscending /\ MergeExact /\ CutRunRefused)'
  BY <1>1, <1>2 DEF PrimeHeap, StrictlyAscending, MergeExact, CutRunRefused
<1>5. CASE AtEnd(prime)
  <2>1. prime' = prime + 1 /\ pos' = pos /\ heap' = heap /\ pc' = pc
    BY <1>5 DEF PrimeHeap, AfterEmptyRun
  <2>2. TypeOK' BY <1>1, <1>2, <2>1 DEF TypeOK, Handle
  <2>3. HeapBounded' BY <2>1 DEF HeapBounded
  <2>4. HeapIsLastRead' BY <1>2, <2>1 DEF Merging, HeapIsLastRead, TypeOK, Handle
  <2>5. HandlesAccounted'
    BY <1>1, <1>2, <1>5, <2>1 DEF Merging, HandlesAccounted, AtEnd, Handle
  <2>6. ReadAccounted' /\ LastIsFloor'
    BY <1>1, <1>2, <2>1 DEF Merging, ReadAccounted, LastIsFloor
  <2>7. Merging' BY <1>2, <2>1, <2>4, <2>5, <2>6 DEF Merging
  <2>8. QED BY <1>1, <1>2, <1>4, <2>1, <2>2, <2>3, <2>7
<1>6. CASE ~AtEnd(prime) /\ pos[prime] > Len(run[prime])
  <2>1. pc' = "raised" /\ UNCHANGED <<pos, prime, heap>>
    BY <1>6 DEF PrimeHeap, NextDigest, TooShort
  <2>2. TypeOK' BY <1>1, <1>2, <2>1 DEF TypeOK, Handle
  <2>3. HeapBounded' BY <2>1 DEF HeapBounded
  <2>4. QED BY <1>1, <1>2, <1>4, <2>1, <2>2, <2>3
<1>7. CASE ~AtEnd(prime) /\ pos[prime] <= Len(run[prime])
  <2> DEFINE d == run[prime][1]
  <2>1. d \in Nat /\ NextDigest(prime) = d /\ ~TooShort(d)
    BY <1>2, <1>3, <1>7 DEF NextDigest, TooShort, Partial
  <2>2. /\ heap' = heap \union {<<d, prime>>} /\ pc' = pc /\ prime' = prime + 1
        /\ pos' = [pos EXCEPT ![prime] = 2]
    BY <1>2, <1>7, <2>1 DEF PrimeHeap
  <2>3. /\ pos'[prime] = 2 /\ \A i \in Handle : i # prime => pos'[i] = pos[i]
        /\ DOMAIN pos' = Handle
    BY <1>2, <2>2 DEF TypeOK
  <2>4. TypeOK' BY <1>1, <1>2, <2>1, <2>2 DEF TypeOK, Handle
  <2>5. \A e \in heap : e[2] < prime /\ e[2] \in Handle /\ e[1] \in Nat
    BY <1>2 DEF Merging, HeapIsLastRead, TypeOK
  <2>6. HeapBounded' BY <1>2, <2>2, <2>5 DEF HeapBounded, Handle
  <2>7. HeapIsLastRead'
    BY <1>2, <2>2, <2>3, <2>5 DEF Merging, HeapIsLastRead, Handle
  <2>8. HandlesAccounted'
    <3> SUFFICES ASSUME NEW i \in Handle
                 PROVE  /\ pos'[i] <= Len(run[i]) + 1
                        /\ i >= prime' => pos'[i] = 1
                        /\ i < prime' /\ (\A e \in heap' : e[2] # i) => AtEnd(i)'
      BY <1>1, <1>2 DEF HandlesAccounted
    <3>1. CASE i = prime
      <4>1. <<d, prime>> \in heap' /\ <<d, prime>>[2] = prime BY <2>2
      <4>2. pos'[prime] <= Len(run[prime]) + 1 BY <1>2, <1>3, <1>7, <2>3
      <4>3. ~(prime >= prime') BY <1>2, <2>2
      <4>4. QED BY <3>1, <4>1, <4>2, <4>3
    <3>2. CASE i # prime
      BY <1>2, <2>2, <2>3, <3>2 DEF Merging, HandlesAccounted, AtEnd, Handle
    <3>3. QED BY <3>1, <3>2
  <2>9. ReadAccounted'
    <3> SUFFICES ASSUME NEW i \in Handle, NEW j \in 1..Len(run[i]), j < pos'[i]
                 PROVE  run[i][j] \in Written \/ <<run[i][j], i>> \in heap'
      BY <1>1, <1>2 DEF ReadAccounted
    <3>1. CASE i = prime
      <4>1. j = 1 BY <1>3, <2>3, <3>1
      <4>2. QED BY <2>2, <3>1, <4>1
    <3>2. CASE i # prime BY <1>2, <2>2, <2>3, <3>2 DEF Merging, ReadAccounted
    <3>3. QED BY <3>1, <3>2
  <2>10. LastIsFloor'
    <3>1. last <= d
      BY <1>2, <2>1 DEF Merging, LastIsFloor, NoDigest
    <3>2. QED BY <1>2, <2>2, <3>1 DEF Merging, LastIsFloor
  <2>11. Merging' BY <1>2, <2>2, <2>7, <2>8, <2>9, <2>10 DEF Merging
  <2>12. QED BY <1>1, <1>2, <1>4, <2>2, <2>4, <2>6, <2>11
<1>8. pos[prime] > Len(run[prime]) \/ pos[prime] <= Len(run[prime])
  <2>1. pos[prime] \in Nat BY <1>2, <1>3 DEF TypeOK
  <2>2. Len(run[prime]) \in Nat BY <1>3
  <2>3. QED BY <2>1, <2>2
<1>9. QED BY <1>5, <1>6, <1>7, <1>8

\* Neighbours in a sorted run.
LEMMA AscendingStep ==
    ASSUME NEW s \in Seq(Nat), Ascending(s), NEW k \in 1..Len(s), k - 1 \in 1..Len(s)
    PROVE  s[k - 1] < s[k] /\ s[k] \in Nat
BY DEF Ascending

\* What one turn of the loop writes, whatever is read next.
LEMMA PopWrites ==
    ASSUME IInv, pc = "merge", NEW e \in heap, Smallest(e),
           IF IsNew(e[1])
           THEN out' = Append(out, e[1]) /\ last' = e[1] /\ count' = count + 1
           ELSE UNCHANGED <<out, last, count>>
    PROVE  /\ out' \in Seq(Nat) /\ Ascending(out') /\ out' # <<>>
           /\ last' = e[1] /\ last' = out'[Len(out')]
           /\ count' = Len(out')
           /\ e[1] \in Written' /\ Written \subseteq Written' /\ Written' \subseteq All
<1> USE DEF IInv
<1>1. Merging /\ out \in Seq(Nat) /\ Ascending(out)
  BY DEF TypeOK, StrictlyAscending
<1>2. e[1] \in Nat /\ e[2] \in Handle /\ last <= e[1] /\ count = Len(out)
  BY <1>1 DEF TypeOK, Merging, LastIsFloor
<1>3. e[1] \in All
  <2>1. pos[e[2]] > 1 /\ e[1] = run[e[2]][pos[e[2]] - 1] /\ pos[e[2]] <= Len(run[e[2]]) + 1
    BY <1>1, <1>2 DEF Merging, HeapIsLastRead, HandlesAccounted
  <2>2. pos[e[2]] - 1 \in 1..Len(run[e[2]])
    <3>1. run[e[2]] \in Seq(Nat) BY <1>2, RunFacts
    <3>2. Len(run[e[2]]) \in Nat BY <3>1
    <3>3. pos[e[2]] \in Nat BY <1>2 DEF TypeOK
    <3>4. QED BY <2>1, <3>2, <3>3
  <2>3. QED BY <1>2, <2>1, <2>2 DEF All, InRun
<1>4. CASE IsNew(e[1])
  <2>1. out' = Append(out, e[1]) /\ last' = e[1] /\ count' = count + 1
    BY <1>4
  <2>2. out # <<>> => out[Len(out)] < e[1]
    <3>1. out # <<>> => out[Len(out)] = last BY <1>1 DEF Merging, LastIsFloor
    <3>2. out # <<>> => out[Len(out)] \in Nat BY <1>1
    <3>3. QED BY <1>2, <1>4, <3>1, <3>2 DEF IsNew
  <2>3. Ascending(out') BY <1>1, <1>2, <2>1, <2>2, AppendAscending
  <2>4. out' \in Seq(Nat) /\ Len(out') = Len(out) + 1 /\ out'[Len(out')] = e[1]
        /\ \A k \in 1..Len(out) : out'[k] = out[k]
    BY <1>1, <1>2, <2>1
  <2>5. Written' = Written \union {e[1]} BY <1>1, <2>4 DEF Written
  <2>6. QED BY <1>1, <1>2, <1>3, <2>1, <2>3, <2>4, <2>5
<1>5. CASE ~IsNew(e[1])
  <2>1. UNCHANGED <<out, last, count>> BY <1>5
  <2>2. e[1] = last BY <1>5 DEF IsNew
  <2>3. out # <<>> /\ last = out[Len(out)]
    BY <1>1, <1>2, <2>2 DEF Merging, LastIsFloor, NoDigest
  <2>4. e[1] \in Written BY <1>1, <2>2, <2>3 DEF Written
  <2>5. Written' = Written BY <2>1, SameFiles
  <2>6. QED BY <1>1, <1>2, <2>1, <2>2, <2>3, <2>4, <2>5
<1>6. QED BY <1>4, <1>5

LEMMA PopKeepsIInv == ASSUME IInv, Pop PROVE IInv'
<1> USE DEF IInv
<1>1. PICK e \in heap :
        /\ Smallest(e)
        /\ IF IsNew(e[1])
           THEN out' = Append(out, e[1]) /\ last' = e[1] /\ count' = count + 1
           ELSE UNCHANGED <<out, last, count>>
        /\ IF Refills(e)
           THEN LET d == NextDigest(e[2]) IN
                IF TooShort(d)
                THEN pc' = "raised" /\ heap' = Popped(e) /\ UNCHANGED pos
                ELSE /\ heap' = Popped(e) \union {<<d, e[2]>>}
                     /\ pos' = [pos EXCEPT ![e[2]] = @ + 1]
                     /\ UNCHANGED pc
           ELSE heap' = Popped(e) /\ UNCHANGED <<pos, pc>>
  BY Zenon DEF Pop
<1>2. pc = "merge" /\ run' = run /\ cut' = cut /\ prime' = prime
  BY DEF Pop
<1>3. Handle' = Handle /\ All' = All BY <1>2, SameFiles
<1>4. /\ out' \in Seq(Nat) /\ Ascending(out') /\ out' # <<>>
      /\ last' = e[1] /\ last' = out'[Len(out')] /\ count' = Len(out')
      /\ e[1] \in Written' /\ Written \subseteq Written' /\ Written' \subseteq All
  BY <1>1, <1>2, PopWrites
<1> DEFINE i == e[2]
<1>5. /\ Merging /\ prime = Len(run) + 1
      /\ e = <<e[1], i>> /\ e[1] \in Nat /\ i \in Handle /\ i < prime
      /\ pos[i] > 1 /\ pos[i] <= Len(run[i]) + 1 /\ e[1] = run[i][pos[i] - 1]
      /\ pos \in [Handle -> Nat \ {0}] /\ pos[i] \in Nat /\ count' \in Nat
  <2>1. Merging /\ prime = Len(run) + 1 BY <1>2 DEF Merging
  <2>2. e \in Nat \X Handle /\ pos \in [Handle -> Nat \ {0}] BY DEF TypeOK
  <2>3. e = <<e[1], i>> /\ e[1] \in Nat /\ i \in Handle BY <2>2
  <2>4. pos[i] \in Nat BY <2>2, <2>3
  <2>5. i < prime /\ pos[i] > 1 /\ e[1] = run[i][pos[i] - 1]
    BY <2>1 DEF Merging, HeapIsLastRead
  <2>6. pos[i] <= Len(run[i]) + 1 BY <2>1, <2>3 DEF Merging, HandlesAccounted
  <2>7. count' \in Nat BY <1>4
  <2>8. QED BY <2>1, <2>2, <2>3, <2>4, <2>5, <2>6, <2>7
<1>6. run[i] \in Seq(Nat) /\ Ascending(run[i]) BY <1>5, RunFacts
<1>7. \A f \in heap : e[1] <= f[1] /\ f[1] \in Nat /\ f[2] \in Handle
  <2>1. \A f \in heap : f[1] \in Nat /\ f[2] \in Handle BY DEF TypeOK
  <2>2. \A f \in heap : e[1] < f[1] \/ e[1] = f[1] BY <1>1 DEF Smallest
  <2>3. QED BY <1>5, <2>1, <2>2
<1>8. \A f \in Popped(e) : f \in heap /\ f[2] # i BY <1>5 DEF Popped, HeapBounded
<1>9. /\ StrictlyAscending' /\ (run \in Inputs)' /\ (Written \subseteq All)'
      /\ pc' # "done" /\ pc' # "start"
  BY <1>1, <1>2, <1>3, <1>4 DEF StrictlyAscending
<1>10. (MergeExact /\ CutRunRefused)' BY <1>9 DEF MergeExact, CutRunRefused
<1>11. CASE AtEnd(i)
  <2>1. heap' = Popped(e) /\ pos' = pos /\ pc' = pc BY <1>1, <1>11 DEF Refills
  <2>2. TypeOK' BY <1>2, <1>3, <1>4, <1>5, <2>1 DEF TypeOK, Popped, Handle
  <2>3. HeapBounded' BY <2>1, <1>8 DEF HeapBounded
  <2>4. HeapIsLastRead' BY <1>2, <1>5, <1>8, <2>1 DEF Merging, HeapIsLastRead
  <2>5. HandlesAccounted'
    BY <1>2, <1>3, <1>5, <1>11, <2>1 DEF Merging, HandlesAccounted, AtEnd, Popped
  <2>6. ReadAccounted'
    BY <1>2, <1>3, <1>4, <1>5, <2>1, SMTT(30) DEF Merging, ReadAccounted, Popped
  <2>7. LastIsFloor' BY <1>4, <1>7, <1>8, <2>1 DEF LastIsFloor
  <2>8. Merging' BY <1>2, <1>4, <1>5, <2>1, <2>4, <2>5, <2>6, <2>7 DEF Merging
  <2>9. QED BY <1>9, <1>10, <2>2, <2>3, <2>8
<1>12. CASE ~AtEnd(i) /\ pos[i] > Len(run[i])
  <2>1. heap' = Popped(e) /\ pos' = pos /\ pc' = "raised"
    BY <1>1, <1>12 DEF Refills, NextDigest, TooShort
  <2>2. TypeOK' BY <1>2, <1>3, <1>4, <1>5, <2>1 DEF TypeOK, Popped, Handle
  <2>3. HeapBounded' BY <2>1, <1>8 DEF HeapBounded
  <2>4. QED BY <1>9, <1>10, <2>1, <2>2, <2>3
<1>13. CASE ~AtEnd(i) /\ pos[i] <= Len(run[i])
  <2> DEFINE d == run[i][pos[i]]
  <2>1. d \in Nat /\ NextDigest(i) = d /\ ~TooShort(d) /\ e[1] < d
    <3>1. pos[i] \in 1..Len(run[i]) /\ pos[i] - 1 \in 1..Len(run[i])
      BY <1>5, <1>6, <1>13, SMTT(30)
    <3>2. d \in Nat BY <1>6, <3>1, AscendingStep
    <3>3. NextDigest(i) = d BY <1>5, <1>13, <3>1 DEF NextDigest
    <3>4. ~TooShort(d) BY <3>2 DEF TooShort, Partial
    <3>5. run[i][pos[i] - 1] < run[i][pos[i]]
      BY <1>6, <3>1, AscendingStep
    <3>6. QED BY <1>5, <3>2, <3>3, <3>4, <3>5
  <2>2. /\ heap' = Popped(e) \union {<<d, i>>} /\ pc' = pc
        /\ pos' = [pos EXCEPT ![i] = @ + 1]
    BY <1>1, <1>13, <2>1 DEF Refills
  <2>3. pos'[i] = pos[i] + 1 /\ \A h \in Handle : h # i => pos'[h] = pos[h]
    BY <1>5, <2>2
  <2>4. TypeOK'
    <3>1. pos' \in [Handle -> Nat \ {0}] BY <1>5, <2>2
    <3>2. heap' \subseteq Nat \X Handle
      <4>1. Popped(e) \subseteq Nat \X Handle BY DEF Popped, TypeOK
      <4>2. <<d, i>> \in Nat \X Handle BY <1>5, <2>1
      <4>3. QED BY <2>2, <4>1, <4>2
    <3>3. QED BY <1>2, <1>3, <1>4, <1>5, <2>2, <3>1, <3>2 DEF TypeOK
  <2>5. HeapBounded' BY <1>8, <2>2 DEF HeapBounded
  <2>6. HeapIsLastRead'
    BY <1>2, <1>5, <1>7, <1>8, <2>2, <2>3, SMTT(30) DEF Merging, HeapIsLastRead
  <2>7. HandlesAccounted'
    <3> SUFFICES ASSUME NEW h \in Handle
                 PROVE  /\ pos'[h] <= Len(run[h]) + 1
                        /\ h >= prime => pos'[h] = 1
                        /\ h < prime /\ (\A f \in heap' : f[2] # h) => AtEnd(h)'
      BY <1>2, <1>3 DEF HandlesAccounted
    <3>1. CASE h = i
      <4>1. <<d, i>> \in heap' /\ <<d, i>>[2] = i BY <2>2
      <4>2. pos'[i] <= Len(run[i]) + 1 BY <1>5, <1>6, <1>13, <2>3
      <4>3. ~(i >= prime) BY <1>5 DEF Handle
      <4>4. QED BY <3>1, <4>1, <4>2, <4>3
    <3>2. CASE h # i
      BY <1>2, <1>5, <2>2, <2>3, <3>2 DEF Merging, HandlesAccounted, AtEnd, Popped
    <3>3. QED BY <3>1, <3>2
  <2>8. ReadAccounted'
    <3> SUFFICES ASSUME NEW h \in Handle, NEW j \in 1..Len(run[h]), j < pos'[h]
                 PROVE  run[h][j] \in Written' \/ <<run[h][j], h>> \in heap'
      BY <1>2, <1>3 DEF ReadAccounted
    <3>1. CASE h = i /\ j = pos[i] BY <2>2, <3>1
    <3>2. CASE h # i \/ j < pos[i]
      <4>1. run[h][j] \in Written \/ <<run[h][j], h>> \in heap
        BY <1>5, <2>3, <3>2 DEF Merging, ReadAccounted
      <4>2. QED BY <1>4, <1>5, <2>2, <4>1, SMTT(30) DEF Popped
    <3>3. QED BY <1>5, <2>3, <3>1, <3>2
  <2>9. LastIsFloor' BY <1>4, <1>5, <1>7, <1>8, <2>1, <2>2 DEF LastIsFloor
  <2>10. Merging' BY <1>2, <1>4, <1>5, <2>2, <2>6, <2>7, <2>8, <2>9 DEF Merging
  <2>11. QED BY <1>9, <1>10, <2>2, <2>4, <2>5, <2>10
<1>14. QED BY <1>5, <1>6, <1>11, <1>12, <1>13

LEMMA StepIInv == IInv /\ [Next]_vars => IInv'
<1> SUFFICES ASSUME IInv, [Next]_vars PROVE IInv'
  OBVIOUS
<1>1. CASE NoRuns BY <1>1, NoRunsKeepsIInv
<1>2. CASE OneRun BY <1>2, OneRunKeepsIInv
<1>3. CASE ManyRuns BY <1>3, ManyRunsKeepsIInv
<1>4. CASE PrimeHeap BY <1>4, PrimeHeapKeepsIInv
<1>5. CASE Primed BY <1>5, PrimedKeepsIInv
<1>6. CASE Pop BY <1>6, PopKeepsIInv
<1>7. CASE Emptied BY <1>7, EmptiedKeepsIInv
<1>8. CASE Ended \/ UNCHANGED vars
  <2>1. UNCHANGED vars BY <1>8 DEF Ended
  <2>2. QED
    BY <2>1, SameFiles
    DEF vars, IInv, TypeOK, StrictlyAscending, HeapBounded, MergeExact, CutRunRefused,
        Handle, Merging, HeapIsLastRead, HandlesAccounted, ReadAccounted, LastIsFloor, AtEnd
<1>9. QED BY <1>1, <1>2, <1>3, <1>4, <1>5, <1>6, <1>7, <1>8 DEF Next

LEMMA Invariance == Spec => []IInv
  BY InitIInv, StepIInv, PTL DEF Spec

\* The types of KWayMerge hold in every reachable state, for any runs.
THEOREM TypeCorrect == Spec => []TypeOK
<1>1. IInv => TypeOK BY DEF IInv
<1>2. QED BY <1>1, Invariance, PTL

\* merge_sorted_raw_runs writes a sorted file without duplicates.
THEOREM OutputAscending == Spec => []StrictlyAscending
<1>1. IInv => StrictlyAscending BY DEF IInv
<1>2. QED BY <1>1, Invariance, PTL

\* When merge_sorted_raw_runs returns, the file is the union of the runs and the
\* number it returns is the number of digests in the file.
THEOREM MergeIsExact == Spec => []MergeExact
<1>1. IInv => MergeExact BY DEF IInv
<1>2. QED BY <1>1, Invariance, PTL

\* Between the run files, the heap and the merged file no digest goes missing,
\* and no run that has more to give is left without a pair.
THEOREM MergeLosesNothing == Spec => []NothingLost
<1>1. IInv => NothingLost
  <2> SUFFICES ASSUME IInv, pc \in {"prime", "merge"}
               PROVE  /\ All = Written \union {e[1] : e \in heap}
                                \union UNION {Unread(i) : i \in Handle}
                      /\ \A i \in Handle : i < prime /\ Unread(i) # {} =>
                             \E e \in heap : e[2] = i
    BY DEF NothingLost
  <2>1. /\ Merging /\ Written \subseteq All /\ heap \subseteq Nat \X Handle
        /\ pos \in [Handle -> Nat \ {0}]
        /\ \A i \in Handle : run[i] \in Seq(Nat)
    BY RunFacts DEF IInv, TypeOK
  <2>2. \A i \in Handle : Unread(i) \subseteq InRun(i) BY <2>1 DEF Unread, InRun
  <2>3. \A e \in heap : e[1] \in All
    <3> SUFFICES ASSUME NEW e \in heap PROVE e[1] \in All
      OBVIOUS
    <3>1. e[2] \in Handle /\ pos[e[2]] > 1 /\ e[1] = run[e[2]][pos[e[2]] - 1]
          /\ pos[e[2]] <= Len(run[e[2]]) + 1
      BY <2>1 DEF Merging, HeapIsLastRead, HandlesAccounted
    <3>2. pos[e[2]] - 1 \in 1..Len(run[e[2]])
      <4>1. run[e[2]] \in Seq(Nat) /\ pos[e[2]] \in Nat BY <2>1, <3>1
      <4>2. QED BY <3>1, <4>1
    <3>3. QED BY <3>1, <3>2 DEF All, InRun
  <2>4. ASSUME NEW i \in Handle, NEW j \in 1..Len(run[i])
        PROVE  run[i][j] \in Written \/ <<run[i][j], i>> \in heap \/ run[i][j] \in Unread(i)
    BY <2>1 DEF Merging, ReadAccounted, Unread
  <2>5. ASSUME NEW i \in Handle, NEW j \in 1..Len(run[i])
        PROVE  run[i][j] \in Written \union {e[1] : e \in heap}
                                 \union UNION {Unread(h) : h \in Handle}
    <3>1. run[i][j] \in Written \/ <<run[i][j], i>> \in heap \/ run[i][j] \in Unread(i)
      BY <2>4, <2>5
    <3>2. ASSUME <<run[i][j], i>> \in heap PROVE run[i][j] \in {e[1] : e \in heap}
      <4>1. <<run[i][j], i>>[1] = run[i][j] OBVIOUS
      <4>2. QED BY <3>2, <4>1
    <3>3. ASSUME run[i][j] \in Unread(i)
          PROVE  run[i][j] \in UNION {Unread(h) : h \in Handle}
      BY <2>5, <3>3
    <3>4. QED BY <3>1, <3>2, <3>3
  <2>6. ASSUME NEW i \in Handle, i < prime, Unread(i) # {}
        PROVE  \E e \in heap : e[2] = i
    BY <2>1, <2>6 DEF Merging, HandlesAccounted, AtEnd, Unread
  <2>7. All \subseteq Written \union {e[1] : e \in heap}
                        \union UNION {Unread(i) : i \in Handle}
    BY <2>5 DEF All, InRun
  <2>8. UNION {Unread(i) : i \in Handle} \subseteq All BY <2>2 DEF All
  <2>9. QED BY <2>1, <2>3, <2>6, <2>7, <2>8
<1>2. QED BY <1>1, Invariance, PTL

\* Memory holds at most one digest per run, however long the runs are.
THEOREM OnePairPerRun == Spec => []HeapBounded
<1>1. IInv => HeapBounded BY DEF IInv
<1>2. QED BY <1>1, Invariance, PTL

\* No result is returned from a run that ends in the middle of a digest.
THEOREM CutRunsRefused == Spec => []CutRunRefused
<1>1. IInv => CutRunRefused BY DEF IInv
<1>2. QED BY <1>1, Invariance, PTL

-----------------------------------------------------------------------------
(* The merged file is the sorted list the packs are made of. *)

LEMMA FirstsCount ==
    ASSUME NEW s \in Seq(Nat), Ascending(s), NEW n \in 0..Len(s)
    PROVE  Cardinality({s[j] : j \in 1..n}) = n
<1> DEFINE F == {s[j] : j \in 1..n}
           f == [j \in 1..n |-> s[j]]
<1>1. \A j \in 1..n : j \in 1..Len(s) /\ s[j] \in Nat OBVIOUS
<1>2. \A j, k \in 1..n : s[j] = s[k] => j = k
  <2> SUFFICES ASSUME NEW j \in 1..n, NEW k \in 1..n, s[j] = s[k] PROVE j = k
    OBVIOUS
  <2>1. ~(s[j] < s[k]) /\ ~(s[k] < s[j]) BY <1>1
  <2>2. ~(j < k) /\ ~(k < j) BY <1>1, <2>1 DEF Ascending
  <2>3. QED BY <2>2
<1>3. f \in [1..n -> F] /\ \A d \in F : \E j \in 1..n : f[j] = d OBVIOUS
<1>4. \A j, k \in 1..n : f[j] = f[k] => j = k BY <1>2
<1> HIDE DEF f, F
<1>5. f \in Bijection(1..n, F) BY <1>3, <1>4, Fun_IsBij
<1>6. ExistsBijection(1..n, F) BY <1>5, Fun_ExistsBij
<1>7. n \in Nat OBVIOUS
<1>8. Cardinality(F) = n BY <1>6, <1>7, FS_CountingElements
<1>9. QED BY <1>8 DEF F

\* There is one way to write a set of digests in ascending order.
LEMMA AscendingIsSorted ==
    ASSUME NEW s \in Seq(Nat), Ascending(s)
    PROVE  /\ Cardinality({s[j] : j \in 1..Len(s)}) = Len(s)
           /\ s = Sorted({s[j] : j \in 1..Len(s)})
<1> DEFINE S == {s[j] : j \in 1..Len(s)}
           Rank(d) == Cardinality({e \in S : e < d})
<1>1. Len(s) \in Nat /\ Cardinality(S) = Len(s) BY FirstsCount
<1>2. ASSUME NEW i \in 1..Len(s) PROVE Rank(s[i]) = i - 1
  <2>1. {e \in S : e < s[i]} = {s[j] : j \in 1..(i - 1)}
    <3>1. ASSUME NEW j \in 1..(i - 1) PROVE s[j] \in S /\ s[j] < s[i]
      <4>1. j \in 1..Len(s) /\ j < i OBVIOUS
      <4>2. QED BY <4>1 DEF Ascending
    <3>2. ASSUME NEW e \in S, e < s[i] PROVE e \in {s[j] : j \in 1..(i - 1)}
      <4>1. PICK j \in 1..Len(s) : e = s[j] OBVIOUS
      <4>2. s[i] \in Nat /\ s[j] \in Nat OBVIOUS
      <4>3. ~(i < j) /\ i # j BY <3>2, <4>1, <4>2 DEF Ascending
      <4>4. j \in 1..(i - 1) BY <4>3
      <4>5. QED BY <4>1, <4>4
    <3>3. QED BY <3>1, <3>2
  <2>2. i - 1 \in 0..Len(s) OBVIOUS
  <2>3. QED BY <2>1, <2>2, FirstsCount
<1>3. ASSUME NEW i \in 1..Len(s) PROVE (CHOOSE d \in S : Rank(d) = i - 1) = s[i]
  <2>1. ASSUME NEW d \in S, Rank(d) = i - 1 PROVE d = s[i]
    <3>1. PICK j \in 1..Len(s) : d = s[j] OBVIOUS
    <3>2. j - 1 = i - 1 BY <1>2, <2>1, <3>1
    <3>3. QED BY <3>1, <3>2
  <2>2. s[i] \in S /\ Rank(s[i]) = i - 1 BY <1>2
  <2> HIDE DEF S, Rank
  <2>3. QED BY <2>1, <2>2
<1>4. Sorted(S) = [i \in 1..Cardinality(S) |-> CHOOSE d \in S : Rank(d) = i - 1]
  BY DEF Sorted
<1> HIDE DEF S, Rank
<1>5. Sorted(S) = [i \in 1..Len(s) |-> s[i]] BY <1>1, <1>3, <1>4
<1>6. s = [i \in 1..Len(s) |-> s[i]] OBVIOUS
<1>7. QED BY <1>1, <1>5, <1>6 DEF S

\* A merge that returns has written the digests of all runs as Pack of
\* FeedPipeline has them, and returns how many there are.
ResultIsSorted == pc = "done" => out = Sorted(All) /\ count = Cardinality(All)

\* merge_one_algo's payload and its header's count are those of the union of the
\* parts, for any number of runs of any length.
THEOREM MergeSorts == Spec => []ResultIsSorted
<1>1. IInv => ResultIsSorted
  <2> SUFFICES ASSUME IInv, pc = "done" PROVE out = Sorted(All) /\ count = Cardinality(All)
    BY DEF ResultIsSorted
  <2>1. out \in Seq(Nat) /\ Ascending(out) BY DEF IInv, TypeOK, StrictlyAscending
  <2>2. All = {out[k] : k \in 1..Len(out)} /\ count = Len(out)
    BY DEF IInv, MergeExact, Written
  <2>3. QED BY <2>1, <2>2, AscendingIsSorted
<1>2. QED BY <1>1, Invariance, PTL
=============================================================================
