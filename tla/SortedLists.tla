----------------------------- MODULE SortedLists -----------------------------
(***************************************************************************)
(* The payload of a pack: digests in ascending order, each once.           *)
(* KWayMerge writes such a list, FeedPipeline makes packs of it.           *)
(***************************************************************************)
EXTENDS Integers, Sequences, FiniteSets

Ascending(s) == \A i, j \in 1..Len(s) : i < j => s[i] < s[j]

\* The members of a finite set of numbers in ascending order.
Sorted(S) == [i \in 1..Cardinality(S) |->
                CHOOSE d \in S : Cardinality({e \in S : e < d}) = i - 1]
=============================================================================
