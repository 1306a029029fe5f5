----------------------------- MODULE MCKWayMerge -----------------------------
(* KWayMerge on every list of up to MaxRuns runs over the digests 1..MaxDigest. *)
EXTENDS KWayMerge

CONSTANTS MaxRuns, MaxDigest

SortedRuns == {s \in UNION {[1..n -> 1..MaxDigest] : n \in 0..MaxDigest} : Ascending(s)}

MCInputs == UNION {[1..n -> SortedRuns] : n \in 0..MaxRuns}
=============================================================================
