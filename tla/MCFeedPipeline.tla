--------------------------- MODULE MCFeedPipeline ---------------------------
(***************************************************************************)
(* Two runs and two algorithms, either run first.  With a limit of 5 and a *)
(* header of 2 an asset holds three digests of md5, but only two of sha256 *)
(* and one behind a header.  Of sha256, run 1 makes three pieces, after an *)
(* attempt with a piece over the limit, and run 2 makes two, or a single   *)
(* file when it misses a part.  Of md5, run 1 has no part and run 2 makes  *)
(* a single file.                                                          *)
(***************************************************************************)
EXTENDS FeedPipeline

MCAlgo == {"md5", "sha256"}
MCDigestSize == [a \in MCAlgo |-> IF a = "md5" THEN 1 ELSE 2]
MCDb == << [a \in MCAlgo |-> IF a = "md5" THEN << >> ELSE <<{1, 2, 3}>>],
           [a \in MCAlgo |-> IF a = "md5" THEN <<{1, 2}>> ELSE <<{1}, {1, 7}>>] >>

\* For the runs one after the other: each order of the two splits one algorithm
\* that was a single file and leaves the other as a single file that was split.
MCStaleDb == << [a \in MCAlgo |-> IF a = "md5" THEN <<{1}>> ELSE <<{1, 2}>>],
                [a \in MCAlgo |-> IF a = "md5" THEN <<{1, 2, 3, 4}>> ELSE <<{1}>>] >>

\* At most one run is under way.
OneAtATime ==
    Cardinality({r \in Run : stage[r] \notin {"waiting", "skipped", "carvefailed",
                                             "mergefailed", "done"}}) <= 1

SequentialSpec == Init /\ [][Next /\ OneAtATime']_vars
=============================================================================
