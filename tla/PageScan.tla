------------------------------ MODULE PageScan ------------------------------
(***************************************************************************)
(* What a full-scan carve promises: the pages of one database image are    *)
(* scanned, digests are published only from scanned pages, and the run may *)
(* report success only when every page has been scanned and, for every     *)
(* algorithm, exactly the digests of those pages are published.  Nothing   *)
(* is said of arenas, threads, shards or checkpoints: CarveEngine shows    *)
(* how the native engine gets there.                                       *)
(***************************************************************************)
EXTENDS Naturals

CONSTANTS Page,      \* every page number an image may have
          Row,       \* metadata rows; a row stands for its three digests
          RowsOn,    \* the rows whose digests a page holds
          Algo       \* the digest algorithms published

VARIABLES image,     \* the pages of the image being scanned, fixed
          pages,     \* the pages scanned so far
          out,       \* the digests published so far, per algorithm
          outcome    \* "running", then "ok" or "failed"

vars == <<image, pages, out, outcome>>

RowsIn(S) == UNION {RowsOn[p] : p \in S}

TypeOK ==
    /\ image \subseteq Page
    /\ pages \subseteq Page
    /\ out \in [Algo -> SUBSET Row]
    /\ outcome \in {"running", "ok", "failed"}

Init ==
    /\ image \in SUBSET Page
    /\ pages = {}
    /\ out = [a \in Algo |-> {}]
    /\ outcome = "running"

\* A page of the image is scanned.
Scan ==
    /\ outcome = "running"
    /\ \E p \in image : pages' = pages \union {p}
    /\ UNCHANGED <<image, out, outcome>>

\* Digests found on scanned pages are published, never withdrawn.
Publish ==
    /\ outcome = "running"
    /\ \E a \in Algo, S \in SUBSET RowsIn(pages) :
         out' = [out EXCEPT ![a] = @ \union S]
    /\ UNCHANGED <<image, pages, outcome>>

\* Success means nothing was sampled, capped or skipped.
Succeed ==
    /\ outcome = "running"
    /\ pages = image
    /\ \A a \in Algo : out[a] = RowsIn(image)
    /\ outcome' = "ok"
    /\ UNCHANGED <<image, pages, out>>

Fail ==
    /\ outcome = "running"
    /\ outcome' = "failed"
    /\ UNCHANGED <<image, pages, out>>

Next == Scan \/ Publish \/ Succeed \/ Fail

Spec == Init /\ [][Next]_vars
=============================================================================
