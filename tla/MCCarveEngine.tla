---------------------------- MODULE MCCarveEngine ----------------------------
(***************************************************************************)
(* Small instances of CarveEngine: pages of three units, arenas that are   *)
(* not a multiple of a page, so pages straddle them, and three rows that   *)
(* pages share, so a digest turns up again after it has been published.    *)
(***************************************************************************)
EXTENDS CarveEngine

CONSTANTS r1, r2, r3

MCRow == {r1, r2, r3}

\* r1 and r2 are on two pages; page 4 is an interior page, which holds no rows.
MCRowsOn == [q \in Page |-> CASE q = 0 -> {r1}
                              [] q = 1 -> {r2}
                              [] q = 2 -> {r1, r3}
                              [] q = 3 -> {r2}
                              [] q = 4 -> {}
                              [] OTHER -> {r3}]
=============================================================================
