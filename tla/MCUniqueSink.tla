---------------------------- MODULE MCUniqueSink ----------------------------
(***************************************************************************)
(* All databases of up to two pages with up to two cells each, the cells   *)
(* taken from a row with three digests, a row that shares one with it and  *)
(* is cut behind its second column, a row with an unreadable column and a  *)
(* short value in the place of a long one, an unreadable cell and a cut    *)
(* pointer.                                                                *)
(***************************************************************************)
EXTENDS UniqueSink

Row(fit, cols) == [kind |-> "row", fit |-> fit, cols |-> cols]
Other(kind) == [kind |-> kind, fit |-> 0, cols |-> << >>]

MCDigests == {16, 20, 32} \X (1..3)
MCCells == {Row(3, << <<16, 1>>, <<20, 1>>, <<32, 1>> >>),
            Row(2, << <<16, 2>>, <<20, 1>>, <<32, 2>> >>),
            Row(3, << <<16, 1>>, <<16, 3>>, Bad >>),
            Other("skip"), Other("cut")}
MCPages == {[leaf |-> TRUE, cells |-> s] : s \in {<< >>} \union SeqOf(MCCells, 2)}
             \union {[leaf |-> FALSE, cells |-> << >>]}
MCDbs == SeqOf(MCPages, 2)
MCCaps == {0, 1, 2, 4}
=============================================================================
