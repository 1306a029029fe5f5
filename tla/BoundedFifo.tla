----------------------------- MODULE BoundedFifo -----------------------------
(***************************************************************************)
(* What a byte ring promises the two threads that share it: bytes come out *)
(* in the order they went in, none twice and none lost, never more than    *)
(* Capacity of them are under way, and the producer ends the stream once,  *)
(* well or with an error, behind which no byte is read.                    *)
(***************************************************************************)
EXTENDS Naturals, Sequences

CONSTANT Capacity

VARIABLES queue,    \* the bytes under way, named by their number
          sent,     \* how many have gone in
          status    \* "open", then "closed" or "failed"

vars == <<queue, sent, status>>

Init == queue = <<>> /\ sent = 0 /\ status = "open"

Send ==
    /\ status = "open"
    /\ \E n \in 1..(Capacity - Len(queue)) :
         /\ queue' = queue \o [j \in 1..n |-> sent + j - 1]
         /\ sent' = sent + n
    /\ UNCHANGED status

Receive ==
    /\ status # "failed"
    /\ \E n \in 1..Len(queue) : queue' = SubSeq(queue, n + 1, Len(queue))
    /\ UNCHANGED <<sent, status>>

End ==
    /\ status = "open"
    /\ status' \in {"closed", "failed"}
    /\ UNCHANGED <<queue, sent>>

Next == Send \/ Receive \/ End

Spec == Init /\ [][Next]_vars
=============================================================================
