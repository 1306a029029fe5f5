----------------------------- MODULE MCByteRing -----------------------------
(* ByteRing with the constants of its configuration. *)
EXTENDS ByteRing
=============================================================================
