----------------------------- MODULE MCRecvRing -----------------------------
(* A small instance of RecvRing for TLC. *)
EXTENDS RecvRing
=============================================================================
