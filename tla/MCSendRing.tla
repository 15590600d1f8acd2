----------------------------- MODULE MCSendRing -----------------------------
(* A small instance of SendRing for TLC. *)
EXTENDS SendRing
=============================================================================
