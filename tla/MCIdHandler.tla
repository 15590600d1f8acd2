---------------------------- MODULE MCIdHandler ----------------------------
(* A small instance of IdHandler for TLC. *)
EXTENDS IdHandler
=============================================================================
