---------------------------- MODULE MCHandshake ----------------------------
(* The handshake of one login for TLC. *)
EXTENDS Handshake
=============================================================================
