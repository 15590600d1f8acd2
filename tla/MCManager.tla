----------------------------- MODULE MCManager -----------------------------
(* Small instances of Manager. *)
EXTENDS Manager
=============================================================================
