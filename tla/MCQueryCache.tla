---------------------------- MODULE MCQueryCache ----------------------------
(* QueryCache with the constants of its configuration. *)
EXTENDS QueryCache
=============================================================================
