------------------------------ MODULE MCLookups ------------------------------
(* A small instance of Lookups: one call beside the caches, and three pages of rooms. *)
EXTENDS Lookups

CONSTANT c1
=============================================================================
