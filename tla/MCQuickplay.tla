----------------------------- MODULE MCQuickplay -----------------------------
(* A small instance of Quickplay; the clients are interchangeable. *)
EXTENDS Quickplay, TLC
Symmetry == Permutations(Players)
=============================================================================
