----------------------------- MODULE MCProfile -----------------------------
(* A small instance of Profile.  Either one masterserver, with one box of which the
   shop has as many offers as a batch may have and one with fewer, and a shop that is
   restocked once; or two masterservers, and one offer for one box. *)
EXTENDS Profile, TLC

CONSTANTS m1, m2, b1, b2

MCSymmetry == Permutations(Channels)

Offer(id, name, price) == [id |-> id, name |-> name, price |-> price]

MCCatalogues ==
  << << Offer(1, b1, 1), Offer(2, b2, 1), Offer(3, b1, 2), Offer(4, b1, 1), Offer(5, ClanItem, 1) >>,
     << Offer(1, b1, 1), Offer(6, b1, 2), Offer(5, ClanItem, 1), Offer(7, b1, 1) >>,
     << Offer(1, b1, 1), Offer(5, ClanItem, 1) >> >>

MCWorlds ==
  {[running |-> {m}, shop |-> 1] : m \in Channels} \cup {[running |-> Channels, shop |-> 3]}
=============================================================================
