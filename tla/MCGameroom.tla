----------------------------- MODULE MCGameroom -----------------------------
(* A small instance of Gameroom: the room of the second masterserver is the *)
(* match of a quickplay, the first one's an ordinary room.                  *)
EXTENDS Gameroom

CONSTANTS c1, c2, r1

MCMatchRooms == {<<c2, r1>>}
=============================================================================
