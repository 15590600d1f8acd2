------------------------------ MODULE MCRoster ------------------------------
(* A small instance of Roster: two bots, and at most two kinds of events at a time,
   or two faults. *)
EXTENDS Roster

CONSTANTS a, b

Once(E) == [e \in Events |-> IF e \in E THEN 1 ELSE 0]
Twice(e) == [x \in Events |-> IF x = e THEN 2 ELSE 0]
AsFriends(E) == [pairs |-> {{a, b}}, clan |-> {}, budget |-> Once(E)]
AsMates(E) == [pairs |-> {}, clan |-> {a, b}, budget |-> Once(E)]
MCScenarios ==
  {[pairs |-> {{a, b}}, clan |-> {}, budget |-> Twice("fault")],
   AsFriends({"change", "fault"}), AsFriends({"remove", "add"}), AsFriends({"remove", "fault"}),
   AsMates({"change"}), AsMates({"fault"}), AsMates({"leave", "invite"}),
   [pairs |-> {}, clan |-> {}, budget |-> Once({"add", "fault"})],
   [pairs |-> {}, clan |-> {a}, budget |-> Once({"invite", "fault"})],
   [pairs |-> {{a, b}}, clan |-> {a, b}, budget |-> Once({})]}
=============================================================================
