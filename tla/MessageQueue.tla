---------------------------- MODULE MessageQueue ----------------------------
(***************************************************************************)
(* What the threads of the client rely on when they hand a message to the  *)
(* writer thread: a bounded first-in first-out queue and one message at a  *)
(* time in the hands of the reader of the queue.  Once the reader of the   *)
(* queue has stopped, nothing leaves the queue any more.                   *)
(***************************************************************************)
EXTENDS Naturals, Sequences

CONSTANTS Msgs,      \* the messages
          Capacity,  \* how many messages may wait
          NULL       \* no message

VARIABLES queue,     \* the messages that wait, in the order they were posted
          outbox,    \* the message being sent, or NULL
          open       \* whether the queue still has a reader

vars == <<queue, outbox, open>>

Init == queue = <<>> /\ outbox = NULL /\ open = TRUE

Put(m) ==
  /\ open
  /\ Len(queue) < Capacity
  /\ queue' = Append(queue, m)
  /\ UNCHANGED <<outbox, open>>

Take ==
  /\ open
  /\ outbox = NULL
  /\ queue # <<>>
  /\ outbox' = Head(queue)
  /\ queue' = Tail(queue)
  /\ UNCHANGED open

Sent ==
  /\ outbox # NULL
  /\ outbox' = NULL
  /\ UNCHANGED <<queue, open>>

Close ==
  /\ open
  /\ queue' = <<>>
  /\ outbox' = NULL
  /\ open' = FALSE

Next == (\E m \in Msgs : Put(m)) \/ Take \/ Sent \/ Close

Spec == Init /\ [][Next]_vars
=============================================================================
