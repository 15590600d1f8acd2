------------------------------ MODULE RecvRing ------------------------------
(***************************************************************************)
(* The ring of incoming messages of src/threads/thread_readstream.c and    *)
(* its consumer, the loop of src/threads/thread_dispatch.c.                 *)
(*                                                                         *)
(* The reader thread is the only producer and the dispatch thread the only *)
(* consumer.  It is the PRODUCER that empties the ring when it ends, slot by *)
(* slot and without the mutex the consumer takes, and only afterwards that *)
(* thread_close() makes the session DEAD: the consumer runs meanwhile.     *)
(* The loop conditions, the rest of the session and the stream itself are  *)
(* the environment; sem_destroy() leaves the counters as they are (glibc). *)
(***************************************************************************)
EXTENDS Naturals

CONSTANTS Msgs,          \* the messages the stream delivers
          RECV_MSG_MAX,  \* the number of slots
          NULL           \* the null pointer

ASSUME RecvRingAssumption == RECV_MSG_MAX \in Nat \ {0} /\ NULL \notin Msgs

VARIABLES
  dead,         \* session.state = STATE_DEAD
  recv_msgs,    \* the slots
  wpos, rpos,   \* the static `pos' of post_new_msg and of get_next_msg
  empty, full,  \* the two semaphores
  rpc, rmsg,    \* where the reader is, and the message it read
  closing,      \* how many slots thread_readstream_close() has emptied
  dpc, dmsg     \* where dispatch is, and the message it took

vars == <<dead, recv_msgs, wpos, rpos, empty, full, rpc, rmsg, closing, dpc, dmsg>>
reader == <<rpc, rmsg, closing>>
dispatch == <<dpc, dmsg>>

Slots == 0 .. RECV_MSG_MAX - 1

NextPos(pos) == IF pos + 1 >= RECV_MSG_MAX THEN 0 ELSE pos + 1

InUse == {recv_msgs[i] : i \in Slots} \cup {rmsg, dmsg}

Init ==
  /\ dead = FALSE
  /\ recv_msgs = [i \in Slots |-> NULL]
  /\ wpos = 0 /\ rpos = 0
  /\ empty = RECV_MSG_MAX /\ full = 0
  /\ rpc = "loop" /\ rmsg = NULL /\ closing = 0
  /\ dpc = "loop" /\ dmsg = NULL

-----------------------------------------------------------------------------
(* thread_readstream() *)

ReadLoop ==
  /\ rpc = "loop"
  /\ rpc' = IF dead THEN "close" ELSE "read"
  /\ UNCHANGED <<dead, recv_msgs, wpos, rpos, empty, full, rmsg, closing, dispatch>>

(* stream_read() returns a message ... *)
ReadMsg(m) ==
  /\ rpc = "read"
  /\ m \notin InUse
  /\ rmsg' = m
  /\ rpc' = "wait"
  /\ UNCHANGED <<dead, recv_msgs, wpos, rpos, empty, full, closing, dispatch>>

(* A cancelled reader that stays blocked on a full ring. *)
MutantReadEnd ==
  /\ rpc = "read"
  /\ rpc' = "close"
  /\ rmsg' = NULL
  /\ UNCHANGED <<dead, recv_msgs, wpos, rpos, empty, full, closing, dispatch>>

(* ... or nothing: the connection is lost, and the loop breaks.  So it does *)
(* when the thread is cancelled in a blocking call.                         *)
ReadEnd ==
  /\ rpc = "read" \/ (dead /\ rpc = "wait")
  /\ rpc' = "close"
  /\ rmsg' = NULL
  /\ UNCHANGED <<dead, recv_msgs, wpos, rpos, empty, full, closing, dispatch>>

(* The reader does not wait for a free slot. *)
MutantPostWait ==
  /\ rpc = "wait"
  /\ rpc' = "write"
  /\ UNCHANGED <<dead, recv_msgs, wpos, rpos, empty, full, rmsg, closing, dispatch>>

PostWait ==
  /\ rpc = "wait"
  /\ empty > 0
  /\ empty' = empty - 1
  /\ rpc' = "write"
  /\ UNCHANGED <<dead, recv_msgs, wpos, rpos, full, rmsg, closing, dispatch>>

PostWrite ==
  /\ rpc = "write"
  /\ recv_msgs' = [recv_msgs EXCEPT ![wpos] = rmsg]
  /\ rmsg' = NULL
  /\ wpos' = NextPos(wpos)
  /\ rpc' = "signal"
  /\ UNCHANGED <<dead, rpos, empty, full, closing, dispatch>>

PostSignal ==
  /\ rpc = "signal"
  /\ full' = full + 1
  /\ rpc' = "loop"
  /\ UNCHANGED <<dead, recv_msgs, wpos, rpos, empty, rmsg, closing, dispatch>>

(* thread_readstream_close() frees and clears the slots one after the other. *)
CloseSlot ==
  /\ rpc = "close"
  /\ closing < RECV_MSG_MAX
  /\ recv_msgs' = [recv_msgs EXCEPT ![closing] = NULL]
  /\ closing' = closing + 1
  /\ UNCHANGED <<dead, wpos, rpos, empty, full, rpc, rmsg, dispatch>>

(* thread_close() *)
ReaderDone ==
  /\ rpc = "close"
  /\ closing = RECV_MSG_MAX
  /\ dead' = TRUE
  /\ rpc' = "done"
  /\ UNCHANGED <<recv_msgs, wpos, rpos, empty, full, rmsg, closing, dispatch>>

-----------------------------------------------------------------------------
(* thread_dispatch() *)

DispatchLoop ==
  /\ dpc = "loop"
  /\ dpc' = IF dead THEN "done" ELSE "wait"
  /\ UNCHANGED <<dead, recv_msgs, wpos, rpos, empty, full, dmsg, reader>>

GetWait ==
  /\ dpc = "wait"
  /\ full > 0
  /\ full' = full - 1
  /\ dpc' = "take"
  /\ UNCHANGED <<dead, recv_msgs, wpos, rpos, empty, dmsg, reader>>

(* `pos' is advanced before the slot is read. *)
MutantGetTake ==
  /\ dpc = "take"
  /\ dmsg' = recv_msgs[NextPos(rpos)]
  /\ recv_msgs' = [recv_msgs EXCEPT ![NextPos(rpos)] = NULL]
  /\ rpos' = NextPos(rpos)
  /\ dpc' = "signal"
  /\ UNCHANGED <<dead, wpos, empty, full, reader>>

(* The slot is read, cleared and `pos' advanced under _lock_read_id, which  *)
(* nobody else takes: the clearing at the end of the reader falls before    *)
(* this step or after it, though the code does not keep it out of it.       *)
GetTake ==
  /\ dpc = "take"
  /\ dmsg' = recv_msgs[rpos]
  /\ recv_msgs' = [recv_msgs EXCEPT ![rpos] = NULL]
  /\ rpos' = NextPos(rpos)
  /\ dpc' = "signal"
  /\ UNCHANGED <<dead, wpos, empty, full, reader>>

GetSignal ==
  /\ dpc = "signal"
  /\ empty' = empty + 1
  /\ dpc' = "check"
  /\ UNCHANGED <<dead, recv_msgs, wpos, rpos, full, dmsg, reader>>

(* A null message ends the loop once the session is DEAD, and trips the     *)
(* assertion before.                                                        *)
Check ==
  /\ dpc = "check"
  /\ dpc' = CASE dmsg # NULL -> "handle"
              [] dmsg = NULL /\ dead -> "done"
              [] dmsg = NULL /\ ~dead -> "aborted"
  /\ UNCHANGED <<dead, recv_msgs, wpos, rpos, empty, full, dmsg, reader>>

(* idh_handle() or qh_handle(), then free(msg). *)
Handle ==
  /\ dpc = "handle"
  /\ dmsg' = NULL
  /\ dpc' = "loop"
  /\ UNCHANGED <<dead, recv_msgs, wpos, rpos, empty, full, reader>>

DispatchDone ==
  /\ dead
  /\ dpc = "wait"
  /\ dpc' = "done"
  /\ UNCHANGED <<dead, recv_msgs, wpos, rpos, empty, full, dmsg, reader>>

-----------------------------------------------------------------------------
(* Another thread ends the session. *)
Die ==
  /\ ~dead
  /\ dead' = TRUE
  /\ UNCHANGED <<recv_msgs, wpos, rpos, empty, full, reader, dispatch>>

Running == dpc # "aborted"

Reader ==
  \/ ReadLoop \/ ReadEnd \/ PostWait \/ PostWrite \/ PostSignal
  \/ CloseSlot \/ ReaderDone

Dispatch ==
  \/ DispatchLoop \/ GetWait \/ GetTake \/ GetSignal \/ Check \/ Handle
  \/ DispatchDone

Next ==
  /\ Running
  /\ \/ Reader
     \/ \E m \in Msgs : ReadMsg(m)
     \/ Dispatch
     \/ Die

Spec == Init /\ [][Next]_vars

(* Both threads keep running; the stream need not deliver anything, but a    *)
(* blocked read is cancelled by threads_quit() once the session is DEAD.     *)
Fairness ==
  /\ WF_vars(Running /\ (rpc = "read" => dead) /\ Reader)
  /\ WF_vars(Running /\ Dispatch)

FairSpec == Spec /\ Fairness
-----------------------------------------------------------------------------
(* Every variable keeps its type. *)
TypeOK ==
  /\ dead \in BOOLEAN
  /\ recv_msgs \in [Slots -> Msgs \cup {NULL}]
  /\ wpos \in Slots /\ rpos \in Slots
  /\ empty \in 0 .. RECV_MSG_MAX /\ full \in 0 .. RECV_MSG_MAX
  /\ rpc \in {"loop", "read", "wait", "write", "signal", "close", "done"}
  /\ rmsg \in Msgs \cup {NULL}
  /\ closing \in 0 .. RECV_MSG_MAX
  /\ dpc \in {"loop", "wait", "take", "signal", "check", "handle", "done", "aborted"}
  /\ dmsg \in Msgs \cup {NULL}

(* The assertion of thread_dispatch.c, lines 46 and 47, that as long as the *)
(* session is not DEAD get_next_msg() returns a message, can only fail      *)
(* while the reader is emptying the ring.                                   *)
NullOnlyOnClose == dpc = "aborted" => rpc = "close" /\ closing > 0

(* The queue the ring stands for, until the reader begins to empty it. *)
Open == rpc \notin {"close", "done"}
At(k) == IF rpos + k >= RECV_MSG_MAX THEN rpos + k - RECV_MSG_MAX ELSE rpos + k
Occupied ==
  full + (IF rpc = "signal" THEN 1 ELSE 0) + (IF dpc = "take" THEN 1 ELSE 0)

Waiting ==
  IF Open THEN [k \in 1 .. Occupied |-> recv_msgs[At(k - 1)]] ELSE <<>>
InHand == IF Open THEN dmsg ELSE NULL

Queue == INSTANCE MessageQueue
           WITH queue <- Waiting, outbox <- InHand, open <- Open,
                Capacity <- RECV_MSG_MAX

(* Until the reader ends, every message of the stream is dispatched once,   *)
(* in the order it was read, whatever the two threads' interleaving.        *)
QueueSpec == Queue!Spec

(* The inductive invariant of the two threads, in named parts.  Every unit   *)
(* of the semaphores is in one of them or in the hands of one thread.       *)
Writing == IF rpc = "write" THEN 1 ELSE 0
Returning == IF dpc = "signal" THEN 1 ELSE 0
Conservation == empty + Writing + Occupied + Returning = RECV_MSG_MAX

Distance(i) == IF i >= rpos THEN i - rpos ELSE i + RECV_MSG_MAX - rpos

(* Until the ring is being emptied, the slots that hold a message are the    *)
(* Occupied ones that follow rpos.                                          *)
SlotsInv ==
  /\ wpos = At(Occupied)
  /\ closing = 0 =>
       \A i \in Slots : recv_msgs[i] # NULL <=> Distance(i) < Occupied

ReaderInv ==
  /\ rpc \in {"wait", "write"} <=> rmsg # NULL
  /\ Open => closing = 0
  /\ rpc = "done" => dead

DispatchInv ==
  /\ dpc \notin {"signal", "check", "handle"} => dmsg = NULL
  /\ dpc = "handle" => dmsg # NULL
  /\ dpc \in {"signal", "check"} /\ dmsg = NULL => closing > 0
  /\ dpc = "aborted" => rpc = "close" /\ closing > 0

Inv == TypeOK /\ Conservation /\ SlotsInv /\ ReaderInv /\ DispatchInv

(* Once the session is DEAD both threads end, so that the pthread_join() of *)
(* threads_quit() returns.                                                  *)
BothEnd == dead ~> (dpc = "aborted" \/ (rpc = "done" /\ dpc = "done"))
=============================================================================
