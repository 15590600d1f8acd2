------------------------------ MODULE SendRing ------------------------------
(***************************************************************************)
(* The ring of outgoing messages of src/threads/thread_sendstream.c.       *)
(*                                                                         *)
(* Any thread (dispatch, ping, the reader, the command line or D-Bus) posts *)
(* a message; the sendstream thread alone takes them out and writes them to *)
(* the stream.  Two counting semaphores bound the ring, a mutex orders the  *)
(* producers, and the consumer takes no lock at all: that it never meets a  *)
(* slot a producer is writing rests on the semaphores only.                 *)
(*                                                                         *)
(* On Ctrl-C the handler of src/threads/thread_readline.c takes the main   *)
(* thread out of whatever it does by siglongjmp(), a post included, and    *)
(* the command line goes on: the units of the semaphores it took and did    *)
(* not give back, the mutex it holds and the signal it owes are lost, while *)
(* the session lives.                                                      *)
(*                                                                         *)
(* A message is the pointer to a heap buffer: a fresh one is different from *)
(* every pointer still in use.  sem_destroy() and pthread_mutex_destroy()   *)
(* leave the counters as they are, which is what glibc does.                *)
(***************************************************************************)
EXTENDS Naturals, FiniteSets

CONSTANTS Producers,     \* the threads that post
          Msgs,          \* the messages they post
          Main,          \* the one among them that a SIGINT interrupts
          SEND_MSG_MAX,  \* the number of slots
          NULL           \* the null pointer

ASSUME RingAssumption ==
  /\ IsFiniteSet(Producers)
  /\ Main \in Producers
  /\ SEND_MSG_MAX \in Nat \ {0}
  /\ NULL \notin Msgs \cup Producers

VARIABLES
  dead,        \* session.state = STATE_DEAD
  send_msgs,   \* the slots
  wpos, rpos,  \* the static `pos' of post_new_msg and of get_next_msg
  empty, full, \* the values of the two semaphores
  lock,        \* the owner of _lock_send_id, or NULL
  pc, msg,     \* where each producer is, and the message it posts
  spc, smsg,   \* where the sendstream thread is, and the message it holds
  lost,        \* history: slots granted to Main before an interrupt, and lost
  unsignalled, \* history: messages Main stored without its sem_post of `full'
  torn         \* history: the message Main stored without advancing `pos'

vars == <<dead, send_msgs, wpos, rpos, empty, full, lock, pc, msg, spc, smsg,
          lost, unsignalled, torn>>
ring == <<send_msgs, wpos, rpos, empty, full, lock>>
cut == <<lost, unsignalled, torn>>

Slots == 0 .. SEND_MSG_MAX - 1

(* ++pos; if (pos >= SEND_MSG_MAX) pos = 0; *)
NextPos(pos) == IF pos + 1 >= SEND_MSG_MAX THEN 0 ELSE pos + 1

InUse == {msg[p] : p \in Producers} \cup {send_msgs[i] : i \in Slots} \cup {smsg}

Init ==
  /\ dead = FALSE
  /\ send_msgs = [i \in Slots |-> NULL]
  /\ wpos = 0 /\ rpos = 0
  /\ empty = SEND_MSG_MAX /\ full = 0
  /\ lock = NULL
  /\ pc = [p \in Producers |-> "idle"]
  /\ msg = [p \in Producers |-> NULL]
  /\ spc = "loop" /\ smsg = NULL
  /\ lost = 0 /\ unsignalled = 0 /\ torn = NULL

-----------------------------------------------------------------------------
(* thread_sendstream_post_new_msg(msg), called by p *)

PostCall(p, m) ==
  /\ pc[p] = "idle"
  /\ m \notin InUse
  /\ msg' = [msg EXCEPT ![p] = m]
  /\ pc' = [pc EXCEPT ![p] = "wait"]
  /\ UNCHANGED <<dead, ring, spc, smsg, cut>>

PostWait(p) ==
  /\ pc[p] = "wait"
  /\ empty > 0
  /\ empty' = empty - 1
  /\ pc' = [pc EXCEPT ![p] = "lock"]
  /\ UNCHANGED <<dead, send_msgs, wpos, rpos, full, lock, msg, spc, smsg, cut>>

PostLock(p) ==
  /\ pc[p] = "lock"
  /\ lock = NULL
  /\ lock' = p
  /\ pc' = [pc EXCEPT ![p] = "write"]
  /\ UNCHANGED <<dead, send_msgs, wpos, rpos, empty, full, msg, spc, smsg, cut>>

PostWrite(p) ==
  /\ pc[p] = "write"
  /\ send_msgs' = [send_msgs EXCEPT ![wpos] = msg[p]]
  /\ pc' = [pc EXCEPT ![p] = "advance"]
  /\ UNCHANGED <<dead, wpos, rpos, empty, full, lock, msg, spc, smsg, cut>>

PostAdvance(p) ==
  /\ pc[p] = "advance"
  /\ wpos' = NextPos(wpos)
  /\ lock' = NULL
  /\ msg' = [msg EXCEPT ![p] = NULL]
  /\ pc' = [pc EXCEPT ![p] = "signal"]
  /\ UNCHANGED <<dead, send_msgs, rpos, empty, full, spc, smsg, cut>>

(* A post that forgets to wake the writer up. *)
MutantPostSignal(p) ==
  /\ pc[p] = "signal"
  /\ pc' = [pc EXCEPT ![p] = "idle"]
  /\ UNCHANGED <<dead, ring, msg, spc, smsg, cut>>

PostSignal(p) ==
  /\ pc[p] = "signal"
  /\ full' = full + 1
  /\ pc' = [pc EXCEPT ![p] = "idle"]
  /\ UNCHANGED <<dead, send_msgs, wpos, rpos, empty, lock, msg, spc, smsg, cut>>

-----------------------------------------------------------------------------
(* readline_sigint_handler(): Main leaves the post it is in. *)

(* Blocked on a full ring: only the message is forgotten. *)
InterruptWait ==
  /\ pc[Main] = "wait"
  /\ pc' = [pc EXCEPT ![Main] = "idle"]
  /\ msg' = [msg EXCEPT ![Main] = NULL]
  /\ UNCHANGED <<dead, ring, spc, smsg, cut>>

(* Granted a slot: its unit is lost, and a mutex it holds stays locked. *)
InterruptGranted ==
  /\ pc[Main] \in {"lock", "write", "advance"}
  /\ lost' = lost + 1
  /\ torn' = IF pc[Main] = "advance" THEN msg[Main] ELSE torn
  /\ pc' = [pc EXCEPT ![Main] = "idle"]
  /\ msg' = [msg EXCEPT ![Main] = NULL]
  /\ UNCHANGED <<dead, ring, spc, smsg, unsignalled>>

(* `pos' is advanced, the mutex not unlocked yet: it stays locked. *)
InterruptUnlock ==
  /\ pc[Main] = "advance"
  /\ wpos' = NextPos(wpos)
  /\ unsignalled' = unsignalled + 1
  /\ pc' = [pc EXCEPT ![Main] = "idle"]
  /\ msg' = [msg EXCEPT ![Main] = NULL]
  /\ UNCHANGED <<dead, send_msgs, rpos, empty, full, lock, spc, smsg, lost, torn>>

(* Between the unlock and the sem_post: the message waits, unsignalled. *)
InterruptSignal ==
  /\ pc[Main] = "signal"
  /\ unsignalled' = unsignalled + 1
  /\ pc' = [pc EXCEPT ![Main] = "idle"]
  /\ UNCHANGED <<dead, ring, msg, spc, smsg, lost, torn>>

Interrupt ==
  \/ InterruptWait \/ InterruptGranted \/ InterruptUnlock \/ InterruptSignal

-----------------------------------------------------------------------------
(* thread_sendstream(), with thread_sendstream_get_next_msg() *)

SendLoop ==
  /\ spc = "loop"
  /\ ~dead
  /\ spc' = "wait"
  /\ UNCHANGED <<dead, ring, pc, msg, smsg, cut>>

SendWait ==
  /\ spc = "wait"
  /\ full > 0
  /\ full' = full - 1
  /\ spc' = "read"
  /\ UNCHANGED <<dead, send_msgs, wpos, rpos, empty, lock, pc, msg, smsg, cut>>

SendRead ==
  /\ spc = "read"
  /\ smsg' = send_msgs[rpos]
  /\ spc' = "clear"
  /\ UNCHANGED <<dead, ring, pc, msg, cut>>

(* The slot cleared is the one after `++pos'. *)
MutantSendClear ==
  /\ spc = "clear"
  /\ send_msgs' = [send_msgs EXCEPT ![NextPos(rpos)] = NULL]
  /\ rpos' = NextPos(rpos)
  /\ spc' = "signal"
  /\ UNCHANGED <<dead, wpos, empty, full, lock, pc, msg, smsg, cut>>

SendClear ==
  /\ spc = "clear"
  /\ send_msgs' = [send_msgs EXCEPT ![rpos] = NULL]
  /\ rpos' = NextPos(rpos)
  /\ spc' = "signal"
  /\ UNCHANGED <<dead, wpos, empty, full, lock, pc, msg, smsg, cut>>

SendSignal ==
  /\ spc = "signal"
  /\ empty' = empty + 1
  /\ spc' = "send"
  /\ UNCHANGED <<dead, send_msgs, wpos, rpos, full, lock, pc, msg, smsg, cut>>

(* stream_send_msg(), stream_flush(), free(msg) *)
SendMsg ==
  /\ spc = "send"
  /\ smsg' = NULL
  /\ spc' = "loop"
  /\ UNCHANGED <<dead, ring, pc, msg, cut>>

(* thread_sendstream_close(): at the end of the loop, or when the thread is *)
(* cancelled in sem_wait() or in the write to the socket, which             *)
(* threads_quit() does once the state is DEAD.                              *)
SendClose ==
  /\ dead
  /\ spc \in {"loop", "wait", "send"}
  /\ send_msgs' = [i \in Slots |-> NULL]
  /\ smsg' = NULL
  /\ spc' = "closed"
  /\ UNCHANGED <<dead, wpos, rpos, empty, full, lock, pc, msg, cut>>

-----------------------------------------------------------------------------
(* Another thread ends the session. *)
Die ==
  /\ ~dead
  /\ dead' = TRUE
  /\ UNCHANGED <<ring, pc, msg, spc, smsg, cut>>

Post(p) ==
  \/ PostWait(p) \/ PostLock(p) \/ PostWrite(p) \/ PostAdvance(p) \/ PostSignal(p)

Sender ==
  \/ SendLoop \/ SendWait \/ SendRead \/ SendClear \/ SendSignal \/ SendMsg
  \/ SendClose

Next ==
  \/ \E p \in Producers : Post(p) \/ \E m \in Msgs : PostCall(p, m)
  \/ Interrupt
  \/ Sender
  \/ Die

Spec == Init /\ [][Next]_vars

-----------------------------------------------------------------------------
(* The scheduler runs every thread that can run; a thread need not post, nor *)
(* the user hit Ctrl-C.                                                    *)
Fairness == WF_vars(Sender) /\ \A p \in Producers : WF_vars(Post(p))

FairSpec == Spec /\ Fairness

-----------------------------------------------------------------------------
(* Every variable keeps its type: the positions stay inside the ring and    *)
(* neither semaphore ever counts more than SEND_MSG_MAX.                    *)
TypeOK ==
  /\ dead \in BOOLEAN
  /\ send_msgs \in [Slots -> Msgs \cup {NULL}]
  /\ wpos \in Slots /\ rpos \in Slots
  /\ empty \in 0 .. SEND_MSG_MAX /\ full \in 0 .. SEND_MSG_MAX
  /\ lock \in Producers \cup {NULL}
  /\ pc \in [Producers -> {"idle", "wait", "lock", "write", "advance", "signal"}]
  /\ msg \in [Producers -> Msgs \cup {NULL}]
  /\ spc \in {"loop", "wait", "read", "clear", "signal", "send", "closed"}
  /\ smsg \in Msgs \cup {NULL}
  /\ lost \in 0 .. SEND_MSG_MAX /\ unsignalled \in 0 .. SEND_MSG_MAX
  /\ torn \in Msgs \cup {NULL}

(* The sendstream thread never takes a null pointer out of the ring: the    *)
(* assert(msg != NULL) of thread_sendstream_get_next_msg(), although `full'  *)
(* is signalled by producers in another order than they filled the slots.   *)
NoNullTaken == spc \in {"clear", "signal", "send"} => smsg # NULL

(* A producer about to store its message finds the slot free: no message    *)
(* that waits, or that the unlocked consumer is reading, is overwritten.    *)
NoOverwrite == \A p \in Producers : pc[p] = "write" => send_msgs[wpos] = NULL

(* Producers that were granted a slot and have not advanced `pos' yet, and  *)
(* those that have and still owe the sem_post of `full'.                    *)
Granted == {p \in Producers : pc[p] \in {"lock", "write", "advance"}}
Owing == {p \in Producers : pc[p] = "signal"}

(* The slots that hold a message, counted from rpos. *)
Taking == IF spc \in {"read", "clear"} THEN 1 ELSE 0
Returning == IF spc = "signal" THEN 1 ELSE 0
Occupied == full + Cardinality(Owing) + Taking + unsignalled

(* The slot k places after rpos. *)
At(k) == IF rpos + k >= SEND_MSG_MAX THEN rpos + k - SEND_MSG_MAX ELSE rpos + k

Distance(i) == IF i >= rpos THEN i - rpos ELSE i + SEND_MSG_MAX - rpos

(* The queue the ring stands for: a message enters it when its producer     *)
(* advances `pos', and leaves it when the sendstream thread reads it.       *)
Skipped == IF spc = "clear" THEN 1 ELSE 0
Waiting ==
  IF spc = "closed" THEN <<>>
  ELSE [k \in 1 .. Occupied - Skipped |-> send_msgs[At(k - 1 + Skipped)]]

Queue == INSTANCE MessageQueue
           WITH queue <- Waiting, outbox <- smsg, open <- spc # "closed",
                Capacity <- SEND_MSG_MAX

(* The ring behaves as a first-in first-out queue of at most SEND_MSG_MAX   *)
(* messages: whatever the interleaving of the producers and the writer, no  *)
(* message is lost, sent twice or sent out of order before the close.       *)
QueueSpec == Queue!Spec

(* The conservation law the ring rests on, and what it says of the slots.   *)
Conservation ==
  empty + Cardinality(Granted) + lost + Occupied + Returning = SEND_MSG_MAX

(* The mutex is Main's, who was interrupted and will never unlock it. *)
Orphaned == lock = Main /\ pc[Main] \notin {"write", "advance"}

(* Who stores holds the mutex, and who holds it stores or left it locked.   *)
LockInv ==
  /\ \A p \in Producers : pc[p] \in {"write", "advance"} => lock = p
  /\ lock # NULL => pc[lock] \in {"write", "advance"} \/ Orphaned
  /\ torn # NULL => Orphaned
  /\ Orphaned => lost + unsignalled > 0

MsgInv ==
  \A p \in Producers :
    (pc[p] \in {"wait", "lock", "write", "advance"}) <=> msg[p] # NULL

(* A slot holds a message exactly when it is one of the Occupied slots that *)
(* follow rpos, or the one its producer has written under the mutex, or was *)
(* interrupted before it advanced past.                                     *)
SlotsInv ==
  /\ wpos = At(Occupied)
  /\ \A i \in Slots :
       /\ send_msgs[i] # NULL =>
            \/ Distance(i) < Occupied
            \/ i = wpos /\ \E p \in Producers : pc[p] = "advance"
            \/ i = wpos /\ send_msgs[i] = torn
       /\ (spc # "closed" /\ Distance(i) < Occupied) => send_msgs[i] # NULL
  /\ \A p \in Producers : pc[p] = "advance" =>
       \/ send_msgs[wpos] = msg[p]
       \/ spc = "closed" /\ send_msgs[wpos] = NULL

SenderInv ==
  /\ (spc \in {"clear", "signal", "send"}) <=> smsg # NULL
  /\ spc = "clear" => smsg = send_msgs[rpos]

Inv == TypeOK /\ Conservation /\ LockInv /\ MsgInv /\ SlotsInv /\ SenderInv

(* The messages a Ctrl-C leaves in the ring: the one `pos' was not advanced *)
(* past, and as many of the last as were stored without a signal.           *)
Behind(i) == IF i < wpos THEN wpos - i ELSE wpos + SEND_MSG_MAX - i
Stranded ==
  {torn} \cup {send_msgs[i] : i \in {j \in Slots : Behind(j) <= unsignalled}}

(* Every message stored in the ring is sent, unless the session dies or a   *)
(* Ctrl-C cut a post short: then as many of the messages last stored wait   *)
(* as posts were cut between the store and sem_post(), and they alone; no   *)
(* other wake-up of the writer is lost.                                     *)
StoredIsSent ==
  \A m \in Msgs :
    (m \in {send_msgs[i] : i \in Slots}) ~> (smsg = m \/ dead \/ m \in Stranded)
=============================================================================
