------------------------------ MODULE Shutdown ------------------------------
(***************************************************************************)
(* How the client stops, in the build whose main thread is the readline    *)
(* prompt (src/threads/threads.c, src/threads/thread_readline.c).          *)
(*                                                                         *)
(* Any thread may end: thread_close() makes the session DEAD and sends     *)
(* SIGINT to the main thread, whose handler jumps back to the prompt loop  *)
(* from whatever it interrupts, a post to the outgoing ring included.  The *)
(* main thread then cancels and joins every thread.  A thread is cancelled *)
(* in a blocking call (sem_wait, sleep, read, write), never while it waits *)
(* for a mutex.  The outgoing ring is reduced to its two counters and its  *)
(* mutex, see SendRing.                                                    *)
(***************************************************************************)
EXTENDS Naturals, FiniteSets

CONSTANTS Workers,       \* the threads that post messages: reader, dispatch, ping
          SEND_MSG_MAX,  \* the size of the outgoing ring
          MaxCtrlC,      \* how often the user hits Ctrl-C (bound)
          Main, Sender,  \* the main thread and the sendstream thread
          NULL

ASSUME ShutdownAssumption ==
  /\ IsFiniteSet(Workers)
  /\ SEND_MSG_MAX \in Nat \ {0} /\ MaxCtrlC \in Nat
  /\ Main # Sender /\ {Main, Sender, NULL} \cap Workers = {}
  /\ NULL \notin {Main, Sender}

VARIABLES
  dead,         \* session.state = STATE_DEAD
  sigint,       \* a SIGINT is pending for the main thread
  ctrlc,        \* how often the user hit Ctrl-C
  lock,         \* the owner of _lock_send_id, or NULL
  empty, full,  \* the semaphores of the outgoing ring
  pc            \* where each thread is

vars == <<dead, sigint, ctrlc, lock, empty, full, pc>>

Threads == Workers \cup {Sender}
Posters == Workers \cup {Main}

(* Where the signal handler's jump target is alive: inside thread_readline(). *)
InReadline == {"loop", "prompt", "wait", "lock", "crit", "signal"}

Init ==
  /\ dead = FALSE /\ sigint = FALSE /\ ctrlc = 0
  /\ lock = NULL
  /\ empty = SEND_MSG_MAX /\ full = 0
  /\ pc = [t \in Posters \cup {Sender} |-> "loop"]

Goto(t, l) == pc' = [pc EXCEPT ![t] = l]

-----------------------------------------------------------------------------
(* thread_sendstream_post_new_msg(), by a worker or by the main thread *)

PostWait(t) ==
  /\ pc[t] = "wait"
  /\ empty > 0
  /\ empty' = empty - 1
  /\ Goto(t, "lock")
  /\ UNCHANGED <<dead, sigint, ctrlc, lock, full>>

PostLock(t) ==
  /\ pc[t] = "lock"
  /\ lock = NULL
  /\ lock' = t
  /\ Goto(t, "crit")
  /\ UNCHANGED <<dead, sigint, ctrlc, empty, full>>

PostUnlock(t) ==
  /\ pc[t] = "crit"
  /\ lock' = NULL
  /\ Goto(t, "signal")
  /\ UNCHANGED <<dead, sigint, ctrlc, empty, full>>

PostSignal(t) ==
  /\ pc[t] = "signal"
  /\ full' = full + 1
  /\ Goto(t, "loop")
  /\ UNCHANGED <<dead, sigint, ctrlc, lock, empty>>

Post(t) == PostWait(t) \/ PostLock(t) \/ PostUnlock(t) \/ PostSignal(t)

-----------------------------------------------------------------------------
(* Workers *)

(* thread_close() without its pthread_kill(). *)
MutantThreadClose(t) ==
  /\ dead' = TRUE
  /\ Goto(t, "gone")
  /\ UNCHANGED <<sigint, ctrlc, lock, empty, full>>

(* thread_close() *)
ThreadClose(t) ==
  /\ dead' = TRUE
  /\ sigint' = TRUE
  /\ Goto(t, "gone")
  /\ UNCHANGED <<ctrlc, lock, empty, full>>

(* A handler or a ping posts a message, be it one of several. *)
WorkerPosts(w) ==
  /\ pc[w] = "loop"
  /\ Goto(w, "wait")
  /\ UNCHANGED <<dead, sigint, ctrlc, lock, empty, full>>

(* The loop ends because the session is DEAD, or because this thread met    *)
(* the end of the connection.                                               *)
WorkerEnds(w) == pc[w] = "loop" /\ ThreadClose(w)

SenderGets ==
  /\ pc[Sender] = "loop"
  /\ full > 0
  /\ full' = full - 1
  /\ empty' = empty + 1
  /\ Goto(Sender, "send")
  /\ UNCHANGED <<dead, sigint, ctrlc, lock>>

SenderSends ==
  /\ pc[Sender] = "send"
  /\ ~dead
  /\ Goto(Sender, "loop")
  /\ UNCHANGED <<dead, sigint, ctrlc, lock, empty, full>>

(* The loop condition is read between two messages, so a sender that waits  *)
(* for one does not see the end of the session: it must be cancelled.       *)
SenderEnds ==
  /\ pc[Sender] = "send"
  /\ dead
  /\ ThreadClose(Sender)

-----------------------------------------------------------------------------
(* The main thread *)

ReadlineLoop ==
  /\ pc[Main] = "loop"
  /\ Goto(Main, IF dead THEN "quit" ELSE "prompt")
  /\ UNCHANGED <<dead, sigint, ctrlc, lock, empty, full>>

(* The user enters a command that sends something, or nothing. *)
Command ==
  /\ pc[Main] = "prompt"
  /\ \E l \in {"wait", "loop"} : Goto(Main, l)
  /\ UNCHANGED <<dead, sigint, ctrlc, lock, empty, full>>

(* Ctrl-D *)
EndOfFile ==
  /\ pc[Main] = "prompt"
  /\ dead' = TRUE
  /\ Goto(Main, "quit")
  /\ UNCHANGED <<sigint, ctrlc, lock, empty, full>>

CtrlC ==
  /\ ctrlc < MaxCtrlC
  /\ ~sigint
  /\ sigint' = TRUE
  /\ ctrlc' = ctrlc + 1
  /\ UNCHANGED <<dead, lock, empty, full, pc>>

(* readline_sigint_handler(): siglongjmp() to the head of the loop.  Once   *)
(* thread_readline() has returned the target frame is gone: whatever the    *)
(* process does then is written "stale".                                    *)
SigInt ==
  /\ sigint
  /\ pc[Main] # "exited"
  /\ sigint' = FALSE
  /\ Goto(Main, IF pc[Main] \in InReadline THEN "loop" ELSE "stale")
  /\ UNCHANGED <<dead, ctrlc, lock, empty, full>>

(* threads_quit(): cancel them all ... *)
QuitCancel ==
  /\ pc[Main] = "quit"
  /\ dead' = TRUE
  /\ Goto(Main, "join")
  /\ UNCHANGED <<sigint, ctrlc, lock, empty, full>>

Cancelled(t) ==
  /\ pc[Main] = "join"
  /\ pc[t] \in {"loop", "wait", "send"}
  /\ Goto(t, "gone")
  /\ UNCHANGED <<dead, sigint, ctrlc, lock, empty, full>>

(* ... and join them all; session_free() comes next. *)
QuitJoined ==
  /\ pc[Main] = "join"
  /\ \A t \in Threads : pc[t] = "gone"
  /\ Goto(Main, "exited")
  /\ UNCHANGED <<dead, sigint, ctrlc, lock, empty, full>>

-----------------------------------------------------------------------------
MainStep == ReadlineLoop \/ Post(Main) \/ QuitCancel \/ QuitJoined

SenderStep == SenderGets \/ SenderSends \/ SenderEnds \/ Cancelled(Sender)

WorkerStep(w) == Post(w) \/ Cancelled(w)

Next ==
  /\ pc[Main] # "stale"
  /\ \/ MainStep \/ Command \/ EndOfFile
     \/ CtrlC \/ SigInt
     \/ SenderStep
     \/ \E w \in Workers : WorkerStep(w) \/ WorkerPosts(w) \/ WorkerEnds(w)

(* Every thread runs, a pending signal is delivered, a mutex that is        *)
(* released again and again is obtained in the end, and a handler posts     *)
(* finitely many messages.                                                  *)
Fairness ==
  /\ WF_vars(MainStep) /\ WF_vars(SigInt) /\ WF_vars(SenderStep)
  /\ \A w \in Workers : WF_vars(WorkerStep(w)) /\ SF_vars(PostLock(w))
                         /\ SF_vars(dead /\ WorkerEnds(w))

Spec == Init /\ [][Next]_vars /\ Fairness
-----------------------------------------------------------------------------
(* Every variable keeps its type; a jump out of a post may lose a slot of   *)
(* the ring, never create one.                                              *)
TypeOK ==
  /\ dead \in BOOLEAN /\ sigint \in BOOLEAN /\ ctrlc \in 0 .. MaxCtrlC
  /\ lock \in Posters \cup {NULL}
  /\ empty \in 0 .. SEND_MSG_MAX /\ full \in 0 .. SEND_MSG_MAX
  /\ empty + full =< SEND_MSG_MAX
  /\ pc \in [Posters \cup {Sender} ->
               InReadline \cup {"send", "gone", "quit", "join", "exited", "stale"}]
  /\ \A t \in Threads : pc[t] \in {"loop", "wait", "lock", "crit", "signal", "send", "gone"}
  /\ pc[Main] \in InReadline \cup {"quit", "join", "exited", "stale"}

(* One thread at a time is between lock and unlock, even when the main      *)
(* thread was thrown out of that place: nobody else gets in after it.       *)
OnePoster ==
  \A t, u \in Posters : pc[t] = "crit" /\ pc[u] = "crit" => t = u

(* The inductive invariant, in named parts.  Every slot of the ring that is  *)
(* not counted by a semaphore is in the hands of a thread that posts, or was *)
(* lost by the main thread when a signal interrupted its post.               *)
Held == {t \in Posters : pc[t] \in {"lock", "crit", "signal"}}
SlotsInv == empty + full + Cardinality(Held) =< SEND_MSG_MAX
LockInv == \A t \in Posters : pc[t] = "crit" => lock = t
Inv == TypeOK /\ SlotsInv /\ LockInv

(* The main thread left _lock_send_id locked when a signal interrupted it.  *)
Orphaned == lock = Main /\ pc[Main] # "crit"

(* When the session dies the client exits, unless the mutex of the ring was *)
(* orphaned or the handler jumped into a frame that had returned: nothing   *)
(* else can keep a thread from ending, not even a full ring.                *)
QuitUnlessInterrupted ==
  dead ~> (pc[Main] \in {"exited", "stale"} \/ Orphaned)
=============================================================================
