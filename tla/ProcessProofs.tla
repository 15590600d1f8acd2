---------------------------- MODULE ProcessProofs ----------------------------
(***************************************************************************)
(* Proofs about how the processes of the client end and are started again: *)
(* Shutdown, for any finite set of workers, any size of the ring and any   *)
(* number of interrupts; and Manager, for any set of instances and any     *)
(* number of calls, deaths and managers.                                   *)
(***************************************************************************)
EXTENDS Shutdown, Manager, FiniteSetTheorems, TLAPS

(* The posters that hold a slot are finitely many. *)
LEMMA HeldIsFinite == IsFiniteSet(Held) /\ Cardinality(Held) \in Nat
<1>1. IsFiniteSet(Posters)
  BY ShutdownAssumption, FS_AddElement DEF Posters
<1>2. Held \subseteq Posters
  BY DEF Held
<1> QED
  BY <1>1, <1>2, FS_Subset, FS_CardinalityType

LEMMA HeldIsFiniteNext == (IsFiniteSet(Held) /\ Cardinality(Held) \in Nat)'
BY HeldIsFinite, PTL

(* The two semaphores together never count more than the ring. *)
LEMMA CountsBounded ==
  SlotsInv /\ empty \in Nat /\ full \in Nat => empty + full =< SEND_MSG_MAX
BY HeldIsFinite, ShutdownAssumption DEF SlotsInv

LEMMA CountsBoundedNext ==
  (SlotsInv /\ empty \in Nat /\ full \in Nat)' => (empty + full =< SEND_MSG_MAX)'
BY CountsBounded, PTL

(* How a step of one poster from its label to l moves the slots held. *)
LEMMA HeldStep ==
  ASSUME TypeOK, NEW t \in Posters, NEW l, Goto(t, l)
  PROVE  /\ Cardinality(Held)' =
              IF l \in {"lock", "crit", "signal"}
              THEN IF t \in Held THEN Cardinality(Held) ELSE Cardinality(Held) + 1
              ELSE IF t \in Held THEN Cardinality(Held) - 1 ELSE Cardinality(Held)
         /\ t \in Held => Cardinality(Held) > 0
<1>1. Held' = IF l \in {"lock", "crit", "signal"} THEN Held \cup {t} ELSE Held \ {t}
  BY DEF TypeOK, Held, Goto
<1>2. /\ Cardinality(Held \cup {t}) =
           IF t \in Held THEN Cardinality(Held) ELSE Cardinality(Held) + 1
      /\ Cardinality(Held \ {t}) =
           IF t \in Held THEN Cardinality(Held) - 1 ELSE Cardinality(Held)
  BY HeldIsFinite, FS_AddElement, FS_RemoveElement
<1>3. t \in Held => Cardinality(Held) # 0
  BY HeldIsFinite, FS_EmptySet
<1> QED
  BY <1>1, <1>2, <1>3, HeldIsFinite

(* A step of the sendstream thread, or of none, leaves them alone. *)
LEMMA HeldUnchanged ==
  ASSUME TypeOK, (\E l : Goto(Sender, l)) \/ pc' = pc
  PROVE  Held' = Held
<1>1. \A t \in Posters : t # Sender
  BY ShutdownAssumption DEF Posters
<1> QED
  BY <1>1 DEF TypeOK, Held, Goto
-----------------------------------------------------------------------------
LEMMA InitInv == Init => Inv
<1> SUFFICES ASSUME Init PROVE Inv
  OBVIOUS
<1> USE ShutdownAssumption DEF Init
<1>1. Held = {}
  BY DEF Held, Posters
<1>2. Cardinality(Held) = 0
  BY <1>1, FS_EmptySet
<1>3. SlotsInv
  BY <1>2 DEF SlotsInv
<1>4. TypeOK
  <2>1. dead \in BOOLEAN /\ sigint \in BOOLEAN /\ lock \in Posters \cup {NULL}
    OBVIOUS
  <2>3. ctrlc \in 0 .. MaxCtrlC
    OBVIOUS
  <2>4. /\ empty \in 0 .. SEND_MSG_MAX /\ full \in 0 .. SEND_MSG_MAX
        /\ empty + full =< SEND_MSG_MAX
    OBVIOUS
  <2>2. /\ pc \in [Posters \cup {Sender} -> {"loop"}]
        /\ \A t \in Threads : pc[t] = "loop"
        /\ pc[Main] = "loop"
    BY DEF Posters, Threads
  <2> QED
    BY <2>1, <2>2, <2>3, <2>4 DEF TypeOK, InReadline
<1>5. LockInv
  BY DEF LockInv, Posters
<1> QED
  BY <1>3, <1>4, <1>5 DEF Inv

(* The four steps of a post, by a worker or by the main thread. *)
LEMMA PostInv ==
  ASSUME Inv, NEW t \in Posters, Post(t)
  PROVE  Inv'
<1> USE ShutdownAssumption DEF Inv, Post, PostWait, PostLock, PostUnlock, PostSignal
<1>1. /\ t \in Posters \cup {Sender}
      /\ \E l \in {"lock", "crit", "signal", "loop"} : Goto(t, l)
      /\ pc[t] \in {"wait", "lock", "crit", "signal"}
      /\ UNCHANGED <<dead, sigint, ctrlc>>
  OBVIOUS
<1>2. SlotsInv' /\ empty' \in 0 .. SEND_MSG_MAX /\ full' \in 0 .. SEND_MSG_MAX
  <2>1. CASE PostWait(t)
    <3>1. Cardinality(Held)' = Cardinality(Held) + 1
      BY <2>1, HeldStep DEF Held
    <3> QED
      BY <2>1, <3>1, HeldIsFinite DEF SlotsInv, TypeOK
  <2>2. CASE PostLock(t) \/ PostUnlock(t)
    <3>1. Cardinality(Held)' = Cardinality(Held)
      BY <2>2, HeldStep DEF Held
    <3> QED
      BY <2>2, <3>1, HeldIsFinite DEF SlotsInv, TypeOK
  <2>3. CASE PostSignal(t)
    <3>1. Cardinality(Held)' = Cardinality(Held) - 1 /\ Cardinality(Held) > 0
      BY <2>3, HeldStep DEF Held
    <3> QED
      BY <2>3, <3>1, HeldIsFinite DEF SlotsInv, TypeOK
  <2> QED
    BY <2>1, <2>2, <2>3
<1>3. empty' + full' =< SEND_MSG_MAX
  <2>1. empty' \in Nat /\ full' \in Nat
    BY <1>2
  <2> QED
    BY <1>2, <2>1, CountsBoundedNext
<1>4. lock' \in Posters \cup {NULL}
  BY DEF TypeOK
<1>5. TypeOK'
  <2>1. PICK l \in {"lock", "crit", "signal", "loop"} : Goto(t, l)
    BY <1>1
  <2>2. /\ pc' \in [Posters \cup {Sender} ->
                   InReadline \cup {"send", "gone", "quit", "join", "exited", "stale"}]
        /\ \A u \in Posters \cup {Sender} : pc'[u] = IF u = t THEN l ELSE pc[u]
    BY <1>1, <2>1 DEF TypeOK, Goto, InReadline
  <2>3. /\ \A u \in Threads :
             pc'[u] \in {"loop", "wait", "lock", "crit", "signal", "send", "gone"}
        /\ pc'[Main] \in InReadline \cup {"quit", "join", "exited", "stale"}
    BY <2>1, <2>2 DEF TypeOK, Threads, Posters, InReadline
  <2> QED
    BY <1>1, <1>2, <1>3, <1>4, <2>2, <2>3 DEF TypeOK
<1>6. LockInv'
  <2>1. CASE PostUnlock(t)
    BY <2>1 DEF LockInv, Goto, TypeOK
  <2>2. CASE PostLock(t)
    BY <2>2 DEF LockInv, Goto, TypeOK, Posters
  <2>3. CASE PostWait(t) \/ PostSignal(t)
    BY <2>3 DEF LockInv, Goto, TypeOK
  <2> QED
    BY <2>1, <2>2, <2>3
<1> QED
  BY <1>2, <1>5, <1>6

(* What the workers do between two posts. *)
LEMMA WorkerInv ==
  ASSUME Inv, NEW w \in Workers, WorkerPosts(w) \/ WorkerEnds(w) \/ Cancelled(w)
  PROVE  Inv'
<1> USE ShutdownAssumption
    DEF Inv, WorkerPosts, WorkerEnds, ThreadClose, Cancelled
<1>1. /\ w \in Posters /\ w \in Threads /\ w # Main
      /\ pc[w] \in {"loop", "wait", "send"}
      /\ \E l \in {"wait", "gone"} : Goto(w, l)
      /\ pc[w] = "loop" \/ Goto(w, "gone")
      /\ UNCHANGED <<ctrlc, lock, empty, full>>
      /\ dead' \in BOOLEAN /\ sigint' \in BOOLEAN
  BY DEF TypeOK, Posters, Threads
<1>2. Cardinality(Held)' = Cardinality(Held)
  BY <1>1, HeldStep DEF Held
<1>3. SlotsInv'
  BY <1>1, <1>2 DEF SlotsInv
<1>4. TypeOK'
  BY <1>1 DEF TypeOK, Goto, InReadline, Threads, Posters
<1>5. LockInv'
  BY <1>1 DEF LockInv, Goto, TypeOK, Posters, Threads
<1> QED
  BY <1>3, <1>4, <1>5

(* The steps of the sendstream thread. *)
LEMMA SenderInv ==
  ASSUME Inv, SenderStep
  PROVE  Inv'
<1> USE ShutdownAssumption
    DEF Inv, SenderStep, SenderGets, SenderSends, SenderEnds, ThreadClose, Cancelled
<1>1. /\ Sender \in Threads /\ Sender \notin Posters /\ Sender # Main
      /\ pc[Sender] # "gone"
      /\ \E l \in {"loop", "send", "gone"} : Goto(Sender, l)
      /\ UNCHANGED <<ctrlc, lock>>
      /\ dead' \in BOOLEAN /\ sigint' \in BOOLEAN
  BY DEF TypeOK, Posters, Threads
<1>2. Cardinality(Held)' = Cardinality(Held)
  BY <1>1, HeldUnchanged
<1>3. /\ empty' + full' = empty + full /\ empty + full =< SEND_MSG_MAX
      /\ empty' \in Nat /\ full' \in Nat
  BY DEF TypeOK
<1>4. SlotsInv'
  BY <1>2, <1>3 DEF SlotsInv
<1>5. TypeOK'
  <2>1. empty' \in 0 .. SEND_MSG_MAX /\ full' \in 0 .. SEND_MSG_MAX
    BY <1>3, ShutdownAssumption
  <2> PICK l \in {"loop", "send", "gone"} : Goto(Sender, l)
    BY <1>1
  <2>2. TypeOK /\ empty' + full' =< SEND_MSG_MAX
    BY <1>3
  <2> HIDE DEF Inv, SenderStep
  <2>3. pc' \in [Posters \cup {Sender} ->
                  InReadline \cup {"send", "gone", "quit", "join", "exited", "stale"}]
    BY <2>2 DEF TypeOK, Goto, InReadline
  <2>4. /\ \A t \in Threads :
             pc'[t] \in {"loop", "wait", "lock", "crit", "signal", "send", "gone"}
        /\ pc'[Main] \in InReadline \cup {"quit", "join", "exited", "stale"}
    BY <1>1, <2>2 DEF TypeOK, Goto, Threads, Posters
  <2> QED
    BY <1>1, <2>1, <2>2, <2>3, <2>4 DEF TypeOK
<1>6. LockInv'
  BY <1>1 DEF LockInv, Goto, TypeOK, Posters, Threads
<1> QED
  BY <1>4, <1>5, <1>6

(* The steps of the main thread outside a post.  The jump out of a post may  *)
(* only lose a slot.                                                        *)
LEMMA MainInv ==
  ASSUME Inv, pc[Main] # "stale",
         \/ ReadlineLoop \/ Command \/ EndOfFile \/ SigInt
         \/ QuitCancel \/ QuitJoined
  PROVE  Inv'
<1> USE ShutdownAssumption
    DEF Inv, ReadlineLoop, Command, EndOfFile, SigInt, QuitCancel, QuitJoined
<1>1. /\ Main \in Posters /\ Main \notin Threads
      /\ pc[Main] # "exited"
      /\ \E l \in {"loop", "prompt", "wait", "quit", "join", "stale", "exited"} :
            /\ Goto(Main, l)
      /\ UNCHANGED <<ctrlc, lock, empty, full>>
      /\ dead' \in BOOLEAN /\ sigint' \in BOOLEAN
  BY DEF TypeOK, Posters, Threads
<1>2. Cardinality(Held)' =< Cardinality(Held)
  BY <1>1, HeldStep, HeldIsFinite
<1>3. SlotsInv'
  BY <1>1, <1>2, HeldIsFinite, HeldIsFiniteNext DEF SlotsInv, TypeOK
<1>4. TypeOK'
  BY <1>1 DEF TypeOK, Goto, InReadline, Threads, Posters
<1>5. LockInv'
  BY <1>1 DEF LockInv, Goto, TypeOK, Posters, Threads
<1> QED
  BY <1>3, <1>4, <1>5

LEMMA NextInv == Inv /\ [Next]_vars => Inv'
<1> SUFFICES ASSUME Inv, [Next]_vars PROVE Inv'
  OBVIOUS
<1>1. ASSUME NEW w \in Workers, WorkerStep(w) \/ WorkerPosts(w) \/ WorkerEnds(w)
      PROVE  Inv'
  BY <1>1, WorkerInv, PostInv DEF WorkerStep, Posters
<1>2. CASE SenderStep
  BY <1>2, SenderInv
<1>3. CASE pc[Main] # "stale" /\ (MainStep \/ Command \/ EndOfFile \/ SigInt)
  BY <1>3, MainInv, PostInv DEF MainStep, Posters
<1>4. CASE CtrlC \/ UNCHANGED vars
  <2>1. UNCHANGED <<dead, lock, empty, full, pc>>
    BY <1>4 DEF CtrlC, vars
  <2>2. sigint' \in BOOLEAN /\ ctrlc' \in 0 .. MaxCtrlC
    <3>1. CASE CtrlC
      BY <3>1, ShutdownAssumption DEF CtrlC, Inv, TypeOK
    <3>2. CASE UNCHANGED vars
      BY <3>2 DEF vars, Inv, TypeOK
    <3> QED
      BY <1>4, <3>1, <3>2
  <2>3. Held' = Held
    BY <2>1, HeldUnchanged DEF Inv
  <2> QED
    BY <2>1, <2>2, <2>3 DEF Inv, TypeOK, SlotsInv, LockInv
<1> QED
  BY <1>1, <1>2, <1>3, <1>4 DEF Next

(* The slots a thread holds, the mutex and the end of the threads, together. *)
THEOREM ShutdownInvariant == Spec => []Inv
BY InitInv, NextInv, PTL DEF Spec

(* Every variable keeps its type: wherever thread_readline()'s handler jumps *)
(* out of a post, the two semaphores never count more slots than the ring    *)
(* has.                                                                      *)
THEOREM ShutdownTypeCorrect == Spec => []TypeOK
<1>1. Inv => TypeOK
  BY DEF Inv
<1> QED
  BY <1>1, ShutdownInvariant, PTL

(* An interrupted post never lets two threads into _lock_send_id: the price  *)
(* is that the mutex stays locked.                                           *)
THEOREM InterruptKeepsExclusion == Spec => []OnePoster
<1>1. Inv => OnePoster
  BY DEF Inv, LockInv, OnePoster
<1> QED
  BY <1>1, ShutdownInvariant, PTL

(***************************************************************************)
(* Manager.                                                                *)
(***************************************************************************)
(* What the messages are made of. *)
LEMMA MessageFields ==
  ASSUME NEW m \in Messages
  PROVE  /\ m.t \in {"create", "came", "gone", "ready", "exit", "owner", "quit"}
         /\ m.t \in {"create", "came", "gone", "ready", "exit"} => m.of \in Instances
         /\ m.t \in {"ready", "exit"} => m.waits \in BOOLEAN
         /\ m.t = "owner" => m.id \in Nat /\ m.owned \in BOOLEAN
BY DEF Messages

LEMMA MessagesMade ==
  /\ \A i \in Instances : \A t \in {"create", "came", "gone"} : [t |-> t, of |-> i] \in Messages
  /\ \A i \in Instances : \A t \in {"ready", "exit"} :
       \A b \in BOOLEAN : [t |-> t, of |-> i, waits |-> b] \in Messages
  /\ \A n \in Nat : \A b \in BOOLEAN : [t |-> "owner", id |-> n, owned |-> b] \in Messages
  /\ [t |-> "quit"] \in Messages
BY DEF Messages

(* A call nobody waits for is the same call. *)
Kept(m, n) ==
  /\ n.t = m.t /\ n.of = m.of
  /\ m.t = "owner" => n.id = m.id /\ n.owned = m.owned
  /\ m.t \in {"ready", "exit"} /\ n.waits => m.waits

LEMMA UnwaitedKeeps ==
  ASSUME NEW m \in Messages, NEW i
  PROVE  /\ Unwaited(m, i) \in Messages /\ Kept(m, Unwaited(m, i))
         /\ m.t \in {"ready", "exit"} /\ m.of = i => ~Unwaited(m, i).waits
<1>1. CASE m.t \in {"ready", "exit"} /\ m.of = i
  <2>1. m \in [t : {"ready", "exit"}, of : Instances, waits : BOOLEAN]
    BY <1>1 DEF Messages
  <2>2. Unwaited(m, i) = [m EXCEPT !.waits = FALSE]
    BY <1>1 DEF Unwaited
  <2>3. Unwaited(m, i) = [t |-> m.t, of |-> m.of, waits |-> FALSE]
    BY <2>1, <2>2
  <2>4. m.t \in {"ready", "exit"} /\ m.of \in Instances
    BY <2>1
  <2>5. [t |-> m.t, of |-> m.of, waits |-> FALSE] \in Messages
    BY <2>4, MessagesMade
  <2>6. /\ Unwaited(m, i).t = m.t /\ Unwaited(m, i).of = m.of
        /\ Unwaited(m, i).waits = FALSE
    BY <2>3
  <2> QED
    BY <2>3, <2>4, <2>5, <2>6 DEF Kept
<1>2. CASE ~(m.t \in {"ready", "exit"} /\ m.of = i)
  BY <1>2 DEF Unwaited, Kept
<1> QED
  BY <1>1, <1>2
-----------------------------------------------------------------------------
(* The messages, but for the first d, move d places forward; one may be added. *)
Added(j, d) == j = Len(inbox') /\ j + d = Len(inbox) + 1
Moves(d) ==
  /\ d \in Nat /\ Len(inbox) \in Nat /\ Len(inbox') \in Nat
  /\ DOMAIN inbox = 1 .. Len(inbox) /\ DOMAIN inbox' = 1 .. Len(inbox')
  /\ \A j \in DOMAIN inbox' :
       (j + d \in DOMAIN inbox /\ Kept(inbox[j + d], inbox'[j])) \/ Added(j, d)
  /\ \A k \in DOMAIN inbox :
       k > d => k - d \in DOMAIN inbox' /\ Kept(inbox[k], inbox'[k - d])

(* What nobody of the bus writes to stays. *)
LEMMA Staying ==
  ASSUME inbox \in Seq(Messages), inbox' = inbox
  PROVE  Moves(0) /\ inbox' \in Seq(Messages) /\ \A j \in DOMAIN inbox' : ~Added(j, 0)
<1>1. Len(inbox) \in Nat /\ DOMAIN inbox = 1 .. Len(inbox)
  OBVIOUS
<1> QED
  BY <1>1 DEF Moves, Kept, Added

LEMMA Appended ==
  ASSUME NEW s \in Seq(Messages), NEW m \in Messages
  PROVE  /\ Append(s, m) \in Seq(Messages) /\ Len(Append(s, m)) = Len(s) + 1
         /\ DOMAIN Append(s, m) = 1 .. Len(s) + 1 /\ Append(s, m)[Len(s) + 1] = m
         /\ \A k \in 1 .. Len(s) : Append(s, m)[k] = s[k]
OBVIOUS

LEMMA Appending ==
  ASSUME inbox \in Seq(Messages), NEW m \in Messages, inbox' = Append(inbox, m)
  PROVE  /\ Moves(0) /\ inbox' \in Seq(Messages)
         /\ \A j \in DOMAIN inbox' : Added(j, 0) => inbox'[j] = m
         /\ Len(inbox') = Len(inbox) + 1 /\ inbox'[Len(inbox) + 1] = m
<1>1. /\ Len(inbox) \in Nat /\ Len(inbox') \in Nat /\ inbox' \in Seq(Messages)
      /\ DOMAIN inbox = 1 .. Len(inbox) /\ DOMAIN inbox' = 1 .. Len(inbox')
      /\ Len(inbox') = Len(inbox) + 1 /\ inbox'[Len(inbox) + 1] = m
  OBVIOUS
<1>2. \A k \in 1 .. Len(inbox) : inbox'[k] = inbox[k]
  OBVIOUS
<1> QED
  BY <1>1, <1>2 DEF Moves, Kept, Added

LEMMA Taking ==
  ASSUME inbox \in Seq(Messages), inbox # <<>>, inbox' = Tail(inbox)
  PROVE  /\ Moves(1) /\ inbox' \in Seq(Messages)
         /\ \A j \in DOMAIN inbox' : ~Added(j, 1)
         /\ 1 \in DOMAIN inbox /\ Head(inbox) = inbox[1] /\ inbox[1] \in Messages
<1>1. /\ Len(inbox) \in Nat /\ Len(inbox') \in Nat /\ inbox' \in Seq(Messages)
      /\ DOMAIN inbox = 1 .. Len(inbox) /\ DOMAIN inbox' = 1 .. Len(inbox')
      /\ Len(inbox') = Len(inbox) - 1 /\ Len(inbox) > 0
      /\ Head(inbox) = inbox[1] /\ inbox[1] \in Messages
  OBVIOUS
<1>2. \A j \in 1 .. Len(inbox') : inbox'[j] = inbox[j + 1]
  OBVIOUS
<1>3. \A k \in 2 .. Len(inbox) : k - 1 \in 1 .. Len(inbox') /\ inbox'[k - 1] = inbox[k]
  BY <1>1, <1>2
<1>4. /\ \A j \in DOMAIN inbox' : j + 1 \in DOMAIN inbox /\ Kept(inbox[j + 1], inbox'[j])
      /\ \A k \in DOMAIN inbox :
           k > 1 => k - 1 \in DOMAIN inbox' /\ Kept(inbox[k], inbox'[k - 1])
  BY <1>1, <1>2, <1>3 DEF Kept
<1>5. Moves(1)
  BY <1>1, <1>4 DEF Moves
<1>6. \A j \in DOMAIN inbox' : ~Added(j, 1)
  BY <1>1 DEF Added
<1> QED
  BY <1>1, <1>5, <1>6

(* A process that goes: nobody waits for its calls, and its name may go with it. *)
Unheard(s, u, i) ==
  \A k \in 1 .. Len(s) :
    /\ Kept(s[k], u[k])
    /\ s[k].t \in {"ready", "exit"} /\ s[k].of = i => ~u[k].waits

LEMMA Left ==
  ASSUME NEW s \in Seq(Messages), NEW i \in Instances, NEW u,
         u = [k \in DOMAIN s |-> Unwaited(s[k], i)]
  PROVE  /\ u \in Seq(Messages) /\ Len(u) = Len(s) /\ Unheard(s, u, i)
         /\ \A m : u \o <<m>> = Append(u, m)
         /\ u \o <<>> = u
<1>1. /\ Len(s) \in Nat /\ DOMAIN s = 1 .. Len(s) /\ \A k \in 1 .. Len(s) : s[k] \in Messages
  OBVIOUS
<1>2. \A k \in 1 .. Len(s) : u[k] = Unwaited(s[k], i) /\ u[k] \in Messages
  BY <1>1, UnwaitedKeeps
<1>3. u \in Seq(Messages) /\ Len(u) = Len(s)
  BY <1>1, <1>2
<1>4. Unheard(s, u, i)
  BY <1>1, <1>2, UnwaitedKeeps DEF Unheard
<1>5. (\A m : u \o <<m>> = Append(u, m)) /\ u \o <<>> = u
  BY <1>3
<1> QED
  BY <1>3, <1>4, <1>5

LEMMA Going ==
  ASSUME inbox \in Seq(Messages), NEW i \in Instances,
         NEW u \in Seq(Messages), Len(u) = Len(inbox), Unheard(inbox, u, i),
         NEW m \in Messages, m.t = "gone", m.of = i,
         NEW told \in BOOLEAN,
         inbox' = IF told THEN Append(u, m) ELSE u
  PROVE  /\ Moves(0) /\ inbox' \in Seq(Messages)
         /\ \A j \in DOMAIN inbox' : Added(j, 0) => inbox'[j] = m
         /\ \A j \in DOMAIN inbox' : Says(j, i)' => ~inbox'[j].waits
         /\ told => Pending("gone", i)'
<1>1. /\ Len(inbox) \in Nat /\ DOMAIN inbox = 1 .. Len(inbox)
      /\ \A k \in 1 .. Len(inbox) :
           /\ Kept(inbox[k], u[k])
           /\ inbox[k].t \in {"ready", "exit"} /\ inbox[k].of = i => ~u[k].waits
  BY DEF Unheard
<1>2. CASE told
  <2>1. inbox' = Append(u, m)
    BY <1>2
  <2>2. /\ inbox' \in Seq(Messages) /\ Len(inbox') = Len(inbox) + 1
        /\ DOMAIN inbox' = 1 .. Len(inbox') /\ Len(inbox') \in Nat
        /\ inbox'[Len(inbox) + 1] = m /\ \A k \in 1 .. Len(inbox) : inbox'[k] = u[k]
    BY <2>1, <1>1, Appended
  <2>3. Moves(0)
    BY <1>1, <2>2 DEF Moves, Added
  <2>4. \A j \in DOMAIN inbox' : j \in 1 .. Len(inbox) \/ j = Len(inbox) + 1
    BY <1>1, <2>2
  <2>5. \A j \in DOMAIN inbox' : Says(j, i)' => ~inbox'[j].waits
    BY <1>1, <2>2, <2>4 DEF Says, Is, Kept
  <2>6. \E j \in DOMAIN inbox' : Is(j, "gone", i)'
    BY <1>1, <2>2 DEF Is
  <2>7. \A j \in DOMAIN inbox' : Added(j, 0) => inbox'[j] = m
    BY <1>1, <2>2 DEF Added
  <2> QED
    BY <2>2, <2>3, <2>5, <2>6, <2>7 DEF Pending
<1>3. CASE ~told
  <2>1. inbox' = u
    BY <1>3
  <2>2. /\ inbox' \in Seq(Messages) /\ Len(inbox') = Len(inbox)
        /\ DOMAIN inbox' = 1 .. Len(inbox')
    BY <2>1, <1>1
  <2>3. Moves(0)
    BY <1>1, <2>1, <2>2 DEF Moves, Added
  <2>4. \A j \in DOMAIN inbox' : Says(j, i)' => ~inbox'[j].waits
    BY <1>1, <2>1, <2>2 DEF Says, Is, Kept
  <2>5. \A j \in DOMAIN inbox' : ~Added(j, 0)
    BY <1>1, <2>2 DEF Added
  <2> QED
    BY <1>3, <2>2, <2>3, <2>4, <2>5
<1> QED
  BY <1>2, <1>3
-----------------------------------------------------------------------------
(* Each part of the invariant where the messages move.  A message of the kind t from
   i is pending only if one was, behind the first d, or is added. *)
LEMMA NotPending ==
  ASSUME NEW d, Moves(d), NEW t, NEW i,
         \A k \in DOMAIN inbox : k > d => ~Is(k, t, i),
         \A j \in DOMAIN inbox' : Added(j, d) => ~Is(j, t, i)'
  PROVE  ~Pending(t, i)'
<1> SUFFICES ASSUME NEW j \in DOMAIN inbox', Is(j, t, i)' PROVE FALSE
  BY DEF Pending
<1>1. j + d \in DOMAIN inbox /\ Kept(inbox[j + d], inbox'[j])
  BY DEF Moves
<1>2. j + d > d
  BY DEF Moves
<1> QED
  BY <1>1, <1>2 DEF Is, Kept

LEMMA StillPending ==
  ASSUME NEW d, Moves(d), NEW t, NEW i, NEW k \in DOMAIN inbox, k > d, Is(k, t, i)
  PROVE  k - d \in DOMAIN inbox' /\ Is(k - d, t, i)'
BY DEF Moves, Is, Kept

(* The calls.  What is added is behind all the others. *)
LEMMA CallMoves ==
  ASSUME CallInv, NEW d, Moves(d),
         \A i \in Instances : \A j \in DOMAIN inbox' : Says(j, i)' /\ inbox'[j].waits =>
           st'[i] = IF Added(j, d) THEN IF inbox'[j].t = "ready" THEN "calling" ELSE "exiting"
                    ELSE st[i],
         \A i \in Instances : \A j \in DOMAIN inbox' :
           Added(j, d) /\ (Says(j, i)' \/ Is(j, "gone", i)') =>
             \A k \in DOMAIN inbox' : Says(k, i)' /\ inbox'[k].waits => k = j
  PROVE  CallInv'
<1> SUFFICES ASSUME NEW i \in Instances, NEW j \in DOMAIN inbox', Says(j, i)', inbox'[j].waits
             PROVE  /\ st'[i] = IF inbox'[j].t = "ready" THEN "calling" ELSE "exiting"
                    /\ \A l \in j + 1 .. Len(inbox') : ~Says(l, i)' /\ ~Is(l, "gone", i)'
  BY DEF CallInv
<1>1. CASE Added(j, d)
  <2>1. j + 1 .. Len(inbox') = {}
    BY <1>1 DEF Moves, Added
  <2> QED
    BY <1>1, <2>1
<1>2. CASE ~Added(j, d)
  <2>1. j + d \in DOMAIN inbox /\ Kept(inbox[j + d], inbox'[j])
    BY <1>2 DEF Moves
  <2>2. Says(j + d, i) /\ inbox[j + d].waits
    BY <2>1 DEF Says, Is, Kept
  <2>3. st'[i] = IF inbox'[j].t = "ready" THEN "calling" ELSE "exiting"
    BY <1>2, <2>1, <2>2 DEF CallInv, Kept
  <2>4. ASSUME NEW l \in j + 1 .. Len(inbox') PROVE ~Says(l, i)' /\ ~Is(l, "gone", i)'
    <3>1. l \in DOMAIN inbox' /\ l # j
      BY <2>4 DEF Moves
    <3>2. CASE Added(l, d)
      BY <3>1, <3>2
    <3>3. CASE ~Added(l, d)
      <4>1. l + d \in DOMAIN inbox /\ Kept(inbox[l + d], inbox'[l])
        BY <3>1, <3>3 DEF Moves
      <4>2. l + d \in j + d + 1 .. Len(inbox)
        BY <3>1, <4>1 DEF Moves
      <4>3. ~Says(l + d, i) /\ ~Is(l + d, "gone", i)
        BY <2>1, <2>2, <4>2 DEF CallInv
      <4> QED
        BY <4>1, <4>3 DEF Says, Is, Kept
    <3> QED
      BY <3>2, <3>3
  <2> QED
    BY <2>3, <2>4
<1> QED
  BY <1>1, <1>2

(* The answers to the watches, where none is added. *)
OldOrUnasked(w, d) == w \in watches \/ \A k \in DOMAIN inbox : k > d => ~Answers(k, w)
NoAnswerAdded(d) == \A j \in DOMAIN inbox' : Added(j, d) => inbox'[j].t # "owner"

LEMMA AnswerCame ==
  ASSUME NEW d, Moves(d), NoAnswerAdded(d), NEW j \in DOMAIN inbox', inbox'[j].t = "owner"
  PROVE  /\ j + d \in DOMAIN inbox /\ j + d > d /\ Kept(inbox[j + d], inbox'[j])
         /\ \A w : Answers(j + d, w) <=> Answers(j, w)'
BY DEF Moves, NoAnswerAdded, Kept, Answers

LEMMA AskedMoves ==
  ASSUME AskedInv, NEW d, Moves(d), NoAnswerAdded(d),
         uniq \in Nat, uniq' \in Nat, uniq' >= uniq,
         \A w \in watches' : OldOrUnasked(w, d)
  PROVE  AskedInv'
<1> SUFFICES ASSUME NEW j \in DOMAIN inbox', inbox'[j].t = "owner"
             PROVE  /\ inbox'[j].id \in 1 .. uniq'
                    /\ \A w \in watches' : Answers(j, w)' => w.state = "asked"
                    /\ \A l \in j + 1 .. Len(inbox') :
                         inbox'[l].t = "owner" => inbox'[l].id # inbox'[j].id
  BY DEF AskedInv
<1>1. /\ j + d \in DOMAIN inbox /\ j + d > d /\ Kept(inbox[j + d], inbox'[j])
      /\ \A w : Answers(j + d, w) <=> Answers(j, w)'
  BY AnswerCame
<1>2. /\ inbox[j + d].t = "owner" /\ inbox[j + d].id = inbox'[j].id
      /\ inbox[j + d].id \in 1 .. uniq
      /\ \A w \in watches : Answers(j + d, w) => w.state = "asked"
      /\ \A l \in j + d + 1 .. Len(inbox) :
           inbox[l].t = "owner" => inbox[l].id # inbox[j + d].id
  BY <1>1 DEF AskedInv, Kept
<1>3. \A w \in watches' : Answers(j, w)' => w.state = "asked"
  BY <1>1, <1>2 DEF OldOrUnasked
<1>4. ASSUME NEW l \in j + 1 .. Len(inbox'), inbox'[l].t = "owner"
      PROVE  inbox'[l].id # inbox'[j].id
  <2>1. l \in DOMAIN inbox'
    BY <1>4 DEF Moves
  <2>2. l + d \in DOMAIN inbox /\ Kept(inbox[l + d], inbox'[l])
    BY <1>4, <2>1, AnswerCame
  <2>3. l + d \in j + d + 1 .. Len(inbox)
    BY <2>1, <2>2 DEF Moves
  <2> QED
    BY <1>2, <1>4, <2>2, <2>3 DEF Kept
<1> QED
  BY <1>2, <1>3, <1>4
(* The owners.  Behind the first d messages, one says that i is gone. *)
GoneBehind(i, d) == \E k \in DOMAIN inbox : k > d /\ Is(k, "gone", i)

LEMMA OwnedMoves ==
  ASSUME OwnedInv, NEW d, Moves(d), NoAnswerAdded(d),
         watches' \subseteq Watches',
         \A w \in watches' : OldOrUnasked(w, d),
         \A w \in watches' : w.state = "owned" => Named(w.of) \/ GoneBehind(w.of, d),
         \A i \in Instances : Named(i) =>
           Named(i)' \/ \E j \in DOMAIN inbox' : Added(j, d) /\ Is(j, "gone", i)'
  PROVE  OwnedInv'
<1>1. \A w \in watches' : w.of \in Instances
  BY DEF Watches
<1>2. ASSUME NEW w \in watches', w.state = "owned" PROVE Named(w.of)' \/ Pending("gone", w.of)'
  <2>1. CASE Named(w.of)
    BY <1>1, <1>2, <2>1 DEF Pending
  <2>2. CASE GoneBehind(w.of, d)
    BY <2>2, StillPending DEF GoneBehind, Pending
  <2> QED
    BY <1>2, <2>1, <2>2
<1>3. ASSUME NEW j \in DOMAIN inbox', NEW w \in watches', Answers(j, w)', inbox'[j].owned
      PROVE  Named(w.of)' \/ \E l \in j + 1 .. Len(inbox') : Is(l, "gone", w.of)'
  <2>1. /\ j + d \in DOMAIN inbox /\ j + d > d /\ Kept(inbox[j + d], inbox'[j])
        /\ Answers(j + d, w) /\ inbox[j + d].owned
    BY <1>3, AnswerCame DEF Answers, Kept
  <2>2. w \in watches
    BY <1>3, <2>1 DEF OldOrUnasked
  <2>3. Named(w.of) \/ \E l \in j + d + 1 .. Len(inbox) : Is(l, "gone", w.of)
    BY <2>1, <2>2 DEF OwnedInv
  <2>4. CASE Named(w.of)
    <3>1. SUFFICES ASSUME NEW l \in DOMAIN inbox', Added(l, d), Is(l, "gone", w.of)'
                   PROVE  l \in j + 1 .. Len(inbox')
      BY <1>1, <2>4
    <3> QED
      BY <2>1, <3>1 DEF Moves, Added
  <2>5. ASSUME NEW l \in j + d + 1 .. Len(inbox), Is(l, "gone", w.of)
        PROVE  \E k \in j + 1 .. Len(inbox') : Is(k, "gone", w.of)'
    <3>1. l \in DOMAIN inbox /\ l > d
      BY <2>5 DEF Moves
    <3>2. l - d \in DOMAIN inbox' /\ Is(l - d, "gone", w.of)'
      BY <2>5, <3>1, StillPending
    <3>3. l - d \in j + 1 .. Len(inbox')
      BY <2>5, <3>2 DEF Moves
    <3> QED
      BY <3>2, <3>3
  <2> QED
    BY <2>3, <2>4, <2>5
<1> QED
  BY <1>2, <1>3 DEF OwnedInv

(* The registrations.  A watch that guards its instance, and not by the first d
   messages. *)
GuardsBehind(w, d) ==
  \/ w.state \in {"new", "owned"}
  \/ \E k \in DOMAIN inbox : k > d /\ Answers(k, w) /\ inbox[k].owned

LEMMA StillGuards ==
  ASSUME NEW d, Moves(d), NEW w, GuardsBehind(w, d)
  PROVE  Guards(w)'
<1>1. ASSUME NEW k \in DOMAIN inbox, k > d, Answers(k, w), inbox[k].owned
      PROVE  \E j \in DOMAIN inbox' : Answers(j, w)' /\ inbox'[j].owned
  BY <1>1 DEF Moves, Kept, Answers
<1> QED
  BY <1>1 DEF GuardsBehind, Guards

LEMMA RegisteredMoves ==
  ASSUME RegisteredInv, NEW d, Moves(d), mngr' = mngr,
         NEW i \in Instances, mngr # 0, st[i] = "idle", seen[i] = mngr,
         \A w \in watches : w.of = i /\ Guards(w) =>
           \E x \in watches' : x.of = i /\ GuardsBehind(x, d),
         \A j \in DOMAIN inbox' : Added(j, d) => ~Is(j, "gone", i)'
  PROVE  Watched(i)' /\ ~Pending("gone", i)'
<1>1. Watched(i) /\ ~Pending("gone", i)
  BY DEF RegisteredInv
<1>2. ~Pending("gone", i)'
  BY <1>1, NotPending DEF Pending
<1>3. PICK x \in watches' : x.of = i /\ GuardsBehind(x, d)
  BY <1>1 DEF Watched
<1>4. Guards(x)'
  BY <1>3, StillGuards
<1> QED
  BY <1>2, <1>3, <1>4 DEF Watched
-----------------------------------------------------------------------------
(* Steps that leave the watches alone. *)
LEMMA WatchesAside ==
  ASSUME MngrTypeOK, MngrTypeOK', IdsInv, AskedInv, OwnedInv,
         UNCHANGED <<watches, exported, uniq>>,
         NEW d, Moves(d), NoAnswerAdded(d),
         \A k \in DOMAIN inbox : k =< d => inbox[k].t # "gone",
         \A i \in Instances : Named(i) =>
           Named(i)' \/ \E j \in DOMAIN inbox' : Added(j, d) /\ Is(j, "gone", i)'
  PROVE  IdsInv' /\ AskedInv' /\ OwnedInv'
<1>1. IdsInv'
  BY DEF IdsInv
<1>2. \A w \in watches' : OldOrUnasked(w, d)
  BY DEF OldOrUnasked
<1>3. AskedInv'
  <2>1. uniq \in Nat /\ uniq' \in Nat /\ uniq' >= uniq
    BY DEF MngrTypeOK
  <2> QED
    BY <1>2, <2>1, AskedMoves
<1>4. \A w \in watches' : w.state = "owned" => Named(w.of) \/ GoneBehind(w.of, d)
  <2>1. ASSUME NEW i, Pending("gone", i) PROVE GoneBehind(i, d)
    <3>1. PICK k \in DOMAIN inbox : Is(k, "gone", i)
      BY <2>1 DEF Pending
    <3>2. k > d
      BY <3>1 DEF Moves, Is
    <3> QED
      BY <3>1, <3>2 DEF GoneBehind
  <2> QED
    BY <2>1 DEF OwnedInv
<1>5. watches' \subseteq Watches'
  BY DEF MngrTypeOK
<1>6. OwnedInv'
  BY <1>2, <1>4, <1>5, OwnedMoves
<1> QED
  BY <1>1, <1>3, <1>6

LEMMA RegisteredAside ==
  ASSUME RegisteredInv, UNCHANGED <<watches, mngr>>, NEW d, Moves(d),
         \A k \in DOMAIN inbox : k =< d => inbox[k].t # "owner",
         NEW i \in Instances, mngr # 0, st[i] = "idle", seen[i] = mngr,
         \A j \in DOMAIN inbox' : Added(j, d) => ~Is(j, "gone", i)'
  PROVE  Watched(i)' /\ ~Pending("gone", i)'
<1>1. \A w \in watches : w.of = i /\ Guards(w) =>
        \E x \in watches' : x.of = i /\ GuardsBehind(x, d)
  BY DEF Guards, GuardsBehind, Answers, Moves
<1> QED
  BY <1>1, RegisteredMoves

(* An idle instance that only turns to something else. *)
LEMMA TurnsInv ==
  ASSUME MngrInv, MngrTypeOK', NEW i \in Instances, st[i] = "idle",
         st'[i] \in {"idle", "connected", "leaving", "ended"}, st'[i] = "idle" => seen'[i] = 0,
         \A j \in Instances : j # i => st'[j] = st[j] /\ seen'[j] = seen[j],
         UNCHANGED <<mngr, inbox, watches, exported, uniq, files, quit>>
  PROVE  MngrInv'
<1>1. Moves(0) /\ \A j \in DOMAIN inbox' : ~Added(j, 0)
  BY Staying DEF MngrInv, MngrTypeOK
<1>2. OrphansInv'
  BY DEF MngrInv, OrphansInv
<1>3. CallInv'
  BY DEF MngrInv, CallInv, Says, Is
<1>4. DownInv'
  <2>1. \A j \in quit' : j \in quit /\ j \in Instances /\ j # i
    BY DEF MngrInv, MngrTypeOK, DownInv
  <2> QED
    BY <2>1 DEF MngrInv, DownInv, Pending, Is
<1>5. IdsInv' /\ AskedInv' /\ OwnedInv'
  <2>1. \A j \in Instances : Named(j) => Named(j)'
    BY DEF Named
  <2>2. \A k \in DOMAIN inbox : ~(k =< 0)
    BY <1>1 DEF Moves
  <2> QED
    BY <1>1, <2>1, <2>2, WatchesAside DEF MngrInv, NoAnswerAdded
<1>6. RegisteredInv'
  BY DEF MngrInv, RegisteredInv, Watched, Guards, Answers, Pending, Is
<1> QED
  BY <1>2, <1>3, <1>4, <1>5, <1>6 DEF MngrInv

(* Nothing the invariant is about *)
LEMMA Unseen ==
  ASSUME MngrInv, MngrTypeOK',
         UNCHANGED <<st, seen, mngr, inbox, watches, exported, uniq, files, quit>>
  PROVE  MngrInv'
<1>1. OrphansInv' /\ CallInv' /\ DownInv'
  BY DEF MngrInv, OrphansInv, CallInv, DownInv, Says, Pending, Is
<1>2. IdsInv' /\ AskedInv' /\ OwnedInv'
  BY DEF MngrInv, IdsInv, AskedInv, OwnedInv, Answers, Named, Pending, Is
<1>3. RegisteredInv'
  BY DEF MngrInv, RegisteredInv, Watched, Guards, Answers, Pending, Is
<1> QED
  BY <1>1, <1>2, <1>3 DEF MngrInv

LEMMA IdleSteps ==
  ASSUME MngrInv, NEW i \in Instances,
         MngrNameAppeared(i) \/ MngrNameVanished(i) \/ Quit(i) \/ Restart(i)
  PROVE  MngrInv'
<1>1. /\ st[i] = "idle" /\ st'[i] \in {"idle", "connected", "leaving", "ended"}
      /\ st'[i] = "idle" => seen'[i] = 0
      /\ \A j \in Instances : j # i => st'[j] = st[j] /\ seen'[j] = seen[j]
      /\ UNCHANGED <<mngr, inbox, watches, exported, uniq, files, quit>>
  <2>1. CASE MngrNameAppeared(i)
    BY <2>1 DEF MngrInv, MngrTypeOK, MngrNameAppeared, manager, disk
  <2>2. CASE MngrNameVanished(i)
    BY <2>2 DEF MngrInv, MngrTypeOK, MngrNameVanished, disk
  <2>3. CASE Quit(i)
    BY <2>3 DEF MngrInv, MngrTypeOK, Quit, manager, disk
  <2>4. CASE Restart(i)
    BY <2>4 DEF MngrInv, MngrTypeOK, Restart, manager, disk
  <2> QED
    BY <2>1, <2>2, <2>3, <2>4
<1>2. MngrTypeOK'
  <2>1. /\ st' \in [Instances -> {"none", "starting", "idle", "connected", "calling",
                                "leaving", "exiting", "ended"}]
        /\ wbm' \in [Instances -> BOOLEAN]
    BY DEF MngrInv, MngrTypeOK, MngrNameAppeared, MngrNameVanished, Quit, Restart
  <2>2. UNCHANGED <<started, mngr, consuming, uniq, files, quit, inbox, queue, watches, exported>>
    BY DEF MngrNameAppeared, MngrNameVanished, Quit, Restart, manager, disk
  <2>4. mngr \in 0 .. started /\ 0 \in 0 .. started
    BY DEF MngrInv, MngrTypeOK
  <2>3. seen' \in [Instances -> 0 .. started']
    <3>1. seen' = seen \/ \E n \in {0, mngr} : seen' = [seen EXCEPT ![i] = n]
      BY DEF MngrNameAppeared, MngrNameVanished, Quit, Restart
    <3>2. seen \in [Instances -> 0 .. started]
      BY DEF MngrInv, MngrTypeOK
    <3> QED
      BY <2>2, <2>4, <3>1, <3>2
  <2> QED
    BY <2>1, <2>2, <2>3 DEF MngrInv, MngrTypeOK, Watches
<1> QED
  BY <1>1, <1>2, TurnsInv
-----------------------------------------------------------------------------
(* An instance with a call under way is where it waits for it. *)
LEMMA WaitsInCall ==
  ASSUME CallInv, NEW d, Moves(d), NEW i \in Instances, NEW j \in DOMAIN inbox',
         ~Added(j, d), Says(j, i)', inbox'[j].waits
  PROVE  st[i] \in {"calling", "exiting"}
<1>1. j + d \in DOMAIN inbox /\ Kept(inbox[j + d], inbox'[j])
  BY DEF Moves
<1>2. Says(j + d, i) /\ inbox[j + d].waits
  BY <1>1 DEF Says, Is, Kept
<1> QED
  BY <1>1, <1>2 DEF CallInv

(* An instance that takes its name, or nobody, tells the manager of it or of what a
   third party wants. *)
LEMMA TellsInv ==
  ASSUME MngrInv, MngrTypeOK', Moves(0),
         \A j \in DOMAIN inbox' : Added(j, 0) => inbox'[j].t \in {"create", "came", "quit"},
         mngr = 0 => inbox' = <<>>,
         \A i \in Instances : st'[i] = st[i] \/ (st[i] = "starting" /\ st'[i] = "idle"),
         UNCHANGED <<seen, mngr, watches, exported, uniq, files, quit>>
  PROVE  MngrInv'
<1>1. OrphansInv'
  BY DEF MngrInv, OrphansInv
<1>2. CallInv'
  <2>1. \A i \in Instances : \A j \in DOMAIN inbox' :
          Added(j, 0) => ~Says(j, i)' /\ ~Is(j, "gone", i)'
    BY DEF Says, Is
  <2>2. \A i \in Instances : \A j \in DOMAIN inbox' : Says(j, i)' /\ inbox'[j].waits =>
          ~Added(j, 0) /\ st'[i] = st[i]
    BY <2>1, WaitsInCall DEF MngrInv
  <2> QED
    BY <2>1, <2>2, CallMoves DEF MngrInv
<1>3. DownInv'
  <2> SUFFICES ASSUME NEW i \in quit
               PROVE  st'[i] \in {"ended", "none"} /\ i \notin files /\ ~Pending("ready", i)'
    BY DEF DownInv
  <2>1. /\ i \in Instances /\ st[i] \in {"ended", "none"} /\ i \notin files
        /\ ~Pending("ready", i)
    BY DEF MngrInv, DownInv, MngrTypeOK
  <2>3. /\ \A k \in DOMAIN inbox : ~Is(k, "ready", i)
        /\ \A j \in DOMAIN inbox' : Added(j, 0) => ~Is(j, "ready", i)'
    BY <2>1 DEF Pending, Is
  <2>2. ~Pending("ready", i)'
    BY <2>3, NotPending
  <2> QED
    BY <2>1, <2>2
<1>4. IdsInv' /\ AskedInv' /\ OwnedInv'
  <2>1. NoAnswerAdded(0) /\ \A k \in DOMAIN inbox : ~(k =< 0)
    BY DEF NoAnswerAdded, Moves
  <2>2. \A i \in Instances : Named(i) => Named(i)'
    BY DEF Named
  <2> QED
    BY <2>1, <2>2, WatchesAside DEF MngrInv
<1>5. RegisteredInv'
  <2> SUFFICES ASSUME NEW i \in Instances, mngr # 0, st'[i] = "idle", seen[i] = mngr
               PROVE  Watched(i)' /\ ~Pending("gone", i)'
    BY DEF RegisteredInv
  <2>1. st[i] = "idle"
    BY DEF MngrInv, OrphansInv
  <2>2. \A k \in DOMAIN inbox : ~(k =< 0)
    BY DEF Moves
  <2>3. \A j \in DOMAIN inbox' : Added(j, 0) => ~Is(j, "gone", i)'
    BY DEF Is
  <2> QED
    BY <2>1, <2>2, <2>3, RegisteredAside DEF MngrInv
<1> QED
  BY <1>1, <1>2, <1>3, <1>4, <1>5 DEF MngrInv

LEMMA BusAcquiredInv ==
  ASSUME MngrInv, NEW i \in Instances, BusAcquired(i)
  PROVE  MngrInv'
<1> DEFINE m == [t |-> "came", of |-> i]
<1>1. m \in Messages /\ m.t = "came"
  BY MessagesMade
<1>2. inbox' = IF mngr = 0 THEN inbox ELSE Append(inbox, m)
  BY DEF BusAcquired, Told
<1> HIDE DEF m
<1>3. /\ Moves(0) /\ inbox' \in Seq(Messages)
      /\ \A j \in DOMAIN inbox' : Added(j, 0) => inbox'[j].t = "came"
  <2>1. CASE mngr = 0
    BY <1>2, <2>1, Staying DEF MngrInv, MngrTypeOK
  <2>2. CASE mngr # 0
    BY <1>1, <1>2, <2>2, Appending DEF MngrInv, MngrTypeOK
  <2> QED
    BY <2>1, <2>2
<1>4. mngr = 0 => inbox' = <<>>
  BY <1>2 DEF MngrInv, OrphansInv
<1>5. /\ \A j \in Instances : st'[j] = st[j] \/ (st[j] = "starting" /\ st'[j] = "idle")
      /\ UNCHANGED <<seen, mngr, watches, exported, uniq, files, quit>>
  BY DEF MngrInv, MngrTypeOK, BusAcquired, disk
<1>6. MngrTypeOK'
  BY <1>3 DEF MngrInv, MngrTypeOK, BusAcquired, disk, Watches
<1> QED
  BY <1>3, <1>4, <1>5, <1>6, TellsInv

LEMMA UserCallInv ==
  ASSUME MngrInv, UserCall
  PROVE  MngrInv'
<1>1. PICK m : inbox' = Append(inbox, m) /\ m \in Messages /\ m.t \in {"create", "quit"}
  <2>1. PICK m \in {[t |-> "create", of |-> i] : i \in Instances} \cup {[t |-> "quit"]} :
          inbox' = Append(inbox, m)
    BY DEF UserCall
  <2>2. m \in Messages /\ m.t \in {"create", "quit"}
    <3>1. CASE m = [t |-> "quit"]
      BY <3>1, MessagesMade
    <3>2. ASSUME NEW i \in Instances, m = [t |-> "create", of |-> i]
          PROVE  m \in Messages /\ m.t \in {"create", "quit"}
      BY <3>2, MessagesMade
    <3> QED
      BY <3>1, <3>2
  <2> QED
    BY <2>1, <2>2
<1>2. /\ Moves(0) /\ inbox' \in Seq(Messages)
      /\ \A j \in DOMAIN inbox' : Added(j, 0) => inbox'[j] = m
  BY <1>1, Appending DEF MngrInv, MngrTypeOK
<1>3. mngr # 0 /\ UNCHANGED <<st, seen, mngr, watches, exported, uniq, files, quit>>
  BY DEF UserCall, instance, manager, disk
<1>4. MngrTypeOK'
  BY <1>2 DEF MngrInv, MngrTypeOK, UserCall, instance, manager, disk, Watches
<1> QED
  BY <1>1, <1>2, <1>3, <1>4, TellsInv
-----------------------------------------------------------------------------
(* An instance calls the manager: behind the call there is nothing. *)
LEMMA CallsInv ==
  ASSUME MngrInv, MngrTypeOK', mngr # 0, NEW i \in Instances,
         NEW m \in Messages, m.t \in {"ready", "exit"}, m.of = i,
         inbox' = Append(inbox, m), st[i] \in {"connected", "leaving"},
         st' = [st EXCEPT ![i] = IF m.t = "ready" THEN "calling" ELSE "exiting"],
         UNCHANGED <<seen, mngr, watches, exported, uniq, files, quit>>
  PROVE  MngrInv'
<1>1. Moves(0) /\ \A j \in DOMAIN inbox' : Added(j, 0) => inbox'[j] = m
  BY Appending DEF MngrInv, MngrTypeOK
<1>2. /\ st'[i] = IF m.t = "ready" THEN "calling" ELSE "exiting"
      /\ \A j \in Instances : j # i => st'[j] = st[j]
  BY DEF MngrInv, MngrTypeOK
<1>3. OrphansInv'
  BY <1>2 DEF MngrInv, OrphansInv
<1>4. CallInv'
  <2>1. \A x \in Instances : \A j \in DOMAIN inbox' : Says(j, x)' /\ inbox'[j].waits =>
          st'[x] = IF Added(j, 0) THEN IF inbox'[j].t = "ready" THEN "calling" ELSE "exiting"
                   ELSE st[x]
    <3> SUFFICES ASSUME NEW x \in Instances, NEW j \in DOMAIN inbox', Says(j, x)',
                        inbox'[j].waits
                 PROVE  st'[x] = IF Added(j, 0)
                                 THEN IF inbox'[j].t = "ready" THEN "calling" ELSE "exiting"
                                 ELSE st[x]
      OBVIOUS
    <3>1. CASE Added(j, 0)
      <4>1. x = i
        BY <1>1, <3>1 DEF Says, Is
      <4> QED
        BY <1>1, <1>2, <3>1, <4>1
    <3>2. CASE ~Added(j, 0)
      <4>1. st[x] \in {"calling", "exiting"}
        BY <1>1, <3>2, WaitsInCall DEF MngrInv
      <4> QED
        BY <1>2, <3>2, <4>1
    <3> QED
      BY <3>1, <3>2
  <2>2. \A x \in Instances : \A j \in DOMAIN inbox' :
          Added(j, 0) /\ (Says(j, x)' \/ Is(j, "gone", x)') =>
            \A k \in DOMAIN inbox' : Says(k, x)' /\ inbox'[k].waits => k = j
    <3> SUFFICES ASSUME NEW x \in Instances, NEW j \in DOMAIN inbox', Added(j, 0),
                        Says(j, x)' \/ Is(j, "gone", x)',
                        NEW k \in DOMAIN inbox', Says(k, x)', inbox'[k].waits
                 PROVE  k = j
      OBVIOUS
    <3>1. x = i
      BY <1>1 DEF Says, Is
    <3>2. Added(k, 0)
      BY <1>1, <3>1, WaitsInCall DEF MngrInv
    <3> QED
      BY <3>2 DEF Added
  <2> QED
    BY <1>1, <2>1, <2>2, CallMoves DEF MngrInv
<1>5. DownInv'
  <2> SUFFICES ASSUME NEW x \in quit
               PROVE  st'[x] \in {"ended", "none"} /\ x \notin files /\ ~Pending("ready", x)'
    BY DEF DownInv
  <2>1. /\ x \in Instances /\ st[x] \in {"ended", "none"} /\ x \notin files
        /\ ~Pending("ready", x)
    BY DEF MngrInv, DownInv, MngrTypeOK
  <2>2. x # i
    BY <2>1
  <2>3. /\ \A k \in DOMAIN inbox : ~Is(k, "ready", x)
        /\ \A j \in DOMAIN inbox' : Added(j, 0) => ~Is(j, "ready", x)'
    BY <1>1, <2>1, <2>2 DEF Pending, Is
  <2>4. ~Pending("ready", x)'
    BY <1>1, <2>3, NotPending
  <2> QED
    BY <1>2, <2>1, <2>2, <2>4
<1>6. IdsInv' /\ AskedInv' /\ OwnedInv'
  <2>1. NoAnswerAdded(0) /\ \A k \in DOMAIN inbox : ~(k =< 0)
    BY <1>1 DEF NoAnswerAdded, Moves
  <2>2. \A x \in Instances : Named(x) => Named(x)'
    BY <1>2 DEF Named
  <2> QED
    BY <1>1, <2>1, <2>2, WatchesAside DEF MngrInv
<1>7. RegisteredInv'
  <2> SUFFICES ASSUME NEW x \in Instances, st'[x] = "idle", seen[x] = mngr
               PROVE  Watched(x)' /\ ~Pending("gone", x)'
    BY DEF RegisteredInv
  <2>1. st[x] = "idle"
    BY <1>2
  <2>2. \A k \in DOMAIN inbox : ~(k =< 0)
    BY <1>1 DEF Moves
  <2>3. \A j \in DOMAIN inbox' : Added(j, 0) => ~Is(j, "gone", x)'
    BY <1>1 DEF Is
  <2> QED
    BY <1>1, <2>1, <2>2, <2>3, RegisteredAside DEF MngrInv
<1> QED
  BY <1>3, <1>4, <1>5, <1>6, <1>7 DEF MngrInv

(* The call fails where there is no manager, and none can be started *)
LEMMA FailsInv ==
  ASSUME MngrInv, MngrTypeOK', mngr = 0, NEW i \in Instances,
         st[i] \in {"connected", "leaving"}, st'[i] \in {"idle", "ended"},
         \A j \in Instances : j # i => st'[j] = st[j],
         UNCHANGED <<inbox, seen, mngr, watches, exported, uniq, files, quit>>
  PROVE  MngrInv'
<1>1. inbox = <<>> /\ watches = {} /\ inbox' = <<>> /\ watches' = {} /\ DOMAIN inbox' = {}
  BY DEF MngrInv, OrphansInv
<1>2. OrphansInv'
  BY <1>1 DEF MngrInv, OrphansInv
<1>3. DownInv'
  BY <1>1 DEF MngrInv, MngrTypeOK, DownInv, Pending
<1>4. CallInv' /\ IdsInv' /\ AskedInv' /\ OwnedInv' /\ RegisteredInv'
  BY <1>1 DEF CallInv, IdsInv, AskedInv, OwnedInv, RegisteredInv
<1> QED
  BY <1>2, <1>3, <1>4 DEF MngrInv

LEMMA CallsManagerInv ==
  ASSUME MngrInv, NEW i \in Instances, st[i] \in {"connected", "leaving"},
         NEW t \in {"ready", "exit"}, NEW failed \in {"idle", "ended"},
         CallsManager(i, [t |-> t, of |-> i, waits |-> TRUE],
                      IF t = "ready" THEN "calling" ELSE "exiting", failed)
  PROVE  MngrInv'
<1> DEFINE m == [t |-> t, of |-> i, waits |-> TRUE]
<1>1. m \in Messages /\ m.t = t /\ m.of = i
  BY MessagesMade
<1>2. /\ \/ mngr # 0 /\ inbox' = Append(inbox, m)
            /\ st' = [st EXCEPT ![i] = IF t = "ready" THEN "calling" ELSE "exiting"]
         \/ UNCHANGED <<st, inbox>>
         \/ mngr = 0 /\ st' = [st EXCEPT ![i] = failed] /\ UNCHANGED inbox
      /\ UNCHANGED <<wbm, seen, mngr, started, consuming, watches, exported, uniq, queue, files, quit>>
  BY DEF CallsManager, Told, disk
<1> HIDE DEF m
<1>3. inbox' \in Seq(Messages)
  BY <1>1, <1>2, Appending DEF MngrInv, MngrTypeOK
<1>4. st' \in [Instances -> {"none", "starting", "idle", "connected", "calling", "leaving",
                             "exiting", "ended"}]
  BY <1>2 DEF MngrInv, MngrTypeOK
<1>5. MngrTypeOK'
  BY <1>2, <1>3, <1>4 DEF MngrInv, MngrTypeOK, Watches
<1>6. CASE mngr # 0 /\ inbox' = Append(inbox, m)
           /\ st' = [st EXCEPT ![i] = IF t = "ready" THEN "calling" ELSE "exiting"]
  BY <1>1, <1>2, <1>5, <1>6, CallsInv
<1>7. CASE UNCHANGED <<st, inbox>>
  BY <1>2, <1>5, <1>7, Unseen
<1>8. CASE mngr = 0 /\ st' = [st EXCEPT ![i] = failed] /\ UNCHANGED inbox
  <2>1. st'[i] \in {"idle", "ended"} /\ \A j \in Instances : j # i => st'[j] = st[j]
    BY <1>8 DEF MngrInv, MngrTypeOK
  <2> QED
    BY <1>2, <1>5, <1>8, <2>1, FailsInv
<1> QED
  BY <1>2, <1>6, <1>7, <1>8

LEMMA CallSteps ==
  ASSUME MngrInv, NEW i \in Instances, CallInstanceReady(i) \/ CallInstanceExit(i)
  PROVE  MngrInv'
<1>1. CASE CallInstanceReady(i)
  <2>1. CallsManager(i, [t |-> "ready", of |-> i, waits |-> TRUE], "calling", "idle")
    BY <1>1 DEF CallInstanceReady
  <2> QED
    BY <1>1, <2>1, CallsManagerInv DEF CallInstanceReady
<1>2. CASE CallInstanceExit(i)
  <2>1. CallsManager(i, [t |-> "exit", of |-> i, waits |-> TRUE], "exiting", "ended")
    BY <1>2 DEF CallInstanceExit
  <2> QED
    BY <1>2, <2>1, CallsManagerInv DEF CallInstanceExit
<1> QED
  BY <1>1, <1>2
-----------------------------------------------------------------------------
(* An instance goes, and what it said stays. *)
LEMMA GoneInv ==
  ASSUME MngrInv, NEW i \in Instances, st[i] # "none", Gone(i)
  PROVE  MngrInv'
<1> DEFINE u == [k \in DOMAIN inbox |-> Unwaited(inbox[k], i)]
           m == [t |-> "gone", of |-> i]
           told == Named(i) /\ mngr # 0
<1>1. /\ inbox' = u \o (IF told THEN <<m>> ELSE <<>>)
      /\ st' = [st EXCEPT ![i] = "none"] /\ seen' = [seen EXCEPT ![i] = 0]
      /\ wbm' = [wbm EXCEPT ![i] = FALSE]
      /\ UNCHANGED <<mngr, started, consuming, watches, exported, uniq, queue, files, quit>>
  BY DEF Gone, manager, disk
<1>2. m \in Messages /\ m.t = "gone" /\ m.of = i
  BY MessagesMade
<1>3. inbox \in Seq(Messages) /\ u = [k \in DOMAIN inbox |-> Unwaited(inbox[k], i)]
  BY DEF MngrInv, MngrTypeOK
<1>4. told \in BOOLEAN /\ (told <=> Named(i) /\ mngr # 0)
  BY DEF Named
<1> HIDE DEF u, m, told
<1>5. /\ u \in Seq(Messages) /\ Len(u) = Len(inbox) /\ Unheard(inbox, u, i)
      /\ u \o <<m>> = Append(u, m) /\ u \o <<>> = u
  BY <1>3, Left
<1>6. inbox' = IF told THEN Append(u, m) ELSE u
  BY <1>1, <1>5
<1>7. /\ Moves(0) /\ inbox' \in Seq(Messages)
      /\ \A j \in DOMAIN inbox' : Added(j, 0) => inbox'[j] = m
      /\ \A j \in DOMAIN inbox' : Says(j, i)' => ~inbox'[j].waits
      /\ told => Pending("gone", i)'
  BY <1>2, <1>3, <1>4, <1>5, <1>6, Going
<1>8. st'[i] = "none" /\ \A x \in Instances : x # i => st'[x] = st[x] /\ seen'[x] = seen[x]
  BY <1>1 DEF MngrInv, MngrTypeOK
<1>9. seen'[i] = 0
  BY <1>1 DEF MngrInv, MngrTypeOK
<1>10. MngrTypeOK'
  <2>1. st' \in [Instances -> {"none", "starting", "idle", "connected", "calling", "leaving",
                               "exiting", "ended"}]
    BY <1>1 DEF MngrInv, MngrTypeOK
  <2>2. wbm' \in [Instances -> BOOLEAN] /\ seen' \in [Instances -> 0 .. started']
    BY <1>1 DEF MngrInv, MngrTypeOK
  <2> QED
    BY <1>1, <1>7, <2>1, <2>2 DEF MngrInv, MngrTypeOK, Watches
<1>11. OrphansInv'
  <2>1. mngr = 0 => inbox' = <<>>
    <3> SUFFICES ASSUME mngr = 0 PROVE inbox' = <<>>
      OBVIOUS
    <3>1. inbox = <<>> /\ ~told
      BY <1>4 DEF MngrInv, OrphansInv
    <3> QED
      BY <1>5, <1>6, <3>1
  <2> QED
    BY <1>1, <1>8, <1>9, <2>1 DEF MngrInv, OrphansInv
<1>12. CallInv'
  <2>1. \A x \in Instances : \A j \in DOMAIN inbox' : Says(j, x)' /\ inbox'[j].waits =>
          ~Added(j, 0) /\ st'[x] = st[x]
    BY <1>2, <1>7, <1>8 DEF Says, Is
  <2>2. \A x \in Instances : \A j \in DOMAIN inbox' :
          Added(j, 0) /\ (Says(j, x)' \/ Is(j, "gone", x)') => x = i
    BY <1>2, <1>7 DEF Says, Is
  <2>3. \A x \in Instances : \A j \in DOMAIN inbox' :
          Added(j, 0) /\ (Says(j, x)' \/ Is(j, "gone", x)') =>
            \A k \in DOMAIN inbox' : Says(k, x)' /\ inbox'[k].waits => k = j
    BY <1>7, <2>2
  <2> QED
    BY <1>7, <2>1, <2>3, CallMoves DEF MngrInv
<1>13. DownInv'
  <2> SUFFICES ASSUME NEW x \in quit
               PROVE  st'[x] \in {"ended", "none"} /\ x \notin files /\ ~Pending("ready", x)'
    BY <1>1 DEF DownInv
  <2>1. /\ x \in Instances /\ st[x] \in {"ended", "none"} /\ x \notin files
        /\ ~Pending("ready", x)
    BY DEF MngrInv, DownInv, MngrTypeOK
  <2>2. /\ \A k \in DOMAIN inbox : ~Is(k, "ready", x)
        /\ \A j \in DOMAIN inbox' : Added(j, 0) => ~Is(j, "ready", x)'
    BY <1>2, <1>7, <2>1 DEF Pending, Is
  <2>3. ~Pending("ready", x)'
    BY <1>7, <2>2, NotPending
  <2> QED
    BY <1>8, <2>1, <2>3
<1>14. IdsInv' /\ AskedInv' /\ OwnedInv'
  <2>1. NoAnswerAdded(0) /\ \A k \in DOMAIN inbox : ~(k =< 0)
    BY <1>2, <1>7 DEF NoAnswerAdded, Moves
  <2>2. CASE mngr = 0
    <3>1. inbox' = <<>> /\ watches' = {} /\ DOMAIN inbox' = {}
      BY <1>1, <1>11, <2>2 DEF MngrInv, OrphansInv
    <3> QED
      BY <3>1 DEF IdsInv, AskedInv, OwnedInv
  <2>3. CASE mngr # 0
    <3>1. \A x \in Instances : Named(x) =>
            Named(x)' \/ \E j \in DOMAIN inbox' : Added(j, 0) /\ Is(j, "gone", x)'
      <4>1. \A x \in Instances : x # i /\ Named(x) => Named(x)'
        BY <1>8 DEF Named
      <4>2. ASSUME Named(i) PROVE \E j \in DOMAIN inbox' : Added(j, 0) /\ Is(j, "gone", i)'
        <5>1. inbox' = Append(u, m) /\ Len(inbox) \in Nat
          BY <1>3, <1>4, <1>6, <2>3, <4>2
        <5>2. /\ Len(inbox') = Len(inbox) + 1 /\ DOMAIN inbox' = 1 .. Len(inbox) + 1
              /\ inbox'[Len(inbox) + 1] = m
          BY <1>2, <1>5, <5>1, Appended
        <5> QED
          BY <1>2, <5>1, <5>2 DEF Added, Is
      <4> QED
        BY <4>1, <4>2
    <3> QED
      BY <1>1, <1>7, <1>10, <2>1, <3>1, WatchesAside DEF MngrInv
  <2> QED
    BY <2>2, <2>3
<1>15. RegisteredInv'
  <2> SUFFICES ASSUME NEW x \in Instances, mngr # 0, st'[x] = "idle", seen'[x] = mngr
               PROVE  Watched(x)' /\ ~Pending("gone", x)'
    BY <1>1 DEF RegisteredInv
  <2>1. x # i /\ st[x] = "idle" /\ seen[x] = mngr
    BY <1>8
  <2>2. \A k \in DOMAIN inbox : ~(k =< 0)
    BY <1>7 DEF Moves
  <2>3. \A j \in DOMAIN inbox' : Added(j, 0) => ~Is(j, "gone", x)'
    BY <1>2, <1>7, <2>1 DEF Is
  <2> QED
    BY <1>1, <1>7, <2>1, <2>2, <2>3, RegisteredAside DEF MngrInv
<1> QED
  BY <1>10, <1>11, <1>12, <1>13, <1>14, <1>15 DEF MngrInv

LEMMA GoneSteps ==
  ASSUME MngrInv, NEW i \in Instances, LoopEnds(i) \/ InstanceDies(i)
  PROVE  MngrInv'
BY GoneInv DEF LoopEnds, InstanceDies
-----------------------------------------------------------------------------
(* The bus starts an instance. *)
LEMMA LaunchedInv ==
  ASSUME MngrInv, MngrTypeOK', NEW i \in Instances, st' = Launched(i),
         UNCHANGED <<inbox, seen, mngr, watches, exported, uniq, files, quit>>
  PROVE  MngrInv'
<1>1. Moves(0) /\ \A j \in DOMAIN inbox' : ~Added(j, 0)
  BY Staying DEF MngrInv, MngrTypeOK
<1>2. \A x \in Instances : \/ st'[x] = st[x]
                           \/ st[x] = "none" /\ st'[x] = "starting" /\ x \in files
  BY DEF MngrInv, MngrTypeOK, Launched
<1>3. OrphansInv'
  BY <1>2 DEF MngrInv, OrphansInv
<1>4. CallInv'
  BY <1>2 DEF MngrInv, CallInv, Says, Is
<1>5. DownInv'
  BY <1>2 DEF MngrInv, MngrTypeOK, DownInv, Pending, Is
<1>6. IdsInv' /\ AskedInv' /\ OwnedInv'
  <2>1. NoAnswerAdded(0) /\ \A k \in DOMAIN inbox : ~(k =< 0)
    BY <1>1 DEF NoAnswerAdded, Moves
  <2>2. \A x \in Instances : Named(x) => Named(x)'
    BY <1>2 DEF Named
  <2> QED
    BY <1>1, <2>1, <2>2, WatchesAside DEF MngrInv
<1>7. RegisteredInv'
  BY <1>2 DEF MngrInv, RegisteredInv, Watched, Guards, Answers, Pending, Is
<1> QED
  BY <1>3, <1>4, <1>5, <1>6, <1>7 DEF MngrInv

LEMMA LaunchedTyped ==
  ASSUME MngrTypeOK, NEW i \in Instances
  PROVE  Launched(i) \in [Instances -> {"none", "starting", "idle", "connected", "calling",
                                        "leaving", "exiting", "ended"}]
BY DEF MngrTypeOK, Launched

LEMMA ConsumeQueueInv ==
  ASSUME MngrInv, ConsumeQueue
  PROVE  MngrInv'
<1>1. /\ Head(queue) \in Instances /\ st' = Launched(Head(queue)) /\ queue' \in Seq(Instances)
      /\ UNCHANGED <<wbm, started, consuming, inbox, seen, mngr, watches, exported, uniq, files, quit>>
  BY DEF MngrInv, MngrTypeOK, ConsumeQueue, disk
<1>2. MngrTypeOK'
  BY <1>1, LaunchedTyped DEF MngrInv, MngrTypeOK, Watches
<1> QED
  BY <1>1, <1>2, LaunchedInv

(* A watch in another state is the same watch. *)
LEMMA WatchChanged ==
  ASSUME NEW w \in Watches, NEW s \in {"new", "asked", "owned", "lost"}
  PROVE  /\ [w EXCEPT !.state = s] \in Watches
         /\ [w EXCEPT !.state = s].id = w.id /\ [w EXCEPT !.state = s].of = w.of
         /\ [w EXCEPT !.state = s].state = s
BY DEF Watches

(* A new watch is answered. *)
LEMMA AnsweredInv ==
  ASSUME MngrInv, MngrTypeOK', NEW w \in watches, w.state = "new",
         NEW x, x.id = w.id, x.of = w.of, x.state = "asked",
         NEW m \in Messages, m.t = "owner", m.id = w.id, m.owned <=> Named(w.of),
         inbox' = Append(inbox, m), watches' = (watches \ {w}) \cup {x},
         UNCHANGED <<st, seen, mngr, exported, uniq, files, quit>>
  PROVE  MngrInv'
<1> DEFINE n == Len(inbox)
<1>1. /\ n \in Nat /\ Len(inbox') = n + 1
      /\ DOMAIN inbox = 1 .. n /\ DOMAIN inbox' = 1 .. n + 1
      /\ inbox'[n + 1] = m /\ \A k \in 1 .. n : inbox'[k] = inbox[k]
  BY Appended DEF MngrInv, MngrTypeOK
<1>2. Moves(0) /\ \A j \in DOMAIN inbox' : Added(j, 0) => inbox'[j] = m
  BY Appending DEF MngrInv, MngrTypeOK
<1> HIDE DEF n
<1>3. OrphansInv'
  BY DEF MngrInv, OrphansInv
<1>4. CallInv'
  <2>1. \A i \in Instances : \A j \in DOMAIN inbox' :
          /\ Added(j, 0) => ~Says(j, i)' /\ ~Is(j, "gone", i)'
          /\ Says(j, i)' => ~Added(j, 0)
    BY <1>2 DEF Says, Is
  <2> QED
    BY <1>2, <2>1, CallMoves DEF MngrInv
<1>5. DownInv'
  <2>1. \A i \in quit :
          /\ \A k \in DOMAIN inbox : ~Is(k, "ready", i)
          /\ \A j \in DOMAIN inbox' : Added(j, 0) => ~Is(j, "ready", i)'
    BY <1>2 DEF MngrInv, DownInv, Pending, Is
  <2>2. \A i \in quit : ~Pending("ready", i)'
    BY <1>2, <2>1, NotPending
  <2> QED
    BY <2>2 DEF MngrInv, DownInv
<1>6. w \in Watches /\ w.id \in 1 .. uniq /\ w.of \in Instances
  BY DEF MngrInv, MngrTypeOK, Watches
<1>7. /\ \A y \in watches' : (y \in watches /\ y.id # w.id) \/ y = x
      /\ \A k \in 1 .. n : inbox[k].t = "owner" => inbox[k].id # w.id
  BY <1>1 DEF MngrInv, IdsInv, AskedInv, Answers
<1>8. IdsInv'
  BY <1>7 DEF MngrInv, IdsInv
<1>9. AskedInv'
  <2> SUFFICES ASSUME NEW j \in 1 .. n + 1, inbox'[j].t = "owner"
               PROVE  /\ inbox'[j].id \in 1 .. uniq
                      /\ \A y \in watches' : Answers(j, y)' => y.state = "asked"
                      /\ \A l \in j + 1 .. n + 1 :
                           inbox'[l].t = "owner" => inbox'[l].id # inbox'[j].id
    BY <1>1 DEF AskedInv
  <2>1. CASE j = n + 1
    <3>1. j + 1 .. n + 1 = {}
      BY <1>1, <2>1
    <3> QED
      BY <1>1, <1>6, <1>7, <2>1, <3>1 DEF Answers
  <2>2. CASE j \in 1 .. n
    <3>1. /\ inbox'[j] = inbox[j] /\ inbox[j].id \in 1 .. uniq
          /\ \A y \in watches : Answers(j, y) => y.state = "asked"
          /\ \A l \in j + 1 .. n : inbox[l].t = "owner" => inbox[l].id # inbox[j].id
      BY <1>1, <2>2 DEF MngrInv, AskedInv, n
    <3>2. \A l \in j + 1 .. n + 1 : (l \in j + 1 .. n /\ l \in 1 .. n) \/ l = n + 1
      BY <1>1, <2>2
    <3>3. \A l \in j + 1 .. n + 1 : inbox'[l].t = "owner" => inbox'[l].id # inbox'[j].id
      BY <1>1, <1>7, <2>2, <3>1, <3>2
    <3>4. \A y \in watches' : Answers(j, y)' => y.state = "asked"
      BY <1>7, <3>1 DEF Answers
    <3> QED
      BY <3>1, <3>3, <3>4
  <2> QED
    BY <1>1, <2>1, <2>2
<1>10. OwnedInv'
  <2>1. ASSUME NEW y \in watches', y.state = "owned"
        PROVE  Named(y.of)' \/ Pending("gone", y.of)'
    <3>1. Named(y.of) \/ Pending("gone", y.of)
      BY <1>7, <2>1 DEF MngrInv, OwnedInv
    <3> QED
      BY <1>1, <3>1 DEF Named, Pending, Is
  <2>2. ASSUME NEW j \in 1 .. n + 1, NEW y \in watches', Answers(j, y)', inbox'[j].owned
        PROVE  Named(y.of)' \/ \E l \in j + 1 .. n + 1 : Is(l, "gone", y.of)'
    <3>1. CASE j = n + 1
      <4>1. y = x /\ Named(w.of)
        BY <1>1, <1>7, <2>2, <3>1 DEF Answers
      <4> QED
        BY <4>1 DEF Named
    <3>2. CASE j \in 1 .. n
      <4>1. y \in watches /\ Answers(j, y) /\ inbox[j].owned
        BY <1>1, <1>7, <2>2, <3>2 DEF Answers
      <4>2. Named(y.of) \/ \E l \in j + 1 .. n : Is(l, "gone", y.of)
        BY <1>1, <3>2, <4>1 DEF MngrInv, OwnedInv, n
      <4>3. ASSUME NEW l \in j + 1 .. n, Is(l, "gone", y.of)
            PROVE  l \in j + 1 .. n + 1 /\ Is(l, "gone", y.of)'
        BY <1>1, <3>2, <4>3 DEF Is
      <4> QED
        BY <4>2, <4>3 DEF Named
    <3> QED
      BY <1>1, <3>1, <3>2
  <2> QED
    BY <1>1, <2>1, <2>2 DEF OwnedInv
<1>11. RegisteredInv'
  <2> SUFFICES ASSUME NEW i \in Instances, mngr # 0, st[i] = "idle", seen[i] = mngr
               PROVE  Watched(i)' /\ ~Pending("gone", i)'
    BY DEF RegisteredInv
  <2>1. ~Pending("gone", i)'
    <3>1. /\ \A k \in DOMAIN inbox : ~Is(k, "gone", i)
          /\ \A j \in DOMAIN inbox' : Added(j, 0) => ~Is(j, "gone", i)'
      BY <1>2 DEF MngrInv, RegisteredInv, Pending, Is
    <3> QED
      BY <1>2, <3>1, NotPending
  <2>2. PICK y \in watches : y.of = i /\ Guards(y)
    BY DEF MngrInv, RegisteredInv, Watched
  <2>3. CASE y = w
    <3>1. m.owned
      BY <2>2, <2>3 DEF Named
    <3>2. \E k \in DOMAIN inbox' : Answers(k, x)' /\ inbox'[k].owned
      BY <1>1, <3>1 DEF Answers
    <3> QED
      BY <2>1, <2>2, <2>3, <3>2 DEF Watched, Guards
  <2>4. CASE y # w
    <3>1. y \in watches' /\ GuardsBehind(y, 0)
      BY <1>1, <2>2, <2>4 DEF Guards, GuardsBehind
    <3>2. Guards(y)'
      BY <1>2, <3>1, StillGuards
    <3> QED
      BY <2>1, <2>2, <3>1, <3>2 DEF Watched
  <2> QED
    BY <2>3, <2>4
<1> QED
  BY <1>3, <1>4, <1>5, <1>8, <1>9, <1>10, <1>11 DEF MngrInv

LEMMA WatchAnsweredInv ==
  ASSUME MngrInv, NEW w \in watches, WatchAnswered(w)
  PROVE  MngrInv'
<1> DEFINE x == [w EXCEPT !.state = "asked"]
           m == [t |-> "owner", id |-> w.id, owned |-> Named(w.of)]
<1>1. /\ w \in Watches /\ w.of \in Instances /\ w.id \in Nat /\ w.state = "new"
      /\ UNCHANGED <<wbm, seen, mngr, started, consuming, exported, uniq, queue, files, quit>>
  BY DEF MngrInv, MngrTypeOK, WatchAnswered, Watches, disk
<1>2. x.id = w.id /\ x.of = w.of /\ x.state = "asked" /\ x \in Watches
  BY <1>1, WatchChanged
<1>3. m \in Messages /\ m.t = "owner" /\ m.id = w.id /\ (m.owned <=> Named(w.of))
  <2>1. Named(w.of) \in BOOLEAN
    BY DEF Named
  <2> QED
    BY <1>1, <2>1, MessagesMade
<1>4. \/ st' = Launched(w.of) /\ UNCHANGED <<watches, inbox>>
      \/ /\ watches' = (watches \ {w}) \cup {x} /\ inbox' = Append(inbox, m) /\ UNCHANGED st
  BY DEF WatchAnswered
<1> HIDE DEF x, m
<1>5. CASE st' = Launched(w.of) /\ UNCHANGED <<watches, inbox>>
  <2>1. MngrTypeOK'
    BY <1>1, <1>5, LaunchedTyped DEF MngrInv, MngrTypeOK, Watches
  <2> QED
    BY <1>1, <1>5, <2>1, LaunchedInv
<1>6. CASE watches' = (watches \ {w}) \cup {x} /\ inbox' = Append(inbox, m) /\ UNCHANGED st
  <2>1. IsFiniteSet(watches')
    BY <1>6, FS_AddElement, FS_RemoveElement DEF MngrInv, MngrTypeOK
  <2>2. watches' \subseteq Watches'
    BY <1>1, <1>2, <1>6 DEF MngrInv, MngrTypeOK, Watches
  <2>3. inbox' \in Seq(Messages)
    BY <1>3, <1>6, Appended DEF MngrInv, MngrTypeOK
  <2>4. MngrTypeOK'
    BY <1>1, <1>6, <2>1, <2>2, <2>3 DEF MngrInv, MngrTypeOK
  <2> QED
    BY <1>1, <1>2, <1>3, <1>6, <2>4, AnsweredInv
<1> QED
  BY <1>4, <1>5, <1>6
-----------------------------------------------------------------------------
(* Steps after which some lost watches are freed, with or without a message. *)
LEMMA FreedInv ==
  ASSUME MngrInv, MngrTypeOK', mngr # 0, NEW d, Moves(d), \A j \in DOMAIN inbox' : ~Added(j, d),
         \A k \in DOMAIN inbox : k =< d => inbox[k].t \notin {"gone", "owner"},
         watches' \subseteq watches, \A w \in watches : w.state # "lost" => w \in watches',
         quit' \subseteq quit, \A i \in quit' : i \notin files',
         UNCHANGED <<exported, uniq, mngr, st, seen>>
  PROVE  MngrInv'
<1>1. OrphansInv'
  BY DEF MngrInv, OrphansInv
<1>2. CallInv'
  <2>1. \A i \in Instances : \A j \in DOMAIN inbox' : Says(j, i)' /\ inbox'[j].waits =>
          st'[i] = IF Added(j, d) THEN IF inbox'[j].t = "ready" THEN "calling" ELSE "exiting"
                   ELSE st[i]
    OBVIOUS
  <2> QED
    BY <2>1, CallMoves DEF MngrInv
<1>3. DownInv'
  <2>1. \A i \in quit' : \A k \in DOMAIN inbox : ~Is(k, "ready", i)
    BY DEF MngrInv, DownInv, Pending
  <2>2. \A i \in quit' : ~Pending("ready", i)'
    BY <2>1, NotPending
  <2> QED
    BY <2>2 DEF MngrInv, DownInv
<1>4. IdsInv'
  BY DEF MngrInv, IdsInv
<1>5. \A w \in watches' : OldOrUnasked(w, d)
  BY DEF OldOrUnasked
<1>6. NoAnswerAdded(d)
  BY DEF NoAnswerAdded
<1>7. AskedInv'
  <2>1. uniq \in Nat /\ uniq' \in Nat /\ uniq' >= uniq
    BY DEF MngrInv, MngrTypeOK
  <2> QED
    BY <1>5, <1>6, <2>1, AskedMoves DEF MngrInv
<1>8. OwnedInv'
  <2>1. \A w \in watches' : w.state = "owned" => Named(w.of) \/ GoneBehind(w.of, d)
    <3> SUFFICES ASSUME NEW w \in watches', w.state = "owned", NEW k \in DOMAIN inbox,
                        Is(k, "gone", w.of)
                 PROVE  GoneBehind(w.of, d)
      BY DEF MngrInv, OwnedInv, Pending
    <3>1. k > d
      BY DEF Moves, Is
    <3> QED
      BY <3>1 DEF GoneBehind
  <2>2. watches' \subseteq Watches' /\ \A i \in Instances : Named(i) => Named(i)'
    BY DEF MngrTypeOK, Named
  <2> QED
    BY <1>5, <1>6, <2>1, <2>2, OwnedMoves DEF MngrInv
<1>9. RegisteredInv'
  <2> SUFFICES ASSUME NEW i \in Instances, st[i] = "idle", seen[i] = mngr
               PROVE  Watched(i)' /\ ~Pending("gone", i)'
    BY DEF RegisteredInv
  <2>1. ASSUME NEW w \in watches, w.of = i, Guards(w)
        PROVE  \E x \in watches' : x.of = i /\ GuardsBehind(x, d)
    <3>1. w.state # "lost"
      BY <2>1 DEF MngrInv, AskedInv, Guards, Answers
    <3>2. GuardsBehind(w, d)
      BY <2>1 DEF Guards, GuardsBehind, Answers, Moves
    <3> QED
      BY <2>1, <3>1, <3>2
  <2> QED
    BY <2>1, RegisteredMoves DEF MngrInv
<1> QED
  BY <1>1, <1>2, <1>3, <1>4, <1>7, <1>8, <1>9 DEF MngrInv

(* The manager takes the first message. *)
LEMMA Receives ==
  ASSUME MngrTypeOK, NEW t, Received(t)
  PROVE  /\ Moves(1) /\ inbox' \in Seq(Messages) /\ \A j \in DOMAIN inbox' : ~Added(j, 1)
         /\ 1 \in DOMAIN inbox /\ Head(inbox) = inbox[1] /\ inbox[1] \in Messages
         /\ inbox[1].t = t /\ mngr # 0
         /\ \A k \in DOMAIN inbox : k =< 1 => k = 1
<1>1. /\ Moves(1) /\ inbox' \in Seq(Messages) /\ \A j \in DOMAIN inbox' : ~Added(j, 1)
      /\ 1 \in DOMAIN inbox /\ Head(inbox) = inbox[1] /\ inbox[1] \in Messages
  BY Taking DEF MngrTypeOK, Received
<1>2. \A k \in DOMAIN inbox : k =< 1 => k = 1
  BY <1>1 DEF Moves
<1> QED
  BY <1>1, <1>2 DEF Received

LEMMA CreateInv ==
  ASSUME MngrInv, Create
  PROVE  MngrInv'
<1>1. Received("create")
  BY DEF Create
<1>2. /\ Moves(1) /\ inbox' \in Seq(Messages) /\ \A j \in DOMAIN inbox' : ~Added(j, 1)
      /\ 1 \in DOMAIN inbox /\ Head(inbox) = inbox[1] /\ inbox[1] \in Messages
      /\ inbox[1].t = "create" /\ mngr # 0
      /\ \A k \in DOMAIN inbox : k =< 1 => k = 1
  BY <1>1, Receives DEF MngrInv
<1>3. inbox[1].of \in Instances
  BY <1>2, MessageFields
<1>4. /\ files' = files \cup {inbox[1].of} /\ quit' = quit \ {inbox[1].of}
      /\ queue' = Append(queue, inbox[1].of)
      /\ UNCHANGED <<st, wbm, seen, mngr, started, consuming, watches, exported, uniq>>
  BY <1>2 DEF Create, instance
<1>5. MngrTypeOK'
  BY <1>2, <1>3, <1>4 DEF MngrInv, MngrTypeOK, Watches
<1>6. \A i \in quit' : i \notin files'
  BY <1>4 DEF MngrInv, DownInv
<1>7. \A k \in DOMAIN inbox : k =< 1 => inbox[k].t \notin {"gone", "owner"}
  BY <1>2
<1> QED
  BY <1>2, <1>4, <1>5, <1>6, <1>7, FreedInv

LEMMA OwnerCameInv ==
  ASSUME MngrInv, OwnerCame
  PROVE  MngrInv'
<1>1. Received("came")
  BY DEF OwnerCame
<1>2. /\ Moves(1) /\ inbox' \in Seq(Messages) /\ \A j \in DOMAIN inbox' : ~Added(j, 1)
      /\ inbox[1].t = "came" /\ mngr # 0
      /\ \A k \in DOMAIN inbox : k =< 1 => k = 1
  BY <1>1, Receives DEF MngrInv
<1>3. /\ watches' \subseteq watches /\ \A w \in watches : w.state # "lost" => w \in watches'
      /\ UNCHANGED <<st, wbm, seen, mngr, started, consuming, exported, uniq, queue, files, quit>>
  BY DEF OwnerCame, instance, disk
<1>4. IsFiniteSet(watches')
  BY <1>3, FS_Subset DEF MngrInv, MngrTypeOK
<1>5. MngrTypeOK'
  BY <1>2, <1>3, <1>4 DEF MngrInv, MngrTypeOK, Watches
<1>6. \A i \in quit' : i \notin files'
  BY <1>3 DEF MngrInv, DownInv
<1>7. \A k \in DOMAIN inbox : k =< 1 => inbox[k].t \notin {"gone", "owner"}
  BY <1>2
<1> QED
  BY <1>2, <1>3, <1>5, <1>6, <1>7, FreedInv

LEMMA InstanceTimeoutInv ==
  ASSUME MngrInv, NEW w \in watches, InstanceTimeout(w)
  PROVE  MngrInv'
<1>1. /\ Moves(0) /\ inbox' \in Seq(Messages) /\ \A j \in DOMAIN inbox' : ~Added(j, 0)
  BY Staying DEF MngrInv, MngrTypeOK, InstanceTimeout
<1>2. /\ w.state = "lost" /\ mngr # 0 /\ (watches' = watches \/ watches' = watches \ {w})
      /\ (queue' = queue \/ queue' = Append(queue, w.of))
      /\ UNCHANGED <<st, wbm, seen, mngr, started, consuming, exported, uniq, files, quit>>
  BY DEF InstanceTimeout, instance, disk
<1>3. IsFiniteSet(watches')
  BY <1>2, FS_RemoveElement DEF MngrInv, MngrTypeOK
<1>4. queue' \in Seq(Instances)
  <2>1. queue \in Seq(Instances) /\ w.of \in Instances
    BY DEF MngrInv, MngrTypeOK, Watches
  <2> QED
    BY <1>2, <2>1
<1>5. MngrTypeOK'
  BY <1>1, <1>2, <1>3, <1>4 DEF MngrInv, MngrTypeOK, Watches
<1>6. \A i \in quit' : i \notin files'
  BY <1>2 DEF MngrInv, DownInv
<1>7. \A k \in DOMAIN inbox : k =< 0 => inbox[k].t \notin {"gone", "owner"}
  BY <1>1 DEF Moves
<1>8. watches' \subseteq watches /\ \A x \in watches : x.state # "lost" => x \in watches'
  BY <1>2
<1> QED
  BY <1>1, <1>2, <1>5, <1>6, <1>7, <1>8, FreedInv

-----------------------------------------------------------------------------
(* A manager starts, or goes. *)
LEMMA NobodyInv ==
  ASSUME MngrInv, MngrTypeOK', inbox' = <<>>, watches' = {},
         \A i \in Instances : st'[i] \in {"none", "starting"} => seen'[i] = 0,
         \A i \in quit' : st'[i] \in {"ended", "none"} /\ i \notin files',
         \A i \in Instances : seen'[i] = mngr' => mngr' = 0
  PROVE  MngrInv'
<1>1. DOMAIN inbox' = {}
  OBVIOUS
<1>2. OrphansInv' /\ DownInv'
  BY <1>1 DEF OrphansInv, DownInv, Pending
<1>3. CallInv' /\ IdsInv' /\ AskedInv' /\ OwnedInv'
  BY <1>1 DEF CallInv, IdsInv, AskedInv, OwnedInv
<1>4. RegisteredInv'
  BY DEF RegisteredInv
<1> QED
  BY <1>2, <1>3, <1>4 DEF MngrInv

LEMMA ManagerStartsInv ==
  ASSUME MngrInv, ManagerStarts
  PROVE  MngrInv'
<1>1. /\ mngr' = started + 1 /\ started' = started + 1 /\ inbox' = <<>> /\ watches' = {}
      /\ exported' = {} /\ uniq' = 0 /\ queue' = <<>> /\ consuming' \in BOOLEAN
      /\ UNCHANGED <<st, wbm, seen, files, quit>>
  BY DEF ManagerStarts, instance
<1>2. \A i \in Instances : seen[i] \in 0 .. started /\ seen[i] # started + 1
  BY DEF MngrInv, MngrTypeOK
<1>3. seen' \in [Instances -> 0 .. started'] /\ started' \in Nat
  BY <1>1 DEF MngrInv, MngrTypeOK
<1>4. IsFiniteSet(watches')
  BY <1>1, FS_EmptySet
<1>5. MngrTypeOK'
  BY <1>1, <1>3, <1>4 DEF MngrInv, MngrTypeOK, Watches
<1> QED
  BY <1>1, <1>2, <1>5, NobodyInv DEF MngrInv, OrphansInv, DownInv

LEMMA ManagerGoneInv ==
  ASSUME MngrInv, ManagerGone
  PROVE  MngrInv'
<1>1. /\ mngr' = 0 /\ inbox' = <<>> /\ watches' = {} /\ exported' = {} /\ uniq' = 0
      /\ queue' = <<>> /\ consuming' \in BOOLEAN /\ UNCHANGED <<wbm, seen, started, files, quit>>
  BY DEF ManagerGone
<1>2. \A i \in Instances : st'[i] \in {st[i], "idle", "ended"} /\
        (st[i] \in {"none", "ended"} => st'[i] = st[i])
  BY DEF ManagerGone
<1>3. st' \in [Instances -> {"none", "starting", "idle", "connected", "calling", "leaving",
                             "exiting", "ended"}]
  BY DEF MngrInv, MngrTypeOK, ManagerGone
<1>4. IsFiniteSet(watches')
  BY <1>1, FS_EmptySet
<1>5. MngrTypeOK'
  BY <1>1, <1>3, <1>4 DEF MngrInv, MngrTypeOK, Watches
<1>6. \A i \in quit' : st'[i] \in {"ended", "none"} /\ i \notin files'
  BY <1>1, <1>2 DEF MngrInv, MngrTypeOK, DownInv
<1>7. \A i \in Instances : st'[i] \in {"none", "starting"} => seen'[i] = 0
  BY <1>1, <1>2 DEF MngrInv, OrphansInv
<1> QED
  BY <1>1, <1>5, <1>6, <1>7, NobodyInv
-----------------------------------------------------------------------------
(* The manager answers a call: it was the only one its caller waits for. *)
LEMMA HandledCall ==
  ASSUME CallInv, Moves(1), \A j \in DOMAIN inbox' : ~Added(j, 1),
         1 \in DOMAIN inbox, inbox[1].t \in {"ready", "exit"}, inbox[1].of \in Instances,
         \A x \in Instances : st'[x] = st[x] \/ (inbox[1].waits /\ x = inbox[1].of)
  PROVE  CallInv'
<1>1. ASSUME NEW x \in Instances, NEW j \in DOMAIN inbox', Says(j, x)', inbox'[j].waits
      PROVE  st'[x] = st[x]
  <2>1. j + 1 \in DOMAIN inbox /\ Kept(inbox[j + 1], inbox'[j])
    BY <1>1 DEF Moves
  <2>2. Says(j + 1, x) /\ j + 1 \in 1 + 1 .. Len(inbox)
    BY <1>1, <2>1 DEF Says, Is, Kept, Moves
  <2>3. SUFFICES ASSUME inbox[1].waits, x = inbox[1].of PROVE FALSE
    OBVIOUS
  <2>4. Says(1, x)
    BY <2>3 DEF Says, Is
  <2> QED
    BY <2>2, <2>3, <2>4 DEF CallInv
<1>2. \A x \in Instances : \A j \in DOMAIN inbox' : Says(j, x)' /\ inbox'[j].waits =>
        st'[x] = IF Added(j, 1) THEN IF inbox'[j].t = "ready" THEN "calling" ELSE "exiting"
                 ELSE st[x]
  BY <1>1
<1> QED
  BY <1>2, CallMoves

LEMMA InstanceExitInv ==
  ASSUME MngrInv, InstanceExit
  PROVE  MngrInv'
<1>1. Received("exit")
  BY DEF InstanceExit
<1>2. /\ Moves(1) /\ inbox' \in Seq(Messages) /\ \A j \in DOMAIN inbox' : ~Added(j, 1)
      /\ 1 \in DOMAIN inbox /\ Head(inbox) = inbox[1] /\ inbox[1] \in Messages
      /\ inbox[1].t = "exit" /\ mngr # 0
      /\ \A k \in DOMAIN inbox : k =< 1 => k = 1
  BY <1>1, Receives DEF MngrInv
<1> DEFINE i == inbox[1].of
<1>3. i \in Instances
  BY <1>2, MessageFields
<1>4. /\ files' = files \ {i}
      /\ quit' = (IF inbox[1].waits THEN quit \cup {i} ELSE quit)
      /\ st' = (IF inbox[1].waits THEN [st EXCEPT ![i] = "ended"] ELSE st)
      /\ UNCHANGED <<wbm, seen, mngr, started, consuming, watches, exported, uniq, queue>>
  BY <1>2 DEF InstanceExit, manager
<1> HIDE DEF i
<1>5. /\ inbox[1].waits => st[i] = "exiting" /\ st'[i] = "ended"
      /\ \A x \in Instances : st'[x] = st[x] \/ (inbox[1].waits /\ x = i)
  <2>1. inbox[1].waits => st[i] = "exiting"
    BY <1>2, <1>3 DEF MngrInv, CallInv, Says, Is, i
  <2> QED
    BY <1>3, <1>4, <2>1 DEF MngrInv, MngrTypeOK
<1>6. MngrTypeOK'
  <2>1. st' \in [Instances -> {"none", "starting", "idle", "connected", "calling", "leaving",
                               "exiting", "ended"}]
    BY <1>4 DEF MngrInv, MngrTypeOK
  <2>2. files' \subseteq Instances /\ quit' \subseteq Instances
    BY <1>3, <1>4 DEF MngrInv, MngrTypeOK
  <2> QED
    BY <1>2, <1>4, <2>1, <2>2 DEF MngrInv, MngrTypeOK, Watches
<1>7. OrphansInv'
  BY <1>2, <1>4, <1>5 DEF MngrInv, OrphansInv
<1>8. CallInv'
  BY <1>2, <1>3, <1>5, HandledCall DEF MngrInv, i
<1>9. DownInv'
  <2>1. ASSUME NEW x \in quit', NEW k \in DOMAIN inbox, k > 1 PROVE ~Is(k, "ready", x)
    <3>1. CASE x \in quit
      BY <2>1, <3>1 DEF MngrInv, DownInv, Pending
    <3>2. CASE x = i /\ inbox[1].waits
      <4>1. k \in 1 + 1 .. Len(inbox) /\ Says(1, i)
        BY <1>2, <2>1 DEF Moves, Says, Is, i
      <4> QED
        BY <1>2, <1>3, <3>2, <4>1 DEF MngrInv, CallInv, Says
    <3> QED
      BY <1>4, <3>1, <3>2
  <2>2. \A x \in quit' : ~Pending("ready", x)'
    BY <1>2, <2>1, NotPending
  <2>3. \A x \in quit' : st'[x] \in {"ended", "none"} /\ x \notin files'
    BY <1>4, <1>5 DEF MngrInv, MngrTypeOK, DownInv
  <2> QED
    BY <2>2, <2>3 DEF DownInv
<1>10. IdsInv' /\ AskedInv' /\ OwnedInv'
  <2>1. NoAnswerAdded(1) /\ \A k \in DOMAIN inbox : k =< 1 => inbox[k].t # "gone"
    BY <1>2 DEF NoAnswerAdded
  <2>2. \A x \in Instances : Named(x) => Named(x)'
    BY <1>5 DEF Named
  <2> QED
    BY <1>2, <1>4, <1>6, <2>1, <2>2, WatchesAside DEF MngrInv
<1>11. RegisteredInv'
  <2> SUFFICES ASSUME NEW x \in Instances, mngr # 0, st'[x] = "idle", seen[x] = mngr
               PROVE  Watched(x)' /\ ~Pending("gone", x)'
    BY <1>4 DEF RegisteredInv
  <2>1. st[x] = "idle" /\ \A k \in DOMAIN inbox : k =< 1 => inbox[k].t # "owner"
    BY <1>2, <1>5
  <2> QED
    BY <1>2, <1>4, <2>1, RegisteredAside DEF MngrInv
<1> QED
  BY <1>6, <1>7, <1>8, <1>9, <1>10, <1>11 DEF MngrInv

LEMMA InstanceReadyInv ==
  ASSUME MngrInv, InstanceReady
  PROVE  MngrInv'
<1>1. Received("ready")
  BY DEF InstanceReady
<1>2. /\ Moves(1) /\ inbox' \in Seq(Messages) /\ \A j \in DOMAIN inbox' : ~Added(j, 1)
      /\ 1 \in DOMAIN inbox /\ Head(inbox) = inbox[1] /\ inbox[1] \in Messages
      /\ inbox[1].t = "ready" /\ mngr # 0
      /\ \A k \in DOMAIN inbox : k =< 1 => k = 1
  BY <1>1, Receives DEF MngrInv
<1> DEFINE i == inbox[1].of
<1>0. PICK y : y = [id |-> uniq + 1, of |-> i, state |-> "new"]
  OBVIOUS
<1>3. i \in Instances
  BY <1>2, MessageFields
<1>4. /\ files' = files \cup {i} /\ watches' = watches \cup {y}
      /\ st' = (IF inbox[1].waits THEN [st EXCEPT ![i] = "idle"] ELSE st)
      /\ uniq' = uniq + 1 /\ exported' = exported \cup {uniq + 1}
      /\ UNCHANGED <<wbm, seen, mngr, started, consuming, queue, quit>>
  BY <1>0, <1>2 DEF InstanceReady
<1>5. y.id = uniq + 1 /\ y.of = i /\ y.state = "new"
  BY <1>0
<1>6. y \in Watches' /\ watches \subseteq Watches'
  <2>1. uniq \in Nat
    BY DEF MngrInv, MngrTypeOK
  <2>2. y \in Watches'
    BY <1>0, <1>3, <1>4, <2>1 DEF Watches
  <2>3. watches \subseteq Watches'
    BY <1>4, <2>1 DEF MngrInv, MngrTypeOK, Watches
  <2> QED
    BY <2>2, <2>3
<1> HIDE DEF i
<1>7. /\ inbox[1].waits => st[i] = "calling" /\ st'[i] = "idle"
      /\ \A x \in Instances : st'[x] = st[x] \/ (inbox[1].waits /\ x = i)
  <2>1. inbox[1].waits => st[i] = "calling"
    BY <1>2, <1>3 DEF MngrInv, CallInv, Says, Is, i
  <2> QED
    BY <1>3, <1>4, <2>1 DEF MngrInv, MngrTypeOK
<1>8. MngrTypeOK'
  <2>1. st' \in [Instances -> {"none", "starting", "idle", "connected", "calling", "leaving",
                               "exiting", "ended"}]
    BY <1>4 DEF MngrInv, MngrTypeOK
  <2>2. files' \subseteq Instances /\ IsFiniteSet(watches') /\ watches' \subseteq Watches'
    BY <1>3, <1>4, <1>6, FS_AddElement DEF MngrInv, MngrTypeOK
  <2>3. uniq' \in Nat /\ exported' \subseteq 1 .. uniq'
    BY <1>4 DEF MngrInv, MngrTypeOK
  <2> QED
    BY <1>2, <1>4, <2>1, <2>2, <2>3 DEF MngrInv, MngrTypeOK
<1>9. OrphansInv'
  BY <1>2, <1>4, <1>7 DEF MngrInv, OrphansInv
<1>10. CallInv'
  BY <1>2, <1>3, <1>7, HandledCall DEF MngrInv, i
<1>11. DownInv'
  <2>1. \A x \in quit : x # i
    BY <1>2 DEF MngrInv, DownInv, Pending, Is, i
  <2>2. \A x \in quit : \A k \in DOMAIN inbox : ~Is(k, "ready", x)
    BY DEF MngrInv, DownInv, Pending
  <2>3. \A x \in quit : ~Pending("ready", x)'
    BY <1>2, <2>2, NotPending
  <2>4. \A x \in quit : st'[x] \in {"ended", "none"} /\ x \notin files'
    BY <1>4, <1>7, <2>1 DEF MngrInv, MngrTypeOK, DownInv
  <2> QED
    BY <1>4, <2>3, <2>4 DEF DownInv
<1>12. \A w \in watches : w.id \in 1 .. uniq /\ w.id # y.id
  BY <1>5 DEF MngrInv, MngrTypeOK, Watches
<1>13. IdsInv'
  BY <1>4, <1>5, <1>12 DEF MngrInv, IdsInv
<1>14. \A w \in watches' : OldOrUnasked(w, 1)
  <2>1. \A k \in DOMAIN inbox : ~Answers(k, y)
    BY <1>5 DEF MngrInv, MngrTypeOK, AskedInv, Answers
  <2> QED
    BY <1>4, <2>1 DEF OldOrUnasked
<1>15. NoAnswerAdded(1)
  BY <1>2 DEF NoAnswerAdded
<1>16. AskedInv'
  <2>1. uniq \in Nat /\ uniq' \in Nat /\ uniq' >= uniq
    BY <1>4 DEF MngrInv, MngrTypeOK
  <2> QED
    BY <1>2, <1>14, <1>15, <2>1, AskedMoves DEF MngrInv
<1>17. OwnedInv'
  <2>1. \A w \in watches' : w.state = "owned" => Named(w.of) \/ GoneBehind(w.of, 1)
    <3> SUFFICES ASSUME NEW w \in watches, w.state = "owned", NEW k \in DOMAIN inbox,
                        Is(k, "gone", w.of)
                 PROVE  GoneBehind(w.of, 1)
      BY <1>4, <1>5 DEF MngrInv, OwnedInv, Pending
    <3>1. k > 1
      BY <1>2 DEF Moves, Is
    <3> QED
      BY <3>1 DEF GoneBehind
  <2>2. \A x \in Instances : Named(x) => Named(x)'
    BY <1>7 DEF Named
  <2>3. watches' \subseteq Watches'
    BY <1>8 DEF MngrTypeOK
  <2> QED
    BY <1>2, <1>14, <1>15, <2>1, <2>2, <2>3, OwnedMoves DEF MngrInv
<1>18. RegisteredInv'
  <2> SUFFICES ASSUME NEW x \in Instances, st'[x] = "idle", seen[x] = mngr
               PROVE  Watched(x)' /\ ~Pending("gone", x)'
    BY <1>4 DEF RegisteredInv
  <2>1. CASE x = i /\ inbox[1].waits
    <3>1. \A k \in DOMAIN inbox : k > 1 => ~Is(k, "gone", x)
      <4>1. \A k \in DOMAIN inbox : k > 1 => k \in 1 + 1 .. Len(inbox)
        BY <1>2 DEF Moves
      <4>2. Says(1, i)
        BY <1>2 DEF Says, Is, i
      <4> QED
        BY <1>2, <1>3, <2>1, <4>1, <4>2 DEF MngrInv, CallInv
    <3>2. ~Pending("gone", x)'
      BY <1>2, <3>1, NotPending
    <3>3. Guards(y)'
      BY <1>5 DEF Guards
    <3> QED
      BY <1>4, <1>5, <2>1, <3>2, <3>3 DEF Watched
  <2>2. CASE ~(x = i /\ inbox[1].waits)
    <3>1. st[x] = "idle"
      BY <1>7, <2>2
    <3>2. \A w \in watches : w.of = x /\ Guards(w) =>
            \E v \in watches' : v.of = x /\ GuardsBehind(v, 1)
      BY <1>2, <1>4 DEF Guards, GuardsBehind, Answers, Moves
    <3> QED
      BY <1>2, <1>4, <3>1, <3>2, RegisteredMoves DEF MngrInv
  <2> QED
    BY <2>1, <2>2
<1> QED
  BY <1>8, <1>9, <1>10, <1>11, <1>13, <1>16, <1>17, <1>18 DEF MngrInv
-----------------------------------------------------------------------------
(* The manager hears of an owner, or that there is none. *)
LEMMA HeardOfInv ==
  ASSUME MngrInv, MngrTypeOK', IdsInv', mngr # 0, Moves(1), \A j \in DOMAIN inbox' : ~Added(j, 1),
         \A w \in watches' : OldOrUnasked(w, 1),
         \A w \in watches' : w.state = "owned" => Named(w.of) \/ GoneBehind(w.of, 1),
         \A i \in Instances : st[i] = "idle" /\ seen[i] = mngr =>
           \A w \in watches : w.of = i /\ Guards(w) =>
             \E x \in watches' : x.of = i /\ GuardsBehind(x, 1),
         UNCHANGED <<st, seen, mngr, uniq, files, quit>>
  PROVE  MngrInv'
<1>1. OrphansInv'
  BY DEF MngrInv, OrphansInv
<1>2. CallInv'
  <2>1. \A i \in Instances : \A j \in DOMAIN inbox' : Says(j, i)' /\ inbox'[j].waits =>
          st'[i] = IF Added(j, 1) THEN IF inbox'[j].t = "ready" THEN "calling" ELSE "exiting"
                   ELSE st[i]
    OBVIOUS
  <2> QED
    BY <2>1, CallMoves DEF MngrInv
<1>3. DownInv'
  <2>1. \A i \in quit : \A k \in DOMAIN inbox : ~Is(k, "ready", i)
    BY DEF MngrInv, DownInv, Pending
  <2>2. \A i \in quit : ~Pending("ready", i)'
    BY <2>1, NotPending
  <2> QED
    BY <2>2 DEF MngrInv, DownInv
<1>4. NoAnswerAdded(1)
  BY DEF NoAnswerAdded
<1>5. AskedInv'
  <2>1. uniq \in Nat /\ uniq' \in Nat /\ uniq' >= uniq
    BY DEF MngrInv, MngrTypeOK
  <2> QED
    BY <1>4, <2>1, AskedMoves DEF MngrInv
<1>6. OwnedInv'
  <2>1. watches' \subseteq Watches' /\ \A i \in Instances : Named(i) => Named(i)'
    BY DEF MngrTypeOK, Named
  <2> QED
    BY <1>4, <2>1, OwnedMoves DEF MngrInv
<1>7. RegisteredInv'
  <2> SUFFICES ASSUME NEW i \in Instances, st[i] = "idle", seen[i] = mngr
               PROVE  Watched(i)' /\ ~Pending("gone", i)'
    BY DEF RegisteredInv
  <2> QED
    BY RegisteredMoves DEF MngrInv
<1> QED
  BY <1>1, <1>2, <1>3, <1>5, <1>6, <1>7 DEF MngrInv

(* What vanishes is gone, or lost. *)
LEMMA VanishedWatches ==
  ASSUME MngrTypeOK, IdsInv, NEW i \in Instances, NEW ws \in SUBSET watches, Vanished(ws, i),
         uniq' = uniq
  PROVE  /\ \A w \in watches' : \/ w \in watches \ ws
                                \/ w.state = "lost" /\ \E y \in ws : y.id = w.id /\ y.of = w.of
         /\ watches \ ws \subseteq watches' /\ watches' \subseteq Watches' /\ IsFiniteSet(watches')
         /\ exported' \subseteq 1 .. uniq' /\ queue' \in Seq(Instances)
         /\ IdsInv'
<1> DEFINE F == [w \in ws |-> [w EXCEPT !.state = "lost"]]
           gone == {[w EXCEPT !.state = "lost"] : w \in ws}
<1>1. /\ exported' = exported \ {w.id : w \in ws}
      /\ \/ watches' = (watches \ ws) \cup gone
            /\ queue' = queue \o [n \in 1 .. Cardinality(ws) |-> i]
         \/ watches' = watches \ ws /\ queue' = queue
  BY DEF Vanished
<1>2. IsFiniteSet(ws) /\ Cardinality(ws) \in Nat
  BY FS_Subset, FS_CardinalityType DEF MngrTypeOK
<1>3. IsFiniteSet(gone)
  <2>1. F \in Surjection(ws, gone)
    BY DEF Surjection
  <2> HIDE DEF F, gone
  <2> QED
    BY <1>2, <2>1, FS_Surjection
<1>4. \A x \in gone :
        /\ x \in Watches /\ x.state = "lost"
        /\ \E y \in ws : x = [y EXCEPT !.state = "lost"] /\ y.id = x.id /\ y.of = x.of
  <2>1. \A y \in ws : y \in Watches
    BY DEF MngrTypeOK
  <2>2. \A y \in ws :
          /\ [y EXCEPT !.state = "lost"] \in Watches
          /\ [y EXCEPT !.state = "lost"].id = y.id /\ [y EXCEPT !.state = "lost"].of = y.of
          /\ [y EXCEPT !.state = "lost"].state = "lost"
    BY <2>1, WatchChanged
  <2> QED
    BY <2>2
<1> HIDE DEF F, gone
<1>5. /\ \A w \in watches' : \/ w \in watches \ ws
                             \/ w.state = "lost" /\ \E y \in ws : y.id = w.id /\ y.of = w.of
      /\ watches \ ws \subseteq watches'
  BY <1>1, <1>4
<1>6. watches' \subseteq Watches'
  BY <1>1, <1>4 DEF MngrTypeOK, Watches
<1>7. IsFiniteSet(watches')
  <2>1. IsFiniteSet(watches \ ws)
    BY FS_Subset DEF MngrTypeOK
  <2>2. IsFiniteSet((watches \ ws) \cup gone)
    BY <1>3, <2>1, FS_Union
  <2> QED
    BY <1>1, <2>1, <2>2
<1>8. queue' \in Seq(Instances)
  <2> DEFINE starts == [n \in 1 .. Cardinality(ws) |-> i]
  <2>1. starts \in Seq(Instances)
    BY <1>2
  <2>2. queue \in Seq(Instances)
    BY DEF MngrTypeOK
  <2>3. queue' = queue \o starts \/ queue' = queue
    BY <1>1
  <2> HIDE DEF starts
  <2>4. queue \o starts \in Seq(Instances)
    BY <2>1, <2>2
  <2> QED
    BY <2>2, <2>3, <2>4
<1>9. exported' \subseteq 1 .. uniq'
  BY <1>1 DEF MngrTypeOK
<1>10. IdsInv'
  <2>1. ASSUME NEW w \in watches', NEW x \in watches', w.id = x.id PROVE w = x
    <3>1. CASE w \in watches \ ws /\ x \in watches \ ws
      BY <2>1, <3>1 DEF IdsInv
    <3>2. CASE w \in gone /\ x \in gone
      <4>1. PICK y \in ws : w = [y EXCEPT !.state = "lost"] /\ y.id = w.id
        BY <1>4, <3>2
      <4>2. PICK z \in ws : x = [z EXCEPT !.state = "lost"] /\ z.id = x.id
        BY <1>4, <3>2
      <4> QED
        BY <2>1, <4>1, <4>2 DEF IdsInv
    <3>3. ASSUME NEW y \in watches \ ws, NEW z \in gone PROVE y.id # z.id
      BY <1>4, <3>3 DEF IdsInv
    <3> QED
      BY <1>1, <2>1, <3>1, <3>2, <3>3
  <2>2. \A w \in watches' : w.id \in exported' <=> w.state # "lost"
    BY <1>1, <1>5 DEF IdsInv
  <2> QED
    BY <2>1, <2>2 DEF IdsInv
<1> QED
  BY <1>5, <1>6, <1>7, <1>8, <1>9, <1>10

LEMMA OwnerLostInv ==
  ASSUME MngrInv, OwnerLost
  PROVE  MngrInv'
<1>1. Received("gone")
  BY DEF OwnerLost
<1>2. /\ Moves(1) /\ inbox' \in Seq(Messages) /\ \A j \in DOMAIN inbox' : ~Added(j, 1)
      /\ 1 \in DOMAIN inbox /\ Head(inbox) = inbox[1] /\ inbox[1] \in Messages
      /\ inbox[1].t = "gone" /\ mngr # 0
      /\ \A k \in DOMAIN inbox : k =< 1 => k = 1
  BY <1>1, Receives DEF MngrInv
<1> DEFINE i == inbox[1].of
           ws == {w \in WatchesOf(i) : w.state = "owned"}
<1>3. i \in Instances
  BY <1>2, MessageFields
<1>4. /\ Vanished(ws, i)
      /\ UNCHANGED <<st, wbm, seen, mngr, started, consuming, uniq, files, quit>>
  BY <1>2 DEF OwnerLost, instance, disk
<1>5. ws \subseteq watches /\ \A w \in watches : w \in ws <=> w.of = i /\ w.state = "owned"
  BY DEF WatchesOf
<1> HIDE DEF ws
<1>6. /\ \A w \in watches' : \/ w \in watches \ ws
                             \/ w.state = "lost" /\ \E y \in ws : y.id = w.id /\ y.of = w.of
      /\ watches \ ws \subseteq watches' /\ watches' \subseteq Watches' /\ IsFiniteSet(watches')
      /\ exported' \subseteq 1 .. uniq' /\ queue' \in Seq(Instances)
      /\ IdsInv'
  <2> HIDE DEF i
  <2> QED
    BY <1>3, <1>4, <1>5, VanishedWatches DEF MngrInv
<1>7. MngrTypeOK'
  BY <1>2, <1>4, <1>6 DEF MngrInv, MngrTypeOK
<1>8. \A k \in DOMAIN inbox : k = 1 \/ k > 1
  BY <1>2 DEF Moves
<1>9. \A w \in watches' : OldOrUnasked(w, 1)
  <2>1. \A y \in ws : \A k \in DOMAIN inbox : ~Answers(k, y)
    BY <1>5 DEF MngrInv, AskedInv, Answers
  <2> QED
    BY <1>6, <2>1 DEF OldOrUnasked, Answers
<1>10. ASSUME NEW w \in watches', w.state = "owned" PROVE Named(w.of) \/ GoneBehind(w.of, 1)
  <2>1. w \in watches /\ w.of # i
    BY <1>5, <1>6, <1>10
  <2>2. Named(w.of) \/ \E k \in DOMAIN inbox : Is(k, "gone", w.of)
    BY <1>10, <2>1 DEF MngrInv, OwnedInv, Pending
  <2> QED
    BY <1>8, <2>1, <2>2 DEF GoneBehind, Is
<1>11. ASSUME NEW x \in Instances, st[x] = "idle", seen[x] = mngr,
              NEW w \in watches, w.of = x, Guards(w)
       PROVE  w \in watches' /\ GuardsBehind(w, 1)
  <2>1. x # i
    BY <1>2, <1>11 DEF MngrInv, RegisteredInv, Pending, Is
  <2>2. w \in watches'
    BY <1>5, <1>6, <1>11, <2>1
  <2> QED
    BY <1>2, <1>8, <1>11, <2>2 DEF Guards, GuardsBehind, Answers
<1> QED
  BY <1>2, <1>4, <1>6, <1>7, <1>9, <1>10, <1>11, HeardOfInv DEF MngrInv

LEMMA OwnerKnownInv ==
  ASSUME MngrInv, OwnerKnown
  PROVE  MngrInv'
<1>1. Received("owner")
  BY DEF OwnerKnown
<1>2. /\ Moves(1) /\ inbox' \in Seq(Messages) /\ \A j \in DOMAIN inbox' : ~Added(j, 1)
      /\ 1 \in DOMAIN inbox /\ Head(inbox) = inbox[1] /\ inbox[1] \in Messages
      /\ inbox[1].t = "owner" /\ mngr # 0
      /\ \A k \in DOMAIN inbox : k =< 1 => k = 1
  BY <1>1, Receives DEF MngrInv
<1>3. PICK w \in watches :
        /\ w.id = inbox[1].id
        /\ IF inbox[1].owned
             THEN /\ watches' = (watches \ {w}) \cup {[w EXCEPT !.state = "owned"]}
                  /\ UNCHANGED <<exported, queue>>
             ELSE Vanished({w}, w.of)
  BY <1>2 DEF OwnerKnown
<1>4. UNCHANGED <<st, wbm, seen, mngr, started, consuming, uniq, files, quit>>
  BY DEF OwnerKnown, instance, disk
<1>5. \A k \in DOMAIN inbox : k = 1 \/ (k > 1 /\ k \in 1 + 1 .. Len(inbox))
  BY <1>2 DEF Moves
<1>6. /\ Answers(1, w) /\ w.state = "asked" /\ w \in Watches /\ w.of \in Instances
      /\ \A k \in DOMAIN inbox : k > 1 => ~Answers(k, w)
      /\ \A y \in watches : y # w => y.id # w.id /\ ~Answers(1, y)
  <2>1. Answers(1, w) /\ w.state = "asked" /\ \A k \in DOMAIN inbox : k > 1 => ~Answers(k, w)
    BY <1>2, <1>3, <1>5 DEF MngrInv, AskedInv, Answers
  <2>2. w \in Watches /\ w.of \in Instances
    BY DEF MngrInv, MngrTypeOK, Watches
  <2>3. \A y \in watches : y # w => y.id # w.id /\ ~Answers(1, y)
    BY <1>3 DEF MngrInv, IdsInv, Answers
  <2> QED
    BY <2>1, <2>2, <2>3
<1>7. ASSUME NEW y \in watches, y # w, y.state = "owned" PROVE Named(y.of) \/ GoneBehind(y.of, 1)
  <2>1. Named(y.of) \/ \E k \in DOMAIN inbox : Is(k, "gone", y.of)
    BY <1>7 DEF MngrInv, OwnedInv, Pending
  <2> QED
    BY <1>2, <1>5, <2>1 DEF GoneBehind, Is
<1>8. ASSUME NEW y \in watches, y # w, Guards(y) PROVE GuardsBehind(y, 1)
  BY <1>5, <1>6, <1>8 DEF Guards, GuardsBehind
<1>9. CASE inbox[1].owned
  <2>1. PICK x : x = [w EXCEPT !.state = "owned"]
    OBVIOUS
  <2>2. x \in Watches /\ x.id = w.id /\ x.of = w.of /\ x.state = "owned"
    BY <1>6, <2>1, WatchChanged
  <2>3. watches' = (watches \ {w}) \cup {x} /\ UNCHANGED <<exported, queue>>
    BY <1>3, <1>9, <2>1
  <2>4. MngrTypeOK'
    <3>1. IsFiniteSet(watches')
      BY <2>3, FS_AddElement, FS_RemoveElement DEF MngrInv, MngrTypeOK
    <3>2. watches' \subseteq Watches'
      BY <1>4, <2>2, <2>3 DEF MngrInv, MngrTypeOK, Watches
    <3> QED
      BY <1>2, <1>4, <2>3, <3>1, <3>2 DEF MngrInv, MngrTypeOK
  <2>5. IdsInv'
    BY <1>6, <2>2, <2>3 DEF MngrInv, IdsInv
  <2>6. \A y \in watches' : OldOrUnasked(y, 1)
    BY <1>6, <2>2, <2>3 DEF OldOrUnasked, Answers
  <2>7. \A y \in watches' : y.state = "owned" => Named(y.of) \/ GoneBehind(y.of, 1)
    <3>1. Named(x.of) \/ GoneBehind(x.of, 1)
      <4>1. Named(w.of) \/ \E l \in 1 + 1 .. Len(inbox) : Is(l, "gone", w.of)
        BY <1>2, <1>6, <1>9 DEF MngrInv, OwnedInv
      <4>2. \A l \in 1 + 1 .. Len(inbox) : l \in DOMAIN inbox /\ l > 1
        BY <1>2 DEF Moves
      <4> QED
        BY <2>2, <4>1, <4>2 DEF GoneBehind
    <3> QED
      BY <1>7, <2>3, <3>1
  <2>8. ASSUME NEW i \in Instances, NEW y \in watches, y.of = i, Guards(y)
        PROVE  \E z \in watches' : z.of = i /\ GuardsBehind(z, 1)
    <3>1. CASE y = w
      BY <2>2, <2>3, <2>8, <3>1 DEF GuardsBehind
    <3>2. CASE y # w
      BY <1>8, <2>3, <2>8, <3>2
    <3> QED
      BY <3>1, <3>2
  <2> QED
    BY <1>2, <1>4, <2>4, <2>5, <2>6, <2>7, <2>8, HeardOfInv
<1>10. CASE ~inbox[1].owned
  <2> DEFINE ws == {w}
  <2>1. ws \in SUBSET watches /\ Vanished(ws, w.of)
    BY <1>3, <1>10
  <2>2. \A y \in watches : y \in ws <=> y = w
    OBVIOUS
  <2> HIDE DEF ws
  <2>3. /\ \A y \in watches' : \/ y \in watches \ ws
                               \/ y.state = "lost" /\ \E z \in ws : z.id = y.id /\ z.of = y.of
        /\ watches \ ws \subseteq watches' /\ watches' \subseteq Watches' /\ IsFiniteSet(watches')
        /\ exported' \subseteq 1 .. uniq' /\ queue' \in Seq(Instances)
        /\ IdsInv'
    BY <1>4, <1>6, <2>1, VanishedWatches DEF MngrInv
  <2>4. MngrTypeOK'
    BY <1>2, <1>4, <2>3 DEF MngrInv, MngrTypeOK
  <2>5. \A y \in watches' : (y \in watches /\ y # w) \/ (y.state = "lost" /\ y.id = w.id)
    BY <2>1, <2>2, <2>3
  <2>6. \A y \in watches' : OldOrUnasked(y, 1)
    BY <1>6, <2>5 DEF OldOrUnasked, Answers
  <2>7. \A y \in watches' : y.state = "owned" => Named(y.of) \/ GoneBehind(y.of, 1)
    BY <1>7, <2>5
  <2>8. ASSUME NEW i \in Instances, NEW y \in watches, y.of = i, Guards(y)
        PROVE  \E z \in watches' : z.of = i /\ GuardsBehind(z, 1)
    <3>1. y # w
      BY <1>5, <1>6, <1>10, <2>8 DEF Guards
    <3>2. y \in watches'
      BY <2>2, <2>3, <3>1
    <3> QED
      BY <1>8, <2>8, <3>1, <3>2
  <2> QED
    BY <1>2, <1>4, <2>3, <2>4, <2>6, <2>7, <2>8, HeardOfInv
<1> QED
  BY <1>9, <1>10
-----------------------------------------------------------------------------
LEMMA MngrInitInv == MngrInit => MngrInv
<1> SUFFICES ASSUME MngrInit PROVE MngrInv
  OBVIOUS
<1>1. /\ st = [i \in Instances |-> "none"] /\ wbm = [i \in Instances |-> FALSE]
      /\ seen = [i \in Instances |-> 0] /\ mngr = 0 /\ started = 0 /\ uniq = 0
      /\ consuming \in BOOLEAN
      /\ files = {} /\ quit = {} /\ watches = {} /\ exported = {}
      /\ queue = <<>> /\ inbox = <<>>
  BY DEF MngrInit
<1>2. IsFiniteSet(watches)
  BY <1>1, FS_EmptySet
<1>3. MngrTypeOK
  BY <1>1, <1>2 DEF MngrTypeOK, Watches
<1>4. DOMAIN inbox = {}
  BY <1>1
<1>5. OrphansInv /\ CallInv /\ DownInv
  BY <1>1, <1>4 DEF OrphansInv, CallInv, DownInv
<1>6. IdsInv /\ AskedInv /\ OwnedInv /\ RegisteredInv
  BY <1>1, <1>4 DEF IdsInv, AskedInv, OwnedInv, RegisteredInv
<1> QED
  BY <1>3, <1>5, <1>6 DEF MngrInv

LEMMA MngrNextInv == MngrInv /\ [MngrNext]_mngrVars => MngrInv'
<1> SUFFICES ASSUME MngrInv, [MngrNext]_mngrVars PROVE MngrInv'
  OBVIOUS
<1>1. CASE ManagerStarts
  BY <1>1, ManagerStartsInv
<1>2. CASE Create
  BY <1>2, CreateInv
<1>3. CASE InstanceReady
  BY <1>3, InstanceReadyInv
<1>4. CASE InstanceExit
  BY <1>4, InstanceExitInv
<1>5. CASE OwnerLost
  BY <1>5, OwnerLostInv
<1>6. CASE OwnerCame
  BY <1>6, OwnerCameInv
<1>7. CASE OwnerKnown
  BY <1>7, OwnerKnownInv
<1>8. CASE ManagerQuits \/ ManagerDies
  BY <1>8, ManagerGoneInv DEF ManagerQuits, ManagerDies
<1>9. CASE ConsumeQueue
  BY <1>9, ConsumeQueueInv
<1>10. CASE UserCall
  BY <1>10, UserCallInv
<1>11. ASSUME NEW w \in watches, WatchAnswered(w) \/ InstanceTimeout(w) PROVE MngrInv'
  BY <1>11, WatchAnsweredInv, InstanceTimeoutInv
<1>12. ASSUME NEW i \in Instances, InstanceStep(i) PROVE MngrInv'
  BY <1>12, BusAcquiredInv, IdleSteps, CallSteps, GoneSteps DEF InstanceStep
<1>13. ASSUME NEW i \in Instances, Quit(i) \/ Restart(i) \/ InstanceDies(i) PROVE MngrInv'
  BY <1>13, IdleSteps, GoneSteps
<1>14. CASE UNCHANGED mngrVars
  <2>1. UNCHANGED <<st, wbm, seen, mngr, started, consuming, files, quit, inbox, queue, watches, exported,
                    uniq>>
    BY <1>14 DEF mngrVars, instance, manager, disk
  <2>2. MngrTypeOK'
    BY <2>1 DEF MngrInv, MngrTypeOK, Watches
  <2> QED
    BY <2>1, <2>2, Unseen
<1> QED
  BY <1>1, <1>2, <1>3, <1>4, <1>5, <1>6, <1>7, <1>8, <1>9, <1>10, <1>11, <1>12, <1>13, <1>14
  DEF MngrNext, ManagerStep

(* MngrInv is an invariant of the manager and its instances: the messages on the bus,
   the watches, the service files and where the instances are agree as it says. *)
THEOREM ManagerInvariant == MngrSpec => []MngrInv
BY MngrInitInv, MngrNextInv, PTL DEF MngrSpec

(* Every variable of the manager and of the instances keeps its type. *)
THEOREM ManagerTypeCorrect == MngrSpec => []MngrTypeOK
<1>1. MngrInv => MngrTypeOK
  BY DEF MngrInv
<1> QED
  BY <1>1, ManagerInvariant, PTL

(* When all is quiet, the manager lists the instances that run and no other: a watch
   that has an owner stands for an instance on the bus, and an instance that is ready
   has such a watch. *)
LEMMA QuietLists == MngrInv => ListsTheRunning
<1> SUFFICES ASSUME MngrInv, Quiet PROVE Listed = {i \in Instances : st[i] = "idle"}
  BY DEF ListsTheRunning
<1>1. DOMAIN inbox = {} /\ \A t, i : ~Pending(t, i)
  BY DEF Quiet, Pending
<1>2. \A w \in watches : w.of \in Instances /\ w.state \in {"owned", "lost"}
  BY DEF MngrInv, MngrTypeOK, Watches, Quiet
<1>3. ASSUME NEW w \in watches, w.id \in exported PROVE st[w.of] = "idle"
  <2>1. w.state = "owned"
    BY <1>2, <1>3 DEF MngrInv, IdsInv
  <2>2. Named(w.of)
    BY <1>1, <2>1 DEF MngrInv, OwnedInv
  <2> QED
    BY <1>2, <2>2 DEF Named, Quiet
<1>4. ASSUME NEW i \in Instances, st[i] = "idle"
      PROVE  \E w \in watches : w.of = i /\ w.id \in exported
  <2>1. PICK w \in watches : w.of = i /\ Guards(w)
    BY <1>4 DEF MngrInv, RegisteredInv, Watched, Quiet
  <2>2. w.state # "lost"
    BY <1>1, <2>1 DEF Guards
  <2> QED
    BY <2>1, <2>2 DEF MngrInv, IdsInv
<1> QED
  BY <1>2, <1>3, <1>4 DEF Listed

(* At rest the answer to list_instances names who runs and nobody else, for any number of
   instances, deaths and managers. *)
THEOREM ManagerListsTheRunning == MngrSpec => []ListsTheRunning
BY ManagerInvariant, QuietLists, PTL

(* Who was told to quit and answered stays down: the bus starts only what has a service
   file, and nobody makes one for it. *)
LEMMA StaysDownStep ==
  MngrInv /\ [MngrNext]_mngrVars =>
    [\A i \in quit : st[i] = "none" => st'[i] = "none"]_mngrVars
<1> SUFFICES ASSUME MngrInv, MngrNext, NEW i \in quit, st[i] = "none" PROVE st'[i] = "none"
  OBVIOUS
<1>1. i \in Instances /\ i \notin files /\ ~Pending("ready", i)
  BY DEF MngrInv, MngrTypeOK, DownInv
<1>2. \A j \in Instances : Launched(j)[i] = "none"
  BY <1>1 DEF MngrInv, MngrTypeOK, Launched
<1>3. ASSUME NEW j \in Instances, NEW l, st[j] # "none", st' = [st EXCEPT ![j] = l]
      PROVE  st'[i] = "none"
  BY <1>1, <1>3 DEF MngrInv, MngrTypeOK
<1>4. CASE ManagerStarts \/ Create \/ OwnerLost \/ OwnerCame \/ OwnerKnown \/ UserCall
  BY <1>4 DEF ManagerStarts, Create, OwnerLost, OwnerCame, OwnerKnown, UserCall, instance
<1>5. CASE InstanceReady \/ InstanceExit
  <2>1. PICK t \in {"ready", "exit"} : Received(t)
    BY <1>5 DEF InstanceReady, InstanceExit
  <2>2. /\ 1 \in DOMAIN inbox /\ Head(inbox) = inbox[1] /\ inbox[1] \in Messages
        /\ inbox[1].t = t
    BY <2>1, Receives DEF MngrInv
  <2>3. inbox[1].of \in Instances
    BY <2>2, MessageFields
  <2>4. inbox[1].waits => st[inbox[1].of] # "none"
    BY <2>2, <2>3 DEF MngrInv, CallInv, Says, Is
  <2>5. st' = st \/ (inbox[1].waits /\ \E l : st' = [st EXCEPT ![inbox[1].of] = l])
    BY <1>5, <2>2 DEF InstanceReady, InstanceExit
  <2> QED
    BY <1>3, <2>3, <2>4, <2>5
<1>6. CASE ManagerQuits \/ ManagerDies
  BY <1>1, <1>6 DEF ManagerQuits, ManagerDies, ManagerGone
<1>7. CASE ConsumeQueue
  <2>1. Head(queue) \in Instances
    BY <1>7 DEF ConsumeQueue, MngrInv, MngrTypeOK
  <2> QED
    BY <1>2, <1>7, <2>1 DEF ConsumeQueue
<1>8. ASSUME NEW w \in watches, WatchAnswered(w) \/ InstanceTimeout(w) PROVE st'[i] = "none"
  <2>1. w.of \in Instances
    BY DEF MngrInv, MngrTypeOK, Watches
  <2> QED
    BY <1>2, <1>8, <2>1 DEF WatchAnswered, InstanceTimeout, instance
<1>9. ASSUME NEW j \in Instances,
             InstanceStep(j) \/ Quit(j) \/ Restart(j) \/ InstanceDies(j)
      PROVE  st'[i] = "none"
  <2>1. CASE BusAcquired(j) \/ MngrNameAppeared(j) \/ Quit(j) \/ Restart(j)
    <3>1. st[j] # "none" /\ \E l : st' = [st EXCEPT ![j] = l]
      BY <2>1 DEF BusAcquired, MngrNameAppeared, Quit, Restart
    <3> QED
      BY <1>3, <3>1
  <2>2. CASE MngrNameVanished(j)
    BY <2>2 DEF MngrNameVanished
  <2>3. CASE CallInstanceReady(j) \/ CallInstanceExit(j)
    <3>1. st[j] # "none" /\ (st' = st \/ \E l : st' = [st EXCEPT ![j] = l])
      BY <2>3 DEF CallInstanceReady, CallInstanceExit, CallsManager
    <3> QED
      BY <1>3, <3>1
  <2>4. CASE LoopEnds(j) \/ InstanceDies(j)
    <3>1. st[j] # "none" /\ st' = [st EXCEPT ![j] = "none"]
      BY <2>4 DEF LoopEnds, InstanceDies, Gone
    <3> QED
      BY <1>3, <3>1
  <2> QED
    BY <1>9, <2>1, <2>2, <2>3, <2>4 DEF InstanceStep
<1> QED
  BY <1>4, <1>5, <1>6, <1>7, <1>8, <1>9 DEF MngrNext, ManagerStep

(* No step of anyone brings back an instance that was quit and answered, before a third
   party creates it. *)
THEOREM ManagerStaysDown == MngrSpec => StaysDown
BY ManagerInvariant, StaysDownStep, PTL DEF MngrSpec, StaysDown
=============================================================================
