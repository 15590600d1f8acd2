--------------------------- MODULE RecvRingProofs ---------------------------
(***************************************************************************)
(* Proofs about RecvRing for any messages and any size of the ring.        *)
(***************************************************************************)
EXTENDS RecvRing, Sequences, TLAPS

(* The initial state satisfies the invariant. *)
LEMMA InitInv == Init => Inv
<1> SUFFICES ASSUME Init PROVE Inv
  OBVIOUS
<1> USE RecvRingAssumption DEF Init
<1>1. TypeOK
  <2>1. recv_msgs \in [Slots -> Msgs \cup {NULL}]
    OBVIOUS
  <2>2. /\ wpos \in Slots /\ rpos \in Slots /\ closing \in 0 .. RECV_MSG_MAX
        /\ empty \in 0 .. RECV_MSG_MAX /\ full \in 0 .. RECV_MSG_MAX
    BY DEF Slots
  <2>3. /\ dead \in BOOLEAN
        /\ rpc \in {"loop", "read", "wait", "write", "signal", "close", "done"}
        /\ rmsg \in Msgs \cup {NULL}
        /\ dpc \in {"loop", "wait", "take", "signal", "check", "handle", "done", "aborted"}
        /\ dmsg \in Msgs \cup {NULL}
    OBVIOUS
  <2> QED
    BY <2>1, <2>2, <2>3 DEF TypeOK
<1>2. Occupied = 0 /\ Writing = 0 /\ Returning = 0
  BY DEF Occupied, Writing, Returning
<1>3. Conservation
  BY <1>2 DEF Conservation
<1>4. SlotsInv
  BY <1>2 DEF SlotsInv, At, Distance, Slots
<1>5. ReaderInv /\ DispatchInv
  BY DEF ReaderInv, DispatchInv, Open
<1> QED
  BY <1>1, <1>3, <1>4, <1>5 DEF Inv

(* The counts are numbers, and none exceeds the size of the ring. *)
LEMMA CountsRange ==
  ASSUME TypeOK, Conservation
  PROVE  /\ Occupied \in Nat /\ Writing \in {0, 1} /\ Returning \in {0, 1}
         /\ empty \in Nat /\ full \in Nat
         /\ Occupied + Writing + Returning =< RECV_MSG_MAX
         /\ Occupied =< RECV_MSG_MAX
BY RecvRingAssumption
DEF Occupied, Writing, Returning, Conservation, TypeOK

(* A step that moves no slot, no position and no count keeps SlotsInv. *)
LEMMA SlotsFrame ==
  ASSUME SlotsInv, UNCHANGED <<recv_msgs, wpos, rpos, closing>>,
         Occupied' = Occupied
  PROVE  SlotsInv'
BY DEF SlotsInv, At, Distance, Slots
-----------------------------------------------------------------------------
(* The steps of the reader preserve the invariant.  Those of this lemma     *)
(* leave the slots and the positions alone.                                 *)
LEMMA ReadInv ==
  ASSUME Inv, Running,
         \/ ReadLoop \/ ReadEnd \/ PostWait \/ PostSignal \/ ReaderDone
         \/ \E m \in Msgs : ReadMsg(m)
  PROVE  Inv'
<1> USE RecvRingAssumption DEF Inv
<1> USE DEF ReadLoop, ReadEnd, PostWait, PostSignal, ReaderDone, ReadMsg, dispatch
<1>1. Occupied' = Occupied /\ UNCHANGED <<recv_msgs, wpos, rpos, closing, dpc, dmsg>>
  BY DEF Occupied, TypeOK
<1>2. empty' + Writing' = empty + Writing /\ Returning' = Returning
  BY DEF Writing, Returning, TypeOK
<1>3. Conservation'
  BY <1>1, <1>2, CountsRange DEF Conservation, Writing
<1>4. full' \in 0 .. RECV_MSG_MAX /\ empty' \in 0 .. RECV_MSG_MAX
  BY CountsRange DEF Conservation, Occupied, TypeOK
<1>5. TypeOK'
  BY <1>1, <1>4 DEF TypeOK, Slots
<1>6. SlotsInv'
  BY <1>1, SlotsFrame
<1>7. ReaderInv'
  <2>1. CASE \E m \in Msgs : ReadMsg(m)
    BY <2>1 DEF ReaderInv, Open, TypeOK
  <2>2. CASE ReadLoop
    BY <2>2 DEF ReaderInv, Open
  <2>3. CASE ReadEnd
    BY <2>3 DEF ReaderInv, Open
  <2>4. CASE PostWait \/ PostSignal \/ ReaderDone
    BY <2>4 DEF ReaderInv, Open
  <2> QED
    BY <2>1, <2>2, <2>3, <2>4
<1>8. DispatchInv'
  BY <1>1 DEF DispatchInv, Running
<1> QED
  BY <1>3, <1>5, <1>6, <1>7, <1>8

LEMMA PostWriteInv == ASSUME Inv, PostWrite PROVE Inv'
<1> USE RecvRingAssumption DEF Inv, PostWrite, dispatch
<1>1. TypeOK'
  BY DEF TypeOK, Slots, NextPos
<1>2. Occupied' = Occupied + 1 /\ Writing = 1 /\ Writing' = 0 /\ Returning' = Returning
  BY DEF Occupied, Writing, Returning, TypeOK
<1>3. Conservation'
  BY <1>2, CountsRange DEF Conservation
<1>4. Occupied < RECV_MSG_MAX /\ Occupied \in Nat
  BY <1>2, CountsRange
<1>5. ReaderInv' /\ DispatchInv' /\ closing = 0 /\ rmsg # NULL
  BY DEF ReaderInv, DispatchInv, Open
<1>6. wpos' = At(Occupied)'
  BY <1>2, <1>4 DEF SlotsInv, At, NextPos, TypeOK, Slots
<1>7. ASSUME NEW i \in Slots
      PROVE  Distance(i) < Occupied + 1 <=> (Distance(i) < Occupied \/ i = wpos)
  BY <1>4 DEF SlotsInv, At, Distance, TypeOK, Slots
<1>8. ASSUME NEW i \in Slots
      PROVE  recv_msgs'[i] # NULL <=> (recv_msgs[i] # NULL \/ i = wpos)
  BY <1>5 DEF TypeOK
<1>9. \A i \in Slots : Distance(i)' = Distance(i)
  BY DEF Distance
<1>10. SlotsInv'
  BY <1>2, <1>5, <1>6, <1>7, <1>8, <1>9 DEF SlotsInv
<1> QED
  BY <1>1, <1>3, <1>5, <1>10

LEMMA CloseSlotInv == ASSUME Inv, CloseSlot PROVE Inv'
<1> USE RecvRingAssumption DEF Inv, CloseSlot, dispatch
<1>1. TypeOK'
  BY DEF TypeOK, Slots
<1>2. Occupied' = Occupied /\ Writing' = Writing /\ Returning' = Returning
  BY DEF Occupied, Writing, Returning
<1>3. Conservation'
  BY <1>2 DEF Conservation
<1>4. closing' > 0 /\ closing' # 0
  BY DEF TypeOK
<1>5. SlotsInv'
  BY <1>2, <1>4 DEF SlotsInv, At
<1>6. ReaderInv' /\ DispatchInv'
  BY <1>4 DEF ReaderInv, DispatchInv, Open
<1> QED
  BY <1>1, <1>3, <1>5, <1>6
-----------------------------------------------------------------------------
(* The steps of the dispatch thread preserve the invariant. *)
LEMMA DispatchStepInv ==
  ASSUME Inv,
         \/ DispatchLoop \/ GetWait \/ GetSignal \/ Check \/ Handle \/ DispatchDone
         \/ Die
  PROVE  Inv'
<1> USE RecvRingAssumption DEF Inv
<1> USE DEF DispatchLoop, GetWait, GetSignal, Check, Handle, DispatchDone, Die,
            reader, dispatch
<1>1. Occupied' = Occupied /\ UNCHANGED <<recv_msgs, wpos, rpos, closing, rpc, rmsg>>
  BY DEF Occupied, TypeOK
<1>2. empty' + Returning' = empty + Returning /\ Writing' = Writing
  BY DEF Writing, Returning, TypeOK
<1>3. Conservation'
  BY <1>1, <1>2, CountsRange DEF Conservation, Returning
<1>4. full' \in 0 .. RECV_MSG_MAX /\ empty' \in 0 .. RECV_MSG_MAX
  BY CountsRange DEF Conservation, Returning, TypeOK
<1>5. TypeOK'
  BY <1>1, <1>4 DEF TypeOK, Slots
<1>6. SlotsInv'
  BY <1>1, SlotsFrame
<1>7. ReaderInv' /\ DispatchInv'
  BY DEF ReaderInv, DispatchInv, Open, TypeOK
<1> QED
  BY <1>3, <1>5, <1>6, <1>7

LEMMA GetTakeInv == ASSUME Inv, GetTake PROVE Inv'
<1> USE RecvRingAssumption DEF Inv, GetTake, reader
<1>1. TypeOK'
  BY DEF TypeOK, Slots, NextPos
<1>2. /\ Occupied' = Occupied - 1 /\ Occupied > 0
      /\ Writing' = Writing /\ Returning = 0 /\ Returning' = 1
  BY CountsRange DEF Occupied, Writing, Returning, TypeOK
<1>3. Conservation'
  BY <1>2, CountsRange DEF Conservation
<1>4. Occupied =< RECV_MSG_MAX /\ Occupied \in Nat
  BY <1>2, CountsRange
<1>5. rpos \in Slots /\ Distance(rpos) = 0
  BY DEF Distance, TypeOK, Slots
<1>6. closing = 0 => dmsg' # NULL
  BY <1>2, <1>5 DEF SlotsInv
<1>7. ReaderInv' /\ DispatchInv'
  BY <1>6 DEF ReaderInv, DispatchInv, Open, TypeOK
<1>8. (wpos = At(Occupied))'
  BY <1>2, <1>4 DEF SlotsInv, At, NextPos, TypeOK, Slots
<1>9. ASSUME NEW i \in Slots
      PROVE  Distance(i)' < Occupied' <=> (Distance(i) < Occupied /\ i # rpos)
  BY <1>2, <1>4 DEF Distance, NextPos, TypeOK, Slots
<1>10. ASSUME NEW i \in Slots
       PROVE  recv_msgs'[i] # NULL <=> (recv_msgs[i] # NULL /\ i # rpos)
  BY <1>5 DEF TypeOK
<1>11. SlotsInv'
  BY <1>8, <1>9, <1>10 DEF SlotsInv
<1> QED
  BY <1>1, <1>3, <1>7, <1>11
-----------------------------------------------------------------------------
LEMMA StutterInv == ASSUME Inv, UNCHANGED vars PROVE Inv'
<1> USE DEF Inv, vars
<1>1. Occupied' = Occupied /\ Writing' = Writing /\ Returning' = Returning
  BY DEF Occupied, Writing, Returning
<1>2. TypeOK' /\ Conservation' /\ ReaderInv' /\ DispatchInv'
  BY <1>1 DEF TypeOK, Slots, Conservation, ReaderInv, DispatchInv, Open
<1>3. SlotsInv'
  BY <1>1, SlotsFrame
<1> QED
  BY <1>2, <1>3

LEMMA NextInv == Inv /\ [Next]_vars => Inv'
<1> SUFFICES ASSUME Inv, [Next]_vars PROVE Inv'
  OBVIOUS
<1>1. CASE Running /\ (Reader \/ \E m \in Msgs : ReadMsg(m))
  BY <1>1, ReadInv, PostWriteInv, CloseSlotInv DEF Reader
<1>2. CASE Dispatch \/ Die
  BY <1>2, DispatchStepInv, GetTakeInv DEF Dispatch
<1>3. CASE UNCHANGED vars
  BY <1>3, StutterInv
<1> QED
  BY <1>1, <1>2, <1>3 DEF Next

(* The units of the two semaphores, the slots in use and the positions of   *)
(* post_new_msg and get_next_msg always add up, also while the ring is      *)
(* being emptied.                                                           *)
THEOREM RecvRingInvariant == Spec => []Inv
BY InitInv, NextInv, PTL DEF Spec

(* Every variable keeps its type: the positions stay inside the ring and    *)
(* the semaphores within RECV_MSG_MAX, even after the ring was emptied      *)
(* under the consumer's feet.                                               *)
THEOREM RecvTypeCorrect == Spec => []TypeOK
<1>1. Inv => TypeOK
  BY DEF Inv
<1> QED
  BY <1>1, RecvRingInvariant, PTL

(* The assertion of thread_dispatch.c on a null message can only fail while *)
(* the reader that lost its connection is emptying the ring.                *)
THEOREM NullOnlyWhileEmptied == Spec => []NullOnlyOnClose
<1>1. Inv => NullOnlyOnClose
  BY DEF Inv, DispatchInv, NullOnlyOnClose
<1> QED
  BY <1>1, RecvRingInvariant, PTL
-----------------------------------------------------------------------------
(* The queue the ring stands for, as a sequence. *)
LEMMA AtRange ==
  ASSUME Inv, NEW k \in Nat, k < RECV_MSG_MAX
  PROVE  At(k) \in Slots /\ Distance(At(k)) = k
BY RecvRingAssumption DEF Inv, TypeOK, Slots, At, Distance

(* The messages that wait, as one formula that can be primed. *)
WaitingShape ==
  /\ Waiting \in Seq(Msgs)
  /\ Len(Waiting) = Occupied
  /\ \A k \in 1 .. Occupied : Waiting[k] = recv_msgs[At(k - 1)]

LEMMA WaitingHasShape == Inv /\ Open => WaitingShape
<1> SUFFICES ASSUME Inv, Open PROVE WaitingShape
  OBVIOUS
<1>1. Occupied \in Nat /\ Occupied =< RECV_MSG_MAX
  BY CountsRange DEF Inv
<1>2. ASSUME NEW k \in 1 .. Occupied
      PROVE  recv_msgs[At(k - 1)] \in Msgs
  <2>1. k - 1 \in Nat /\ k - 1 < Occupied /\ k - 1 < RECV_MSG_MAX
    BY <1>1, RecvRingAssumption
  <2>2. At(k - 1) \in Slots /\ Distance(At(k - 1)) < Occupied
    BY <2>1, AtRange
  <2> QED
    BY <2>2 DEF Inv, SlotsInv, ReaderInv, TypeOK
<1>3. Waiting = [k \in 1 .. Occupied |-> recv_msgs[At(k - 1)]]
  BY DEF Waiting
<1>4. Waiting \in [1 .. Occupied -> Msgs]
  BY <1>2, <1>3
<1>5. Waiting \in Seq(Msgs) /\ Len(Waiting) = Occupied
  BY <1>1, <1>4
<1> QED
  BY <1>3, <1>5 DEF WaitingShape

LEMMA WaitingHasShapeNext == (Inv /\ Open)' => WaitingShape'
BY WaitingHasShape, PTL

(* Two sequences of the same length with the same elements are the same. *)
LEMMA SeqEqual ==
  ASSUME NEW S, NEW s \in Seq(S), NEW t \in Seq(S), Len(s) = Len(t),
         \A k \in 1 .. Len(s) : s[k] = t[k]
  PROVE  s = t
OBVIOUS

(* A step that leaves the slots, `pos' of the consumer and the counts alone *)
(* changes nothing of what waits.                                           *)
LEMMA WaitingFrame ==
  ASSUME UNCHANGED <<recv_msgs, rpos, dmsg>>, Occupied' = Occupied, Open, Open'
  PROVE  UNCHANGED <<Waiting, InHand>> /\ Open' = Open
<1>1. \A k \in 1 .. Occupied : At(k - 1)' = At(k - 1)
  BY DEF At
<1> QED
  BY <1>1 DEF Waiting, InHand, Open

(* Storing the message the stream delivered appends it to the queue. *)
LEMMA PostWritePuts ==
  ASSUME Inv, Inv', PostWrite
  PROVE  /\ rmsg \in Msgs /\ Len(Waiting) < RECV_MSG_MAX
         /\ Waiting' = Append(Waiting, rmsg)
         /\ UNCHANGED <<InHand, Open>> /\ Open
<1> USE RecvRingAssumption DEF Inv
<1>1. /\ Open /\ Open' /\ rpos' = rpos /\ dmsg' = dmsg
      /\ rmsg \in Msgs /\ rmsg # NULL
      /\ recv_msgs' = [recv_msgs EXCEPT ![wpos] = rmsg]
  BY DEF PostWrite, dispatch, Open, ReaderInv, TypeOK
<1>2. Occupied' = Occupied + 1 /\ Occupied \in Nat /\ Occupied < RECV_MSG_MAX
  BY CountsRange DEF PostWrite, dispatch, Occupied, Writing, TypeOK
<1>3. WaitingShape /\ WaitingShape'
  BY <1>1, WaitingHasShape, WaitingHasShapeNext
<1>4. Len(Waiting) = Occupied /\ Len(Waiting') = Occupied + 1
  BY <1>2, <1>3 DEF WaitingShape
<1>5. ASSUME NEW k \in 1 .. Len(Waiting')
      PROVE  Waiting'[k] = Append(Waiting, rmsg)[k]
  <2>1. At(k - 1)' = At(k - 1) /\ k - 1 \in Nat /\ k - 1 < RECV_MSG_MAX
    BY <1>1, <1>2, <1>4 DEF At
  <2>2. Waiting'[k] = recv_msgs'[At(k - 1)] /\ At(k - 1) \in Slots
    BY <1>2, <1>3, <1>4, <2>1, AtRange DEF WaitingShape
  <2>3. wpos = At(Occupied) /\ wpos \in Slots /\ recv_msgs \in [Slots -> Msgs \cup {NULL}]
    BY DEF SlotsInv, TypeOK
  <2>4. CASE k \in 1 .. Len(Waiting)
    <3>1. At(k - 1) # wpos
      BY <1>2, <1>4, <2>3, <2>4 DEF At, TypeOK, Slots
    <3>2. Waiting'[k] = recv_msgs[At(k - 1)]
      BY <1>1, <2>2, <2>3, <3>1
    <3> QED
      BY <1>3, <1>4, <2>4, <3>2 DEF WaitingShape
  <2>5. CASE k = Len(Waiting) + 1
    <3>1. At(k - 1) = wpos
      BY <1>2, <1>4, <2>3, <2>5
    <3> QED
      BY <1>1, <1>3, <2>2, <2>3, <2>5, <3>1 DEF WaitingShape
  <2> QED
    BY <1>2, <1>4, <2>4, <2>5
<1>6. Append(Waiting, rmsg) \in Seq(Msgs) /\ Len(Append(Waiting, rmsg)) = Len(Waiting')
  BY <1>1, <1>3, <1>4 DEF WaitingShape
<1>7. Waiting' = Append(Waiting, rmsg)
  BY <1>3, <1>5, <1>6, SeqEqual DEF WaitingShape
<1> QED
  BY <1>1, <1>2, <1>4, <1>7 DEF InHand

(* Taking the slot at `pos' takes the head of the queue. *)
LEMMA GetTakeTakes ==
  ASSUME Inv, Inv', GetTake, Open
  PROVE  /\ InHand = NULL /\ Waiting # <<>>
         /\ InHand' = Head(Waiting) /\ Waiting' = Tail(Waiting) /\ Open'
<1> USE RecvRingAssumption DEF Inv
<1>1. /\ Open' /\ InHand = NULL /\ InHand' = recv_msgs[rpos]
      /\ rpos' = NextPos(rpos) /\ rpos \in Slots
      /\ recv_msgs \in [Slots -> Msgs \cup {NULL}]
      /\ recv_msgs' = [recv_msgs EXCEPT ![rpos] = NULL]
  BY DEF GetTake, reader, Open, InHand, DispatchInv, TypeOK
<1>2. /\ Occupied \in Nat /\ Occupied > 0 /\ Occupied =< RECV_MSG_MAX
      /\ Occupied' = Occupied - 1
  BY CountsRange DEF GetTake, reader, Occupied, TypeOK
<1>3. WaitingShape /\ WaitingShape'
  BY <1>1, WaitingHasShape, WaitingHasShapeNext
<1>4. Len(Waiting) = Occupied /\ Len(Waiting') = Occupied - 1
  BY <1>2, <1>3 DEF WaitingShape
<1>5. Waiting[1] = recv_msgs[rpos]
  <2>1. At(0) = rpos
    BY DEF At, TypeOK, Slots
  <2> QED
    BY <1>2, <1>3, <2>1 DEF WaitingShape
<1>6. ASSUME NEW k \in 1 .. Len(Waiting')
      PROVE  Waiting'[k] = Tail(Waiting)[k]
  <2>1. k \in Nat /\ 0 < k /\ k < Occupied /\ k < RECV_MSG_MAX
    BY <1>2, <1>4
  <2>2. At(k - 1)' = At(k) /\ At(k) # rpos
    BY <1>1, <2>1 DEF At, NextPos, TypeOK, Slots
  <2>3. recv_msgs'[At(k)] = recv_msgs[At(k)]
    BY <1>1, <2>1, <2>2, AtRange
  <2>4. Waiting'[k] = recv_msgs[At(k)]
    BY <1>2, <1>3, <1>4, <2>2, <2>3 DEF WaitingShape
  <2>5. Waiting[k + 1] = recv_msgs[At(k)]
    BY <1>2, <1>3, <2>1 DEF WaitingShape
  <2> QED
    BY <1>2, <1>3, <1>4, <2>1, <2>4, <2>5 DEF WaitingShape
<1>7. /\ Tail(Waiting) \in Seq(Msgs) /\ Len(Tail(Waiting)) = Len(Waiting')
      /\ Waiting # <<>> /\ Head(Waiting) = Waiting[1]
  BY <1>2, <1>3, <1>4 DEF WaitingShape
<1> QED
  BY <1>1, <1>3, <1>5, <1>6, <1>7, SeqEqual DEF WaitingShape

LEMMA InitSimulates == Init => Queue!Init
<1> SUFFICES ASSUME Init PROVE Queue!Init
  OBVIOUS
<1>1. Inv /\ Open /\ InHand = NULL /\ Occupied = 0
  BY InitInv DEF Init, Open, InHand, Occupied
<1>2. Waiting = <<>>
  BY <1>1, WaitingHasShape DEF WaitingShape
<1> QED
  BY <1>1, <1>2 DEF Queue!Init

LEMMA StepSimulates == Inv /\ Inv' /\ [Next]_vars => [Queue!Next]_(Queue!vars)
<1> SUFFICES ASSUME Inv, Inv', [Next]_vars
             PROVE  Queue!Next \/ UNCHANGED <<Waiting, InHand, Open>>
  BY DEF Queue!vars
<1>1. CASE ~Open
  <2>1. rpc \in {"close", "done"}
    BY <1>1 DEF Open
  <2>2. ASSUME Reader \/ \E m \in Msgs : ReadMsg(m) PROVE ~Open'
    BY <2>1, <2>2 DEF Open, Reader, ReadLoop, ReadEnd, PostWait, PostWrite,
       PostSignal, CloseSlot, ReaderDone, ReadMsg
  <2>3. ASSUME Dispatch \/ Die \/ UNCHANGED vars PROVE ~Open'
    <3>1. rpc' = rpc
      BY <2>3 DEF Dispatch, Die, vars, reader, DispatchLoop, GetWait, GetTake,
         GetSignal, Check, Handle, DispatchDone
    <3> QED
      BY <2>1, <3>1 DEF Open
  <2>4. ~Open'
    BY <2>2, <2>3 DEF Next
  <2>5. UNCHANGED Open
    BY <1>1, <2>4 DEF Open
  <2> QED
    BY <1>1, <2>4, <2>5 DEF Waiting, InHand
<1>2. CASE Open /\ PostWrite
  BY <1>2, PostWritePuts DEF Queue!Next, Queue!Put
<1>3. CASE Open /\ GetTake
  BY <1>3, GetTakeTakes DEF Queue!Next, Queue!Take
<1>4. CASE Open /\ Handle
  <2>1. Occupied' = Occupied /\ UNCHANGED <<recv_msgs, rpos, Open>> /\ Open'
    BY <1>4 DEF Handle, reader, Occupied, Open
  <2>2. Waiting' = Waiting
    BY <1>4, <2>1 DEF Waiting, At
  <2>3. InHand # NULL /\ InHand' = NULL
    BY <1>4 DEF Inv, DispatchInv, InHand, Handle
  <2> QED
    BY <2>1, <2>2, <2>3 DEF Queue!Next, Queue!Sent
<1>5. CASE Open /\ ((ReadLoop /\ dead) \/ ReadEnd)
  <2>1. Open' = FALSE
    BY <1>5 DEF ReadLoop, ReadEnd, Open
  <2>2. Waiting' = <<>> /\ InHand' = NULL
    BY <2>1 DEF Waiting, InHand
  <2> QED
    BY <1>5, <2>1, <2>2 DEF Queue!Next, Queue!Close
<1>6. CASE /\ Open
           /\ \/ ReadLoop /\ ~dead
              \/ PostWait \/ PostSignal \/ Die
              \/ \E m \in Msgs : ReadMsg(m)
  <2>1. UNCHANGED <<recv_msgs, rpos, dpc, dmsg>>
    BY <1>6 DEF ReadLoop, PostWait, PostSignal, Die, ReadMsg, reader, dispatch
  <2>2. full' + (IF rpc' = "signal" THEN 1 ELSE 0) =
        full + (IF rpc = "signal" THEN 1 ELSE 0) /\ Open'
    <3>1. CASE PostSignal
      BY <3>1 DEF PostSignal, Open, Inv, TypeOK
    <3>2. CASE ~PostSignal
      BY <1>6, <3>2 DEF ReadLoop, PostWait, Die, ReadMsg, reader, Open
    <3> QED
      BY <3>1, <3>2
  <2>3. Occupied' = Occupied
    BY <2>1, <2>2 DEF Occupied
  <2> QED
    BY <1>6, <2>1, <2>2, <2>3, WaitingFrame
<1>7. CASE Open /\ (DispatchLoop \/ GetWait \/ GetSignal \/ Check \/ DispatchDone)
  <2>1. UNCHANGED <<recv_msgs, rpos, dmsg>> /\ Occupied' = Occupied /\ Open'
    BY <1>7 DEF DispatchLoop, GetWait, GetSignal, Check, DispatchDone, reader,
       Occupied, Open, Inv, TypeOK
  <2> QED
    BY <1>7, <2>1, WaitingFrame
<1>8. CASE Open /\ UNCHANGED vars
  <2>1. UNCHANGED <<recv_msgs, rpos, dmsg>> /\ Occupied' = Occupied /\ Open'
    BY <1>8 DEF vars, Occupied, Open
  <2> QED
    BY <1>8, <2>1, WaitingFrame
<1>9. CASE Open /\ (CloseSlot \/ ReaderDone)
  BY <1>9 DEF CloseSlot, ReaderDone, Open
<1> QED
  BY <1>1, <1>2, <1>3, <1>4, <1>5, <1>6, <1>7, <1>8, <1>9 DEF Next, Reader, Dispatch

(* Until the reader ends, the two threads implement a first-in first-out    *)
(* queue of RECV_MSG_MAX messages: every message of the stream is handed to *)
(* a handler once and in the order it was read.                             *)
THEOREM RecvRingImplementsQueue == Spec => QueueSpec
<1>1. Inv /\ Inv' /\ [Next]_vars => [Queue!Next]_(Queue!vars)
  BY StepSimulates
<1> QED
  BY <1>1, InitSimulates, RecvRingInvariant, PTL DEF QueueSpec, Queue!Spec, Spec
=============================================================================
