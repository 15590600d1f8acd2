--------------------------- MODULE SendRingProofs ---------------------------
(***************************************************************************)
(* Proofs about SendRing for any set of producers, any messages and any    *)
(* size of the ring.                                                       *)
(***************************************************************************)
EXTENDS SendRing, Sequences, FiniteSetTheorems, TLAPS

(* Both sets of producers are finite, so their sizes are numbers. *)
LEMMA CountsAreNumbers ==
  /\ IsFiniteSet(Granted) /\ Cardinality(Granted) \in Nat
  /\ IsFiniteSet(Owing) /\ Cardinality(Owing) \in Nat
<1>1. Granted \in SUBSET Producers /\ Owing \in SUBSET Producers
  BY DEF Granted, Owing
<1>2. IsFiniteSet(Granted) /\ IsFiniteSet(Owing)
  BY <1>1, FS_Subset, RingAssumption
<1> QED
  BY <1>2, FS_CardinalityType

(* The counts depend on pc only. *)
LEMMA CountsUnchanged ==
  ASSUME pc' = pc
  PROVE  Granted' = Granted /\ Owing' = Owing
BY DEF Granted, Owing

(* A producer that is granted a slot, or that owes a signal, counts. *)
LEMMA CountsPositive ==
  /\ \A p \in Granted : Cardinality(Granted) > 0
  /\ \A p \in Owing : Cardinality(Owing) > 0
<1>1. ASSUME NEW S, IsFiniteSet(S), Cardinality(S) \in Nat, NEW p \in S
      PROVE  Cardinality(S) > 0
  <2>1. Cardinality(S) # 0
    BY <1>1, FS_EmptySet
  <2> QED
    BY <1>1, <2>1
<1> QED
  BY <1>1, CountsAreNumbers

(* How one producer's step from one label to the next moves the counts. *)
LEMMA CountsStep ==
  ASSUME TypeOK, NEW p \in Producers, NEW l,
         pc' = [pc EXCEPT ![p] = l]
  PROVE  /\ Cardinality(Granted)' =
              IF l \in {"lock", "write", "advance"}
              THEN IF p \in Granted THEN Cardinality(Granted)
                                    ELSE Cardinality(Granted) + 1
              ELSE IF p \in Granted THEN Cardinality(Granted) - 1
                                    ELSE Cardinality(Granted)
         /\ Cardinality(Owing)' =
              IF l = "signal"
              THEN IF p \in Owing THEN Cardinality(Owing)
                                  ELSE Cardinality(Owing) + 1
              ELSE IF p \in Owing THEN Cardinality(Owing) - 1
                                  ELSE Cardinality(Owing)
<1>1. Granted' = IF l \in {"lock", "write", "advance"}
                 THEN Granted \cup {p} ELSE Granted \ {p}
  BY DEF TypeOK, Granted
<1>2. Owing' = IF l = "signal" THEN Owing \cup {p} ELSE Owing \ {p}
  BY DEF TypeOK, Owing
<1>3. /\ Cardinality(Granted \cup {p}) =
           IF p \in Granted THEN Cardinality(Granted) ELSE Cardinality(Granted) + 1
      /\ Cardinality(Granted \ {p}) =
           IF p \in Granted THEN Cardinality(Granted) - 1 ELSE Cardinality(Granted)
  BY CountsAreNumbers, FS_AddElement, FS_RemoveElement
<1>4. /\ Cardinality(Owing \cup {p}) =
           IF p \in Owing THEN Cardinality(Owing) ELSE Cardinality(Owing) + 1
      /\ Cardinality(Owing \ {p}) =
           IF p \in Owing THEN Cardinality(Owing) - 1 ELSE Cardinality(Owing)
  BY CountsAreNumbers, FS_AddElement, FS_RemoveElement
<1> QED
  BY <1>1, <1>2, <1>3, <1>4

(* A producer that goes idle leaves both. *)
LEMMA CountsIdle ==
  ASSUME TypeOK, NEW p \in Producers, pc' = [pc EXCEPT ![p] = "idle"]
  PROVE  /\ Cardinality(Granted)' =
              IF p \in Granted THEN Cardinality(Granted) - 1 ELSE Cardinality(Granted)
         /\ Cardinality(Owing)' =
              IF p \in Owing THEN Cardinality(Owing) - 1 ELSE Cardinality(Owing)
<1> DEFINE l == "idle"
<1>1. pc' = [pc EXCEPT ![p] = l]
  OBVIOUS
<1>2. l \notin {"lock", "write", "advance"} /\ l # "signal"
  OBVIOUS
<1> HIDE DEF l
<1> QED
  BY <1>1, <1>2, CountsStep
-----------------------------------------------------------------------------
(* The initial state satisfies the invariant. *)
LEMMA InitInv == Init => Inv
<1> SUFFICES ASSUME Init PROVE Inv
  OBVIOUS
<1> USE RingAssumption DEF Init
<1>1. TypeOK
  <2>1. dead \in BOOLEAN
    OBVIOUS
  <2>2. send_msgs \in [Slots -> Msgs \cup {NULL}]
    OBVIOUS
  <2>3. /\ wpos \in Slots /\ rpos \in Slots
        /\ empty \in 0 .. SEND_MSG_MAX /\ full \in 0 .. SEND_MSG_MAX
    BY DEF Slots
  <2>4. /\ lock \in Producers \cup {NULL}
        /\ pc \in [Producers -> {"idle", "wait", "lock", "write", "advance", "signal"}]
        /\ msg \in [Producers -> Msgs \cup {NULL}]
        /\ spc \in {"loop", "wait", "read", "clear", "signal", "send", "closed"}
        /\ smsg \in Msgs \cup {NULL}
    OBVIOUS
  <2> QED
    BY <2>1, <2>2, <2>3, <2>4 DEF TypeOK
<1>2. Granted = {} /\ Owing = {}
  BY DEF Granted, Owing
<1>3. Cardinality(Granted) = 0 /\ Cardinality(Owing) = 0
  BY <1>2, FS_EmptySet
<1>4. Occupied = 0
  BY <1>3 DEF Occupied, Taking
<1>5. Conservation
  BY <1>3, <1>4 DEF Conservation, Returning
<1>6. LockInv /\ MsgInv /\ SenderInv
  BY DEF LockInv, Orphaned, MsgInv, SenderInv
<1>7. SlotsInv
  BY <1>4 DEF SlotsInv, At, Distance, Slots
<1> QED
  BY <1>1, <1>5, <1>6, <1>7 DEF Inv
-----------------------------------------------------------------------------
(* A step that moves no slot, no position and no count keeps SlotsInv. *)
LEMMA SlotsFrame ==
  ASSUME SlotsInv, UNCHANGED <<send_msgs, wpos, rpos, torn>>, Occupied' = Occupied,
         spc = "closed" <=> spc' = "closed",
         \A p \in Producers : pc'[p] = "advance" <=> pc[p] = "advance",
         \A p \in Producers : pc[p] = "advance" => msg'[p] = msg[p]
  PROVE  SlotsInv'
BY DEF SlotsInv, At, Distance, Slots

(* The actions of a producer preserve the invariant, one lemma each. *)
LEMMA PostCallInv ==
  ASSUME Inv, NEW p \in Producers, NEW m \in Msgs, PostCall(p, m)
  PROVE  Inv'
<1> USE RingAssumption DEF Inv, PostCall, ring, cut
<1>1. TypeOK'
  BY DEF TypeOK, Slots
<1>2. Cardinality(Granted)' = Cardinality(Granted) /\ Cardinality(Owing)' = Cardinality(Owing)
  <2>1. p \notin Granted /\ p \notin Owing
    BY DEF Granted, Owing
  <2> DEFINE l == "wait"
  <2>2. pc' = [pc EXCEPT ![p] = l] /\ TypeOK
    OBVIOUS
  <2>3. l \notin {"lock", "write", "advance"} /\ l # "signal"
    OBVIOUS
  <2> HIDE DEF l, Inv, PostCall, ring, cut
  <2> QED
    BY <2>1, <2>2, <2>3, CountsStep
<1>3. Occupied' = Occupied
  BY <1>2 DEF Occupied, Taking
<1>4. Conservation'
  BY <1>2, <1>3 DEF Conservation, Returning
<1>5. LockInv' /\ MsgInv' /\ SenderInv'
  BY DEF TypeOK, LockInv, Orphaned, MsgInv, SenderInv
<1>6. SlotsInv'
  BY <1>3, SlotsFrame DEF TypeOK
<1> QED
  BY <1>1, <1>4, <1>5, <1>6

LEMMA PostWaitInv ==
  ASSUME Inv, NEW p \in Producers, PostWait(p)
  PROVE  Inv'
<1> USE RingAssumption DEF Inv, PostWait, cut
<1>1. TypeOK'
  BY DEF TypeOK, Slots
<1>2. /\ Cardinality(Granted)' = Cardinality(Granted) + 1
      /\ Cardinality(Owing)' = Cardinality(Owing)
  BY CountsStep DEF Granted, Owing
<1>3. Occupied' = Occupied
  BY <1>2 DEF Occupied, Taking
<1>4. Conservation'
  BY <1>2, <1>3, CountsAreNumbers DEF Conservation, Returning, Occupied, Taking, TypeOK
<1>5. LockInv' /\ MsgInv' /\ SenderInv'
  BY DEF TypeOK, LockInv, Orphaned, MsgInv, SenderInv
<1>6. SlotsInv'
  BY <1>3, SlotsFrame DEF TypeOK
<1> QED
  BY <1>1, <1>4, <1>5, <1>6

LEMMA PostLockInv ==
  ASSUME Inv, NEW p \in Producers, PostLock(p)
  PROVE  Inv'
<1> USE RingAssumption DEF Inv, PostLock, cut
<1>1. TypeOK'
  BY DEF TypeOK, Slots
<1>2. Cardinality(Granted)' = Cardinality(Granted) /\ Cardinality(Owing)' = Cardinality(Owing)
  BY CountsStep DEF Granted, Owing
<1>3. Occupied' = Occupied
  BY <1>2 DEF Occupied, Taking
<1>4. Conservation'
  BY <1>2, <1>3 DEF Conservation, Returning
<1>5. LockInv' /\ MsgInv' /\ SenderInv'
  BY DEF TypeOK, LockInv, Orphaned, MsgInv, SenderInv
<1>6. SlotsInv'
  BY <1>3, SlotsFrame DEF TypeOK
<1> QED
  BY <1>1, <1>4, <1>5, <1>6

LEMMA PostWriteInv ==
  ASSUME Inv, NEW p \in Producers, PostWrite(p)
  PROVE  Inv'
<1> USE RingAssumption DEF Inv, PostWrite, cut
<1>1. TypeOK'
  BY DEF TypeOK, Slots
<1>2. Cardinality(Granted)' = Cardinality(Granted) /\ Cardinality(Owing)' = Cardinality(Owing)
  BY CountsStep DEF Granted, Owing
<1>3. Occupied' = Occupied /\ rpos' = rpos /\ spc' = spc /\ wpos' = wpos
  BY <1>2 DEF Occupied, Taking
<1>4. Conservation'
  BY <1>2, <1>3 DEF Conservation, Returning
<1>5. LockInv' /\ MsgInv'
  BY DEF TypeOK, LockInv, Orphaned, MsgInv
<1>6. Occupied \in Nat /\ Occupied < SEND_MSG_MAX
  <2>1. Cardinality(Granted) > 0
    BY CountsPositive DEF Granted
  <2> QED
    BY <2>1, CountsAreNumbers
    DEF Conservation, Occupied, Taking, Returning, TypeOK
<1>7. SenderInv'
  <2>1. ASSUME spc = "clear" PROVE rpos # wpos
    <3> TypeOK /\ SlotsInv
      OBVIOUS
    <3> HIDE DEF Inv, PostWrite
    <3>1. full \in Nat /\ rpos \in 0 .. SEND_MSG_MAX - 1 /\ wpos = At(Occupied)
      BY DEF TypeOK, Slots, SlotsInv
    <3>2. Occupied = full + 1 + Cardinality(Owing) + unsignalled
      BY <2>1, <3>1, CountsAreNumbers DEF Occupied, Taking, TypeOK
    <3>3. Occupied > 0
      BY <3>1, <3>2, CountsAreNumbers DEF TypeOK
    <3> HIDE DEF Occupied
    <3> QED
      BY <1>6, <3>1, <3>3 DEF At
  <2> QED
    BY <2>1 DEF SenderInv, TypeOK
<1>8. SlotsInv'
  <2>1. msg[p] # NULL /\ lock = p
    BY DEF MsgInv, LockInv, Orphaned
  <2>2. \A q \in Producers : pc'[q] = "advance" => q = p
    BY <2>1 DEF LockInv, Orphaned, TypeOK
  <2>3. ASSUME NEW i \in Slots
        PROVE  /\ send_msgs'[i] # NULL => (Distance(i) < Occupied \/ i = wpos)
               /\ (spc # "closed" /\ Distance(i) < Occupied) => send_msgs'[i] # NULL
    BY <2>1 DEF SlotsInv, TypeOK
  <2>4. pc'[p] = "advance" /\ send_msgs'[wpos] = msg[p] /\ msg' = msg
    BY DEF TypeOK
  <2>5. \A i \in Slots : Distance(i)' = Distance(i)
    BY <1>3 DEF Distance
  <2>6. (wpos = At(Occupied))'
    BY <1>3 DEF SlotsInv, At
  <2> QED
    BY <1>3, <2>2, <2>3, <2>4, <2>5, <2>6 DEF SlotsInv
<1> QED
  BY <1>1, <1>4, <1>5, <1>7, <1>8

(* Advancing `pos' past a written slot makes it one of the occupied ones.   *)
LEMMA AdvanceSlots ==
  ASSUME Inv, NEW p \in Producers, pc[p] = "advance", msg[p] # NULL,
         wpos' = NextPos(wpos), UNCHANGED <<send_msgs, rpos, spc, torn>>,
         Occupied' = Occupied + 1, Occupied \in Nat, Occupied < SEND_MSG_MAX,
         torn = NULL, \A q \in Producers : pc'[q] # "advance"
  PROVE  SlotsInv'
<1> USE RingAssumption DEF Inv
<1>2. wpos' = At(Occupied)'
  BY DEF SlotsInv, At, NextPos, TypeOK, Slots
<1>3. \A i \in Slots : Distance(i)' = Distance(i) /\ Distance(i) \in Nat
  BY DEF Distance, TypeOK, Slots
<1>4. ASSUME NEW i \in Slots
      PROVE  Distance(i) < Occupied + 1 <=> (Distance(i) < Occupied \/ i = wpos)
  BY DEF SlotsInv, At, Distance, TypeOK, Slots
<1>5. spc # "closed" => send_msgs[wpos] # NULL
  BY DEF SlotsInv
<1>6. ASSUME NEW i \in Slots
      PROVE  /\ send_msgs[i] # NULL => Distance(i) < Occupied + 1
             /\ (spc # "closed" /\ Distance(i) < Occupied + 1) => send_msgs[i] # NULL
  BY <1>4, <1>5 DEF SlotsInv
<1> QED
  BY <1>2, <1>3, <1>6 DEF SlotsInv

LEMMA PostAdvanceInv ==
  ASSUME Inv, NEW p \in Producers, PostAdvance(p)
  PROVE  Inv'
<1> USE RingAssumption DEF Inv, PostAdvance, cut
<1>1. TypeOK'
  BY DEF TypeOK, Slots, NextPos
<1>2. /\ Cardinality(Granted)' = Cardinality(Granted) - 1
      /\ Cardinality(Owing)' = Cardinality(Owing) + 1
  BY CountsStep DEF Granted, Owing
<1>3. /\ Occupied' = Occupied + 1 /\ Occupied \in Nat
      /\ rpos' = rpos /\ spc' = spc /\ send_msgs' = send_msgs
  BY <1>2, CountsAreNumbers DEF Occupied, Taking, TypeOK
<1>4. Conservation'
  BY <1>2, <1>3, CountsAreNumbers DEF Conservation, Returning, TypeOK
<1>5. lock = p /\ msg[p] # NULL /\ Occupied < SEND_MSG_MAX
  <2>1. Cardinality(Granted) > 0
    BY CountsPositive DEF Granted
  <2>2. Occupied < SEND_MSG_MAX
    BY <2>1, <1>3, CountsAreNumbers DEF Conservation, Returning, TypeOK
  <2> QED
    BY <2>2 DEF LockInv, Orphaned, MsgInv
<1>6. LockInv' /\ MsgInv' /\ SenderInv'
  BY <1>5 DEF TypeOK, LockInv, Orphaned, MsgInv, SenderInv
<1>7. SlotsInv'
  BY <1>3, <1>5, AdvanceSlots DEF LockInv, Orphaned, TypeOK
<1> QED
  BY <1>1, <1>4, <1>6, <1>7

LEMMA PostSignalInv ==
  ASSUME Inv, NEW p \in Producers, PostSignal(p)
  PROVE  Inv'
<1> USE RingAssumption DEF Inv, PostSignal, cut
<1>1. /\ Cardinality(Granted)' = Cardinality(Granted)
      /\ Cardinality(Owing)' = Cardinality(Owing) - 1
      /\ Cardinality(Owing) > 0
  <2>1. p \notin Granted /\ p \in Owing
    BY DEF Granted, Owing
  <2>2. Cardinality(Owing) > 0
    BY <2>1, CountsPositive
  <2> QED
    BY <2>1, <2>2, CountsIdle
<1>2. full + 1 \in 0 .. SEND_MSG_MAX
  BY <1>1, CountsAreNumbers
  DEF Conservation, Occupied, Taking, Returning, TypeOK
<1>3. TypeOK'
  BY <1>2 DEF TypeOK, Slots
<1>4. Occupied' = Occupied
  BY <1>1, CountsAreNumbers DEF Occupied, Taking, TypeOK
<1>5. Conservation'
  BY <1>1, <1>4 DEF Conservation, Returning
<1>6. LockInv' /\ MsgInv' /\ SenderInv'
  BY DEF TypeOK, LockInv, Orphaned, MsgInv, SenderInv
<1>7. SlotsInv'
  BY <1>4, SlotsFrame DEF TypeOK
<1> QED
  BY <1>3, <1>5, <1>6, <1>7
-----------------------------------------------------------------------------
(* The actions of the sendstream thread preserve the invariant. *)
LEMMA SendLoopInv == ASSUME Inv, SendLoop PROVE Inv'
<1> USE RingAssumption DEF Inv, SendLoop, ring, cut
<1>1. TypeOK'
  BY DEF TypeOK, Slots
<1>2. Granted' = Granted /\ Owing' = Owing
  BY CountsUnchanged
<1>3. Occupied' = Occupied
  BY <1>2 DEF Occupied, Taking
<1>4. Conservation' /\ LockInv' /\ MsgInv' /\ SenderInv'
  BY <1>2, <1>3 DEF Conservation, Returning, LockInv, Orphaned, MsgInv, SenderInv
<1>5. SlotsInv'
  BY <1>3, SlotsFrame
<1> QED
  BY <1>1, <1>4, <1>5

LEMMA SendWaitInv == ASSUME Inv, SendWait PROVE Inv'
<1> USE RingAssumption DEF Inv, SendWait, cut
<1>1. TypeOK'
  BY DEF TypeOK, Slots
<1>2. Granted' = Granted /\ Owing' = Owing
  BY CountsUnchanged
<1>3. Occupied' = Occupied
  BY <1>2, CountsAreNumbers DEF Occupied, Taking, TypeOK
<1>4. Conservation' /\ LockInv' /\ MsgInv' /\ SenderInv'
  BY <1>2, <1>3 DEF Conservation, Returning, LockInv, Orphaned, MsgInv, SenderInv
<1>5. SlotsInv'
  BY <1>3, SlotsFrame
<1> QED
  BY <1>1, <1>4, <1>5

LEMMA SendReadInv == ASSUME Inv, SendRead PROVE Inv'
<1> USE RingAssumption DEF Inv, SendRead, ring, cut
<1>1. TypeOK'
  BY DEF TypeOK, Slots
<1>2. Granted' = Granted /\ Owing' = Owing
  BY CountsUnchanged
<1>3. Occupied' = Occupied
  BY <1>2 DEF Occupied, Taking
<1>4. Conservation' /\ LockInv' /\ MsgInv'
  BY <1>2, <1>3 DEF Conservation, Returning, LockInv, Orphaned, MsgInv
<1>5. SenderInv'
  <2>1. Occupied > 0
    BY CountsAreNumbers DEF Occupied, Taking, TypeOK
  <2>2. send_msgs[rpos] # NULL
    BY <2>1 DEF SlotsInv, Distance, TypeOK, Slots
  <2> QED
    BY <2>2 DEF SenderInv
<1>6. SlotsInv'
  BY <1>3, SlotsFrame
<1> QED
  BY <1>1, <1>4, <1>5, <1>6

LEMMA SendClearInv == ASSUME Inv, SendClear PROVE Inv'
<1> USE RingAssumption DEF Inv, SendClear, cut
<1>1. TypeOK'
  BY DEF TypeOK, Slots, NextPos
<1>2. Granted' = Granted /\ Owing' = Owing
  BY CountsUnchanged
<1>3. Occupied' = Occupied - 1 /\ Occupied \in Nat /\ Occupied > 0
  BY <1>2, CountsAreNumbers DEF Occupied, Taking, TypeOK
<1>4. Conservation'
  BY <1>2, <1>3, CountsAreNumbers DEF Conservation, Returning, TypeOK
<1>5. LockInv' /\ MsgInv' /\ SenderInv'
  BY DEF LockInv, Orphaned, MsgInv, SenderInv
<1>6. SlotsInv'
  <2>1. Occupied =< SEND_MSG_MAX
    BY <1>3, CountsAreNumbers DEF Conservation, Returning, TypeOK
  <2>2. ASSUME NEW i \in Slots
        PROVE  Distance(i)' < Occupied' <=> (Distance(i) < Occupied /\ i # rpos)
    BY <1>3, <2>1 DEF Distance, NextPos, TypeOK, Slots
  <2>3. (wpos = At(Occupied))'
    BY <1>3, <2>1 DEF SlotsInv, At, NextPos, TypeOK, Slots
  <2>4. ASSUME NEW p \in Producers, pc[p] = "advance"
        PROVE  wpos # rpos
    <3>1. Cardinality(Granted) > 0
      BY <2>4, CountsPositive DEF Granted
    <3>2. Occupied < SEND_MSG_MAX
      BY <3>1, <1>3, CountsAreNumbers DEF Conservation, Returning, TypeOK
    <3> QED
      BY <3>2, <1>3 DEF SlotsInv, At, TypeOK, Slots
  <2>5. ASSUME NEW i \in Slots
        PROVE  /\ send_msgs'[i] # NULL =>
                    \/ Distance(i)' < Occupied'
                    \/ i = wpos /\ \E p \in Producers : pc[p] = "advance"
                    \/ i = wpos /\ send_msgs'[i] = torn
               /\ Distance(i)' < Occupied' => send_msgs'[i] # NULL
    BY <2>2 DEF SlotsInv, TypeOK
  <2>6. \A p \in Producers : pc[p] = "advance" => send_msgs'[wpos] = msg[p]
    BY <2>4 DEF SlotsInv, TypeOK
  <2> QED
    BY <2>3, <2>5, <2>6 DEF SlotsInv
<1> QED
  BY <1>1, <1>4, <1>5, <1>6

LEMMA SendSignalInv == ASSUME Inv, SendSignal PROVE Inv'
<1> USE RingAssumption DEF Inv, SendSignal, cut
<1>1. Granted' = Granted /\ Owing' = Owing
  BY CountsUnchanged
<1>2. empty + 1 \in 0 .. SEND_MSG_MAX
  BY CountsAreNumbers DEF Conservation, Occupied, Taking, Returning, TypeOK
<1>3. TypeOK'
  BY <1>2 DEF TypeOK, Slots
<1>4. Occupied' = Occupied /\ Occupied \in Nat
  BY <1>1, CountsAreNumbers DEF Occupied, Taking, TypeOK
<1>5. Conservation'
  BY <1>1, <1>4, CountsAreNumbers DEF Conservation, Returning, TypeOK
<1>6. LockInv' /\ MsgInv' /\ SenderInv'
  BY DEF LockInv, Orphaned, MsgInv, SenderInv
<1>7. SlotsInv'
  BY <1>4, SlotsFrame
<1> QED
  BY <1>3, <1>5, <1>6, <1>7

LEMMA SendMsgInv == ASSUME Inv, SendMsg PROVE Inv'
<1> USE RingAssumption DEF Inv, SendMsg, ring, cut
<1>1. TypeOK'
  BY DEF TypeOK, Slots
<1>2. Granted' = Granted /\ Owing' = Owing
  BY CountsUnchanged
<1>3. Occupied' = Occupied
  BY <1>2 DEF Occupied, Taking
<1>4. Conservation' /\ LockInv' /\ MsgInv' /\ SenderInv'
  BY <1>2, <1>3 DEF Conservation, Returning, LockInv, Orphaned, MsgInv, SenderInv
<1>5. SlotsInv'
  BY <1>3, SlotsFrame
<1> QED
  BY <1>1, <1>4, <1>5

LEMMA SendCloseInv == ASSUME Inv, SendClose PROVE Inv'
<1> USE RingAssumption DEF Inv, SendClose, cut
<1>1. TypeOK'
  BY DEF TypeOK, Slots
<1>2. Granted' = Granted /\ Owing' = Owing
  BY CountsUnchanged
<1>3. Occupied' = Occupied
  BY <1>2 DEF Occupied, Taking
<1>4. Conservation' /\ LockInv' /\ MsgInv' /\ SenderInv'
  BY <1>2, <1>3 DEF Conservation, Returning, LockInv, Orphaned, MsgInv, SenderInv
<1>5. SlotsInv'
  <2>1. (wpos = At(Occupied))' /\ \A i \in Slots : send_msgs'[i] = NULL
    BY <1>3 DEF SlotsInv, At
  <2>2. wpos' \in Slots
    BY DEF TypeOK
  <2> QED
    BY <2>1, <2>2 DEF SlotsInv
<1> QED
  BY <1>1, <1>4, <1>5

LEMMA DieInv == ASSUME Inv, Die PROVE Inv'
<1> USE RingAssumption DEF Inv, Die, ring, cut
<1>1. TypeOK'
  BY DEF TypeOK, Slots
<1>2. Granted' = Granted /\ Owing' = Owing
  BY CountsUnchanged
<1>3. Occupied' = Occupied
  BY <1>2 DEF Occupied, Taking
<1>4. Conservation' /\ LockInv' /\ MsgInv' /\ SenderInv'
  BY <1>2, <1>3 DEF Conservation, Returning, LockInv, Orphaned, MsgInv, SenderInv
<1>5. SlotsInv'
  BY <1>3, SlotsFrame
<1> QED
  BY <1>1, <1>4, <1>5
-----------------------------------------------------------------------------
(* A Ctrl-C in a post preserves the invariant, one lemma for each place.    *)
LEMMA InterruptWaitInv == ASSUME Inv, InterruptWait PROVE Inv'
<1> USE RingAssumption DEF Inv, InterruptWait, ring, cut
<1>1. TypeOK'
  BY DEF TypeOK, Slots
<1>2. Cardinality(Granted)' = Cardinality(Granted) /\ Cardinality(Owing)' = Cardinality(Owing)
  <2>1. Main \in Producers /\ Main \notin Granted /\ Main \notin Owing
    BY DEF Granted, Owing
  <2> QED
    BY <2>1, CountsIdle
<1>3. Occupied' = Occupied
  BY <1>2 DEF Occupied, Taking
<1>4. Conservation'
  BY <1>2, <1>3 DEF Conservation, Returning
<1>5. LockInv' /\ MsgInv' /\ SenderInv'
  BY DEF TypeOK, LockInv, Orphaned, MsgInv, SenderInv
<1>6. SlotsInv'
  BY <1>3, SlotsFrame DEF TypeOK
<1> QED
  BY <1>1, <1>4, <1>5, <1>6

LEMMA InterruptGrantedInv == ASSUME Inv, InterruptGranted PROVE Inv'
<1> USE RingAssumption DEF Inv, InterruptGranted, ring
<1>1. /\ Cardinality(Granted)' = Cardinality(Granted) - 1
      /\ Cardinality(Owing)' = Cardinality(Owing)
      /\ Cardinality(Granted) > 0
  <2>1. Main \in Producers /\ Main \in Granted /\ Main \notin Owing
    BY DEF Granted, Owing
  <2>2. Cardinality(Granted) > 0
    BY <2>1, CountsPositive
  <2> QED
    BY <2>1, <2>2, CountsIdle
<1>2. Occupied' = Occupied /\ Occupied \in Nat
  BY <1>1, CountsAreNumbers DEF Occupied, Taking, TypeOK
<1>3. lost + 1 \in 0 .. SEND_MSG_MAX
  BY <1>1, <1>2, CountsAreNumbers DEF Conservation, Returning, TypeOK
<1>4. TypeOK'
  BY <1>3 DEF TypeOK, Slots
<1>5. Conservation'
  BY <1>1, <1>2, CountsAreNumbers DEF Conservation, Returning, TypeOK
<1>6. LockInv' /\ MsgInv' /\ SenderInv'
  BY DEF TypeOK, LockInv, Orphaned, MsgInv, SenderInv
<1>7. SlotsInv'
  <2>1. (wpos = At(Occupied))'
    BY <1>2 DEF SlotsInv, At
  <2>2. \A i \in Slots : Distance(i)' = Distance(i)
    BY DEF Distance
  <2>3. ASSUME NEW i \in Slots, send_msgs[i] # NULL, ~(Distance(i) < Occupied)
        PROVE  i = wpos /\ (pc'[Main] # "advance") /\ 
               (send_msgs[i] = torn' \/ \E p \in Producers : pc'[p] = "advance")
    <3>1. CASE i = wpos /\ send_msgs[i] = torn
      BY <3>1, <2>3 DEF LockInv, Orphaned, TypeOK
    <3>2. CASE i = wpos /\ \E p \in Producers : pc[p] = "advance"
      <4>1. PICK p \in Producers : pc[p] = "advance"
        BY <3>2
      <4>2. CASE p = Main
        BY <2>3, <3>2, <4>1, <4>2 DEF SlotsInv, TypeOK
      <4>3. CASE p # Main
        BY <3>2, <4>1, <4>3 DEF TypeOK
      <4> QED
        BY <4>2, <4>3
    <3> QED
      BY <2>3, <3>1, <3>2 DEF SlotsInv
  <2>4. \A p \in Producers : pc'[p] = "advance" => pc[p] = "advance" /\ msg'[p] = msg[p]
    BY DEF TypeOK
  <2> QED
    BY <1>2, <2>1, <2>2, <2>3, <2>4 DEF SlotsInv
<1> QED
  BY <1>4, <1>5, <1>6, <1>7

LEMMA InterruptUnlockInv == ASSUME Inv, InterruptUnlock PROVE Inv'
<1> USE RingAssumption DEF Inv, InterruptUnlock
<1>1. /\ Cardinality(Granted)' = Cardinality(Granted) - 1
      /\ Cardinality(Owing)' = Cardinality(Owing)
      /\ Cardinality(Granted) > 0
  <2>1. Main \in Producers /\ Main \in Granted /\ Main \notin Owing
    BY DEF Granted, Owing
  <2>2. Cardinality(Granted) > 0
    BY <2>1, CountsPositive
  <2> QED
    BY <2>1, <2>2, CountsIdle
<1>2. /\ Occupied' = Occupied + 1 /\ Occupied \in Nat
      /\ rpos' = rpos /\ spc' = spc /\ send_msgs' = send_msgs /\ torn' = torn
  BY <1>1, CountsAreNumbers DEF Occupied, Taking, TypeOK
<1>3. Occupied < SEND_MSG_MAX /\ unsignalled + 1 \in 0 .. SEND_MSG_MAX
  BY <1>1, <1>2, CountsAreNumbers
  DEF Conservation, Occupied, Returning, Taking, TypeOK
<1>4. TypeOK'
  BY <1>3 DEF TypeOK, Slots, NextPos
<1>5. Conservation'
  BY <1>1, <1>2, CountsAreNumbers DEF Conservation, Returning, TypeOK
<1>6. lock = Main /\ torn = NULL /\ msg[Main] # NULL
  BY DEF LockInv, Orphaned, MsgInv
<1>7. LockInv' /\ MsgInv' /\ SenderInv'
  BY <1>6 DEF TypeOK, LockInv, Orphaned, MsgInv, SenderInv
<1>8. SlotsInv'
  BY <1>2, <1>3, <1>6, AdvanceSlots DEF LockInv, TypeOK
<1> QED
  BY <1>4, <1>5, <1>7, <1>8

LEMMA InterruptSignalInv == ASSUME Inv, InterruptSignal PROVE Inv'
<1> USE RingAssumption DEF Inv, InterruptSignal, ring
<1>1. /\ Cardinality(Granted)' = Cardinality(Granted)
      /\ Cardinality(Owing)' = Cardinality(Owing) - 1
      /\ Cardinality(Owing) > 0
  <2>1. Main \in Producers /\ Main \notin Granted /\ Main \in Owing
    BY DEF Granted, Owing
  <2>2. Cardinality(Owing) > 0
    BY <2>1, CountsPositive
  <2> QED
    BY <2>1, <2>2, CountsIdle
<1>2. Occupied' = Occupied /\ unsignalled + 1 \in 0 .. SEND_MSG_MAX
  BY <1>1, CountsAreNumbers
  DEF Conservation, Occupied, Taking, Returning, TypeOK
<1>3. TypeOK'
  BY <1>2 DEF TypeOK, Slots
<1>4. Conservation'
  BY <1>1, <1>2 DEF Conservation, Returning
<1>5. LockInv' /\ MsgInv' /\ SenderInv'
  BY DEF TypeOK, LockInv, Orphaned, MsgInv, SenderInv
<1>6. SlotsInv'
  BY <1>2, SlotsFrame DEF TypeOK
<1> QED
  BY <1>3, <1>4, <1>5, <1>6
-----------------------------------------------------------------------------
(* A step that changes nothing preserves the invariant. *)
LEMMA StutterInv == ASSUME Inv, UNCHANGED vars PROVE Inv'
<1> USE RingAssumption DEF Inv, vars
<1>1. Granted' = Granted /\ Owing' = Owing
  BY CountsUnchanged
<1>2. Occupied' = Occupied
  BY <1>1 DEF Occupied, Taking
<1>3. TypeOK' /\ Conservation' /\ LockInv' /\ MsgInv' /\ SenderInv'
  BY <1>1, <1>2
  DEF TypeOK, Slots, Conservation, Returning, LockInv, Orphaned, MsgInv, SenderInv
<1>4. SlotsInv'
  BY <1>2, SlotsFrame
<1> QED
  BY <1>3, <1>4

LEMMA NextInv == Inv /\ [Next]_vars => Inv'
<1> SUFFICES ASSUME Inv, [Next]_vars PROVE Inv'
  OBVIOUS
<1>1. ASSUME NEW p \in Producers, Post(p) PROVE Inv'
  BY <1>1, PostWaitInv, PostLockInv, PostWriteInv, PostAdvanceInv, PostSignalInv
  DEF Post
<1>2. ASSUME NEW p \in Producers, NEW m \in Msgs, PostCall(p, m) PROVE Inv'
  BY <1>2, PostCallInv
<1>3. CASE Sender
  BY <1>3, SendLoopInv, SendWaitInv, SendReadInv, SendClearInv, SendSignalInv,
     SendMsgInv, SendCloseInv DEF Sender
<1>4. CASE Die
  BY <1>4, DieInv
<1>5. CASE Interrupt
  BY <1>5, InterruptWaitInv, InterruptGrantedInv, InterruptUnlockInv,
     InterruptSignalInv DEF Interrupt
<1>6. CASE UNCHANGED vars
  BY <1>6, StutterInv
<1> QED
  BY <1>1, <1>2, <1>3, <1>4, <1>5, <1>6 DEF Next

(* The invariant of the ring: the semaphores, the slots granted, written    *)
(* and signalled, and the two positions always add up.                      *)
THEOREM RingInvariant == Spec => []Inv
<1>1. Inv /\ [Next]_vars => Inv'
  BY NextInv
<1> QED
  BY <1>1, InitInv, PTL DEF Spec

(* Every variable keeps its type: the static positions of post_new_msg and  *)
(* get_next_msg stay inside the ring, the semaphores within SEND_MSG_MAX.   *)
THEOREM TypeCorrect == Spec => []TypeOK
<1>1. Inv => TypeOK
  BY DEF Inv
<1> QED
  BY <1>1, RingInvariant, PTL

(* The assertion of get_next_msg never fails: the sendstream thread takes   *)
(* no null pointer out of the ring, whatever the producers do.              *)
THEOREM NeverTakesNull == Spec => []NoNullTaken
<1>1. Inv => NoNullTaken
  BY DEF Inv, SenderInv, NoNullTaken
<1> QED
  BY <1>1, RingInvariant, PTL

(* No producer overwrites a message that is still in the ring.              *)
THEOREM NeverOverwrites == Spec => []NoOverwrite
<1>1. Inv => NoOverwrite
  <2> SUFFICES ASSUME Inv, NEW p \in Producers, pc[p] = "write"
               PROVE  send_msgs[wpos] = NULL
    BY DEF NoOverwrite
  <2> USE RingAssumption DEF Inv
  <2>1. Cardinality(Granted) > 0
    BY CountsPositive DEF Granted
  <2>2. Occupied \in Nat /\ Occupied < SEND_MSG_MAX
    BY <2>1, CountsAreNumbers
    DEF Conservation, Occupied, Taking, Returning, TypeOK
  <2>3. Distance(wpos) = Occupied
    BY <2>2 DEF SlotsInv, At, Distance, TypeOK, Slots
  <2>4. torn = NULL /\ \A q \in Producers : pc[q] # "advance"
    BY DEF LockInv, Orphaned
  <2> QED
    BY <2>2, <2>3, <2>4 DEF SlotsInv, TypeOK
<1> QED
  BY <1>1, RingInvariant, PTL
-----------------------------------------------------------------------------
(* The queue the ring stands for, as a sequence. *)
LEMMA OccupiedRange ==
  ASSUME Inv
  PROVE  Occupied \in Nat /\ Occupied =< SEND_MSG_MAX /\ Occupied - Skipped \in Nat
BY RingAssumption, CountsAreNumbers
DEF Inv, Conservation, Occupied, Taking, Returning, Skipped, TypeOK

LEMMA AtRange ==
  ASSUME Inv, NEW k \in Nat, k < SEND_MSG_MAX
  PROVE  At(k) \in Slots /\ Distance(At(k)) = k
BY RingAssumption DEF Inv, TypeOK, Slots, At, Distance

LEMMA WaitingIsSeq ==
  ASSUME Inv, spc # "closed"
  PROVE  /\ Waiting \in Seq(Msgs)
         /\ Len(Waiting) = Occupied - Skipped
         /\ \A k \in 1 .. Occupied - Skipped :
              Waiting[k] = send_msgs[At(k - 1 + Skipped)]
<1> DEFINE n == Occupied - Skipped
<1>1. n \in Nat
  BY OccupiedRange
<1>2. ASSUME NEW k \in 1 .. n
      PROVE  send_msgs[At(k - 1 + Skipped)] \in Msgs
  <2>1. k - 1 + Skipped \in Nat /\ k - 1 + Skipped < Occupied
        /\ k - 1 + Skipped < SEND_MSG_MAX
    BY <1>1, OccupiedRange, RingAssumption DEF Skipped
  <2>2. At(k - 1 + Skipped) \in Slots
        /\ Distance(At(k - 1 + Skipped)) < Occupied
    BY <2>1, AtRange
  <2> QED
    BY <2>2 DEF Inv, SlotsInv, TypeOK
<1>3. Waiting = [k \in 1 .. n |-> send_msgs[At(k - 1 + Skipped)]]
  BY DEF Waiting
<1> HIDE DEF n
<1>4. Waiting \in [1 .. n -> Msgs]
  BY <1>2, <1>3
<1> QED
  BY <1>1, <1>3, <1>4 DEF n

(* Two sequences of the same length with the same elements are the same. *)
LEMMA SeqEqual ==
  ASSUME NEW S, NEW s \in Seq(S), NEW t \in Seq(S), Len(s) = Len(t),
         \A k \in 1 .. Len(s) : s[k] = t[k]
  PROVE  s = t
OBVIOUS

(* What WaitingIsSeq says, as one formula that can be primed. *)
WaitingShape ==
  /\ Waiting \in Seq(Msgs)
  /\ Len(Waiting) = Occupied - Skipped
  /\ \A k \in 1 .. Occupied - Skipped :
       Waiting[k] = send_msgs[At(k - 1 + Skipped)]

LEMMA WaitingHasShape == (Inv /\ spc # "closed") => WaitingShape
BY WaitingIsSeq DEF WaitingShape

LEMMA WaitingHasShapeNext == (Inv /\ spc # "closed")' => WaitingShape'
BY WaitingHasShape, PTL

(* A step that keeps the waiting messages in their slots is a stutter. *)
LEMMA WaitingFrame ==
  ASSUME Inv, Inv', spc # "closed", spc' # "closed",
         Occupied' - Skipped' = Occupied - Skipped,
         \A k \in 1 .. Occupied - Skipped :
           send_msgs'[At(k - 1 + Skipped)'] = send_msgs[At(k - 1 + Skipped)]
  PROVE  Waiting' = Waiting
<1>1. WaitingShape /\ WaitingShape'
  BY WaitingHasShape, WaitingHasShapeNext
<1> QED
  BY <1>1, SeqEqual DEF WaitingShape
-----------------------------------------------------------------------------
(* The ring implements the queue: the simulation, action by action. *)

(* Between two reads of a slot only PostAdvance changes what waits. *)
LEMMA PostStutters ==
  ASSUME Inv, Inv', NEW p \in Producers,
         \/ \E m \in Msgs : PostCall(p, m)
         \/ PostWait(p) \/ PostLock(p) \/ PostWrite(p) \/ PostSignal(p)
  PROVE  UNCHANGED <<Waiting, smsg, spc>>
<1> USE RingAssumption DEF Inv
<1>1. UNCHANGED <<rpos, spc, smsg>>
  BY DEF PostCall, PostWait, PostLock, PostWrite, PostSignal, ring, cut
<1>2. Occupied' = Occupied
  <2>1. full' + Cardinality(Owing)' = full + Cardinality(Owing)
    <3>1. CASE PostSignal(p)
      <4>1. p \in Owing /\ pc' = [pc EXCEPT ![p] = "idle"] /\ full' = full + 1
        BY <3>1 DEF PostSignal, Owing
      <4>2. Cardinality(Owing)' = Cardinality(Owing) - 1
        BY <4>1, CountsStep
      <4> QED
        BY <4>1, <4>2, CountsAreNumbers DEF TypeOK
    <3>2. CASE ~PostSignal(p)
      <4>1. /\ full' = full /\ p \notin Owing
            /\ \E l \in {"wait", "lock", "write", "advance"} :
                 pc' = [pc EXCEPT ![p] = l]
        BY <3>2 DEF PostCall, PostWait, PostLock, PostWrite, ring, cut, Owing
      <4>2. Cardinality(Owing)' = Cardinality(Owing)
        BY <4>1, CountsStep
      <4> QED
        BY <4>1, <4>2
    <3> QED
      BY <3>1, <3>2
  <2>2. unsignalled' = unsignalled
    BY DEF PostCall, PostWait, PostLock, PostWrite, PostSignal, cut
  <2> QED
    BY <1>1, <2>1, <2>2 DEF Occupied, Taking
<1>3. CASE spc = "closed"
  BY <1>1, <1>3 DEF Waiting
<1>4. CASE spc # "closed"
  <2>1. Skipped' = Skipped /\ Occupied' - Skipped' = Occupied - Skipped
    BY <1>1, <1>2 DEF Skipped
  <2>2. ASSUME NEW k \in 1 .. Occupied - Skipped
        PROVE  send_msgs'[At(k - 1 + Skipped)'] = send_msgs[At(k - 1 + Skipped)]
    <3>1. At(k - 1 + Skipped)' = At(k - 1 + Skipped)
      BY <1>1, <2>1 DEF At
    <3>2. CASE send_msgs' = send_msgs
      BY <3>1, <3>2
    <3>3. CASE PostWrite(p)
      <4>1. Cardinality(Granted) > 0
        BY <3>3, CountsPositive DEF Granted, PostWrite
      <4>2. Occupied < SEND_MSG_MAX
        BY <4>1, OccupiedRange, CountsAreNumbers
        DEF Conservation, Returning, TypeOK
      <4>3. /\ k - 1 + Skipped \in Nat /\ k - 1 + Skipped < Occupied
            /\ Occupied \in Nat
        BY OccupiedRange DEF Skipped
      <4>4. At(k - 1 + Skipped) # wpos
        <5> DEFINE a == k - 1 + Skipped
                   b == Occupied
        <5>1. a \in Nat /\ b \in Nat /\ a < b /\ b < SEND_MSG_MAX
          BY <4>2, <4>3
        <5>2. wpos = At(b) /\ rpos \in 0 .. SEND_MSG_MAX - 1
          BY DEF SlotsInv, TypeOK, Slots
        <5> HIDE DEF a, b
        <5>3. At(a) # At(b)
          BY <5>1, <5>2, RingAssumption DEF At
        <5> QED
          BY <5>2, <5>3 DEF a
      <4> QED
        BY <3>1, <3>3, <4>4 DEF PostWrite, TypeOK
    <3> QED
      BY <3>2, <3>3 DEF PostCall, PostWait, PostLock, PostSignal, ring, cut
  <2>3. spc' # "closed"
    BY <1>1, <1>4
  <2>4. Waiting' = Waiting
    BY <1>4, <2>1, <2>2, <2>3, WaitingFrame
  <2> QED
    BY <1>1, <2>4
<1> QED
  BY <1>3, <1>4

(* A Ctrl-C before `pos' is advanced, or after it, leaves the queue alone.  *)
LEMMA InterruptStutters ==
  ASSUME Inv, Inv', InterruptWait \/ InterruptGranted \/ InterruptSignal
  PROVE  UNCHANGED <<Waiting, smsg, spc>>
<1> USE RingAssumption DEF Inv
<1>1. UNCHANGED <<rpos, spc, smsg, send_msgs, full>>
  BY DEF InterruptWait, InterruptGranted, InterruptSignal, ring
<1>2. pc' = [pc EXCEPT ![Main] = "idle"] /\ Main \in Producers
  BY DEF InterruptWait, InterruptGranted, InterruptSignal
<1>3. /\ Cardinality(Owing)' + unsignalled' = Cardinality(Owing) + unsignalled
      /\ Cardinality(Owing)' \in Int /\ unsignalled' \in Int
  <2>1. CASE InterruptSignal
    <3>1. Main \in Owing /\ unsignalled' = unsignalled + 1
      BY <2>1 DEF InterruptSignal, Owing
    <3>2. Cardinality(Owing)' = Cardinality(Owing) - 1
      BY <1>2, <3>1, CountsIdle
    <3> QED
      BY <3>1, <3>2, CountsAreNumbers DEF TypeOK
  <2>2. CASE InterruptWait \/ InterruptGranted
    <3>1. Main \notin Owing /\ unsignalled' = unsignalled
      BY <2>2 DEF InterruptWait, InterruptGranted, cut, Owing
    <3>2. Cardinality(Owing)' = Cardinality(Owing)
      BY <1>2, <3>1, CountsIdle
    <3> QED
      BY <3>1, <3>2, CountsAreNumbers DEF TypeOK
  <2> QED
    BY <2>1, <2>2
<1>4. Occupied' = Occupied
  BY <1>1, <1>3, CountsAreNumbers DEF Occupied, Taking, TypeOK
<1> QED
  BY <1>1, <1>4 DEF Waiting, Skipped, At

(* Advancing `pos' appends the producer's message to the queue. *)
LEMMA AdvancePuts ==
  ASSUME Inv, Inv', NEW p \in Producers, pc[p] = "advance", spc # "closed",
         UNCHANGED <<rpos, spc, smsg, send_msgs>>, Occupied' = Occupied + 1
  PROVE  /\ msg[p] \in Msgs
         /\ Len(Waiting) < SEND_MSG_MAX
         /\ Waiting' = Append(Waiting, msg[p])
<1> USE RingAssumption DEF Inv
<1>1. UNCHANGED <<rpos, spc, smsg, send_msgs>> /\ Skipped' = Skipped
  BY DEF Skipped
<1>2. Occupied' = Occupied + 1
  OBVIOUS
<1>3. Occupied \in Nat /\ Occupied < SEND_MSG_MAX
  BY <1>2, OccupiedRange, CountsAreNumbers, CountsPositive
  DEF Conservation, Returning, TypeOK, Granted
<1>4. msg[p] # NULL /\ msg[p] \in Msgs /\ send_msgs[wpos] = msg[p]
  BY DEF MsgInv, SlotsInv, TypeOK
<1>5. WaitingShape /\ WaitingShape'
  BY <1>1, WaitingHasShape, WaitingHasShapeNext
<1>6. /\ Len(Waiting) < SEND_MSG_MAX
      /\ Len(Waiting') = Len(Waiting) + 1
  BY <1>1, <1>2, <1>3, <1>5 DEF WaitingShape, Skipped
<1>7. ASSUME NEW k \in 1 .. Len(Waiting')
      PROVE  Waiting'[k] = Append(Waiting, msg[p])[k]
  <2>1. At(k - 1 + Skipped)' = At(k - 1 + Skipped)
    BY <1>1 DEF At
  <2>2. Waiting'[k] = send_msgs[At(k - 1 + Skipped)]
    BY <1>1, <1>5, <2>1 DEF WaitingShape
  <2>3. CASE k \in 1 .. Len(Waiting)
    BY <1>5, <2>2, <2>3 DEF WaitingShape
  <2>4. CASE k = Len(Waiting) + 1
    <3>1. At(k - 1 + Skipped) = wpos
      BY <1>3, <1>5, <2>4 DEF WaitingShape, SlotsInv, Skipped
    <3> QED
      BY <1>4, <1>5, <2>2, <2>4, <3>1 DEF WaitingShape
  <2> QED
    BY <1>5, <1>6, <2>3, <2>4 DEF WaitingShape
<1>8. /\ Append(Waiting, msg[p]) \in Seq(Msgs)
      /\ Len(Append(Waiting, msg[p])) = Len(Waiting')
  BY <1>4, <1>5, <1>6 DEF WaitingShape
<1>9. Waiting' = Append(Waiting, msg[p])
  BY <1>5, <1>7, <1>8, SeqEqual DEF WaitingShape
<1> QED
  BY <1>4, <1>6, <1>9

LEMMA PostAdvancePuts ==
  ASSUME Inv, Inv', NEW p \in Producers, PostAdvance(p), spc # "closed"
  PROVE  /\ msg[p] \in Msgs
         /\ Len(Waiting) < SEND_MSG_MAX
         /\ Waiting' = Append(Waiting, msg[p])
<1> USE RingAssumption DEF Inv
<1>1. /\ pc[p] = "advance" /\ UNCHANGED <<rpos, spc, smsg, send_msgs>>
      /\ full' = full /\ unsignalled' = unsignalled
      /\ pc' = [pc EXCEPT ![p] = "signal"] /\ p \notin Owing
  BY DEF PostAdvance, cut, Owing
<1>2. Cardinality(Owing)' = Cardinality(Owing) + 1
  BY <1>1, CountsStep
<1>3. Occupied' = Occupied + 1
  BY <1>1, <1>2, CountsAreNumbers DEF Occupied, Taking, TypeOK
<1> QED
  BY <1>1, <1>3, AdvancePuts

(* The message of a post cut after its advance, under the mutex, waits too. *)
LEMMA InterruptUnlockPuts ==
  ASSUME Inv, Inv', InterruptUnlock, spc # "closed"
  PROVE  /\ msg[Main] \in Msgs
         /\ Len(Waiting) < SEND_MSG_MAX
         /\ Waiting' = Append(Waiting, msg[Main])
<1> USE RingAssumption DEF Inv
<1>1. /\ pc[Main] = "advance" /\ UNCHANGED <<rpos, spc, smsg, send_msgs>>
      /\ full' = full /\ unsignalled' = unsignalled + 1
      /\ pc' = [pc EXCEPT ![Main] = "idle"] /\ Main \notin Owing
      /\ Main \in Producers
  BY DEF InterruptUnlock, Owing
<1>2. Cardinality(Owing)' = Cardinality(Owing)
  BY <1>1, CountsIdle
<1>3. Occupied' = Occupied + 1
  BY <1>1, <1>2, CountsAreNumbers DEF Occupied, Taking, TypeOK
<1> QED
  BY <1>1, <1>3, AdvancePuts

(* Reading the slot at `pos' takes the head of the queue. *)
LEMMA SendReadTakes ==
  ASSUME Inv, Inv', SendRead
  PROVE  /\ smsg = NULL /\ Waiting # <<>>
         /\ smsg' = Head(Waiting) /\ Waiting' = Tail(Waiting)
<1> USE RingAssumption DEF Inv
<1>1. /\ UNCHANGED <<rpos, send_msgs>> /\ smsg' = send_msgs[rpos]
      /\ spc = "read" /\ spc' = "clear" /\ smsg = NULL
  BY DEF SendRead, ring, cut, SenderInv
<1>2. Occupied' = Occupied /\ Skipped = 0 /\ Skipped' = 1
  <2>1. Granted' = Granted /\ Owing' = Owing
    BY CountsUnchanged DEF SendRead
  <2> QED
    BY <1>1, <2>1 DEF SendRead, ring, cut, Occupied, Taking, Skipped
<1>3. WaitingShape /\ WaitingShape'
  BY <1>1, WaitingHasShape, WaitingHasShapeNext
<1>4. Occupied \in Nat /\ Occupied > 0
  BY <1>1, OccupiedRange, CountsAreNumbers DEF Occupied, Taking, TypeOK
<1>5. Len(Waiting) = Occupied /\ Len(Waiting') = Occupied - 1
  BY <1>2, <1>3, <1>4 DEF WaitingShape
<1>6. Waiting[1] = send_msgs[rpos]
  <2>1. At(0) = rpos
    BY DEF At, TypeOK, Slots
  <2> QED
    BY <1>2, <1>3, <1>4, <2>1 DEF WaitingShape
<1>7. ASSUME NEW k \in 1 .. Len(Waiting')
      PROVE  Waiting'[k] = Tail(Waiting)[k]
  <2>1. At(k - 1 + Skipped)' = At(k)
    BY <1>1, <1>2, <1>4, <1>5 DEF At
  <2>2. Waiting'[k] = send_msgs[At(k)]
    BY <1>1, <1>2, <1>3, <1>4, <1>5, <2>1 DEF WaitingShape
  <2>3. Waiting[k + 1] = send_msgs[At(k)]
    <3>1. k + 1 \in 1 .. Occupied - Skipped /\ (k + 1) - 1 + Skipped = k
      BY <1>2, <1>3, <1>4, <1>5 DEF WaitingShape
    <3> QED
      BY <1>3, <3>1 DEF WaitingShape
  <2> QED
    BY <1>3, <1>4, <1>5, <2>2, <2>3 DEF WaitingShape
<1>8. /\ Tail(Waiting) \in Seq(Msgs) /\ Len(Tail(Waiting)) = Len(Waiting')
      /\ Waiting # <<>> /\ Head(Waiting) = Waiting[1]
  BY <1>3, <1>4, <1>5 DEF WaitingShape
<1> QED
  BY <1>1, <1>3, <1>6, <1>7, <1>8, SeqEqual DEF WaitingShape

(* The other steps of the sendstream thread leave the queue alone. *)
LEMMA SenderStutters ==
  ASSUME Inv, Inv', SendLoop \/ SendWait \/ SendClear \/ SendSignal \/ SendMsg \/ Die
  PROVE  Waiting' = Waiting /\ (spc = "closed" <=> spc' = "closed")
<1> USE RingAssumption DEF Inv
<1>1. Granted' = Granted /\ Owing' = Owing
  BY CountsUnchanged DEF SendLoop, SendWait, SendClear, SendSignal, SendMsg, Die, ring, cut
<1>2. spc = "closed" <=> spc' = "closed"
  BY DEF SendLoop, SendWait, SendClear, SendSignal, SendMsg, Die, ring, cut
<1>3. CASE spc = "closed"
  BY <1>2, <1>3 DEF Waiting
<1>4. CASE spc # "closed" /\ SendClear
  <2>1. /\ Occupied' = Occupied - 1 /\ Skipped = 1 /\ Skipped' = 0
        /\ Occupied \in Nat /\ Occupied > 0
    BY <1>1, <1>4, CountsAreNumbers
    DEF SendClear, Occupied, Taking, Skipped, TypeOK, cut
  <2>2. ASSUME NEW k \in 1 .. Occupied - Skipped
        PROVE  send_msgs'[At(k - 1 + Skipped)'] = send_msgs[At(k - 1 + Skipped)]
    <3>1. k \in Nat /\ 0 < k /\ k < SEND_MSG_MAX /\ k < Occupied
      BY <2>1, OccupiedRange
    <3>2. At(k - 1 + Skipped)' = At(k) /\ At(k - 1 + Skipped) = At(k)
      BY <1>4, <2>1, <3>1 DEF SendClear, At, NextPos, TypeOK, Slots
    <3>3. At(k) # rpos
      BY <3>1 DEF At, TypeOK, Slots
    <3> QED
      BY <1>4, <3>1, <3>2, <3>3, AtRange DEF SendClear, TypeOK
  <2>3. Occupied' - Skipped' = Occupied - Skipped
    BY <2>1
  <2>4. Waiting' = Waiting
    BY <1>2, <1>4, <2>2, <2>3, WaitingFrame
  <2> QED
    BY <1>2, <2>4
<1>5. CASE spc # "closed" /\ ~SendClear
  <2>1. UNCHANGED <<rpos, send_msgs>> /\ Skipped' = Skipped
    BY <1>5 DEF SendLoop, SendWait, SendSignal, SendMsg, Die, ring, cut, Skipped
  <2>2. Occupied' = Occupied
    BY <1>1, <1>5, CountsAreNumbers
    DEF SendLoop, SendWait, SendSignal, SendMsg, Die, ring, cut, Occupied, Taking, TypeOK
  <2>3. \A k \in 1 .. Occupied - Skipped :
           send_msgs'[At(k - 1 + Skipped)'] = send_msgs[At(k - 1 + Skipped)]
    BY <2>1 DEF At
  <2>4. Waiting' = Waiting
    BY <1>2, <1>5, <2>1, <2>2, <2>3, WaitingFrame
  <2> QED
    BY <1>2, <2>4
<1> QED
  BY <1>3, <1>4, <1>5

LEMMA InitSimulates == Init => Queue!Init
<1> SUFFICES ASSUME Init PROVE Queue!Init
  OBVIOUS
<1>1. Inv /\ spc # "closed" /\ smsg = NULL
  BY InitInv DEF Init
<1>2. Occupied - Skipped = 0
  <2>1. Owing = {}
    BY DEF Init, Owing
  <2>2. Cardinality(Owing) = 0
    BY <2>1, FS_EmptySet
  <2> QED
    BY <2>2 DEF Init, Occupied, Taking, Skipped
<1>3. Waiting \in Seq(Msgs) /\ Len(Waiting) = 0
  BY <1>1, <1>2, WaitingIsSeq
<1>4. Waiting = <<>>
  BY <1>3
<1> QED
  BY <1>1, <1>4 DEF Queue!Init

LEMMA StepSimulates == Inv /\ Inv' /\ [Next]_vars => [Queue!Next]_(Queue!vars)
<1> SUFFICES ASSUME Inv, Inv', [Next]_vars
             PROVE  Queue!Next \/ UNCHANGED <<Waiting, smsg, spc # "closed">>
  BY DEF Queue!vars
<1>1. ASSUME NEW p \in Producers, Post(p) \/ \E m \in Msgs : PostCall(p, m)
      PROVE  Queue!Next \/ UNCHANGED <<Waiting, smsg, spc # "closed">>
  <2>1. CASE PostAdvance(p) /\ spc # "closed"
    <3>1. /\ msg[p] \in Msgs /\ Len(Waiting) < SEND_MSG_MAX
          /\ Waiting' = Append(Waiting, msg[p])
      BY <2>1, PostAdvancePuts
    <3>2. UNCHANGED <<smsg, spc # "closed">>
      BY <2>1 DEF PostAdvance
    <3>3. Queue!Put(msg[p])
      BY <2>1, <3>1, <3>2 DEF Queue!Put
    <3> QED
      BY <3>1, <3>3 DEF Queue!Next
  <2>2. CASE PostAdvance(p) /\ spc = "closed"
    BY <2>2 DEF PostAdvance, Waiting
  <2>3. CASE ~PostAdvance(p)
    <3>1. UNCHANGED <<Waiting, smsg, spc>>
      BY <1>1, <2>3, PostStutters DEF Post
    <3> QED
      BY <3>1
  <2> QED
    BY <2>1, <2>2, <2>3
<1>2. CASE SendRead
  <2>1. /\ smsg = NULL /\ Waiting # <<>>
        /\ smsg' = Head(Waiting) /\ Waiting' = Tail(Waiting)
    BY <1>2, SendReadTakes
  <2>2. spc # "closed" /\ spc' # "closed"
    BY <1>2 DEF SendRead
  <2>3. Queue!Take
    BY <2>1, <2>2 DEF Queue!Take
  <2> QED
    BY <2>3 DEF Queue!Next
<1>3. CASE SendMsg
  <2>1. smsg # NULL /\ smsg' = NULL
    BY <1>3 DEF SendMsg, Inv, SenderInv
  <2>2. Waiting' = Waiting /\ (spc # "closed")' = (spc # "closed")
    BY <1>3, SenderStutters DEF SendMsg
  <2>3. Queue!Sent
    BY <2>1, <2>2 DEF Queue!Sent
  <2> QED
    BY <2>3 DEF Queue!Next
<1>4. CASE SendClose
  <2>1. spc # "closed" /\ spc' = "closed" /\ smsg' = NULL
    BY <1>4 DEF SendClose
  <2>2. Waiting' = <<>>
    BY <2>1 DEF Waiting
  <2>3. Queue!Close
    BY <2>1, <2>2 DEF Queue!Close
  <2> QED
    BY <2>3 DEF Queue!Next
<1>5. CASE SendLoop \/ SendWait \/ SendClear \/ SendSignal \/ Die
  <2>1. Waiting' = Waiting /\ (spc # "closed")' = (spc # "closed")
    BY <1>5, SenderStutters
  <2>2. smsg' = smsg
    BY <1>5 DEF SendLoop, SendWait, SendClear, SendSignal, Die
  <2> QED
    BY <2>1, <2>2
<1>6. CASE Interrupt
  <2>1. CASE InterruptUnlock /\ spc # "closed"
    <3>1. /\ msg[Main] \in Msgs /\ Len(Waiting) < SEND_MSG_MAX
          /\ Waiting' = Append(Waiting, msg[Main])
      BY <2>1, InterruptUnlockPuts
    <3>2. UNCHANGED <<smsg, spc # "closed">>
      BY <2>1 DEF InterruptUnlock
    <3>3. Queue!Put(msg[Main])
      BY <2>1, <3>1, <3>2 DEF Queue!Put
    <3> QED
      BY <3>1, <3>3 DEF Queue!Next
  <2>2. CASE InterruptUnlock /\ spc = "closed"
    BY <2>2 DEF InterruptUnlock, Waiting
  <2>3. CASE ~InterruptUnlock
    <3>1. UNCHANGED <<Waiting, smsg, spc>>
      BY <1>6, <2>3, InterruptStutters DEF Interrupt
    <3> QED
      BY <3>1
  <2> QED
    BY <2>1, <2>2, <2>3
<1>7. CASE UNCHANGED vars
  <2>1. Waiting' = Waiting
    BY <1>7, CountsUnchanged
    DEF vars, Waiting, Occupied, Taking, Skipped, At
  <2> QED
    BY <1>7, <2>1 DEF vars
<1> QED
  BY <1>1, <1>2, <1>3, <1>4, <1>5, <1>6, <1>7 DEF Next, Sender

(* The ring implements a first-in first-out queue of SEND_MSG_MAX messages: *)
(* what any number of threads post leaves in the order `pos' advanced, once. *)
THEOREM RingImplementsQueue == Spec => QueueSpec
<1>1. Inv /\ Inv' /\ [Next]_vars => [Queue!Next]_(Queue!vars)
  BY StepSimulates
<1> QED
  BY <1>1, InitSimulates, RingInvariant, PTL DEF QueueSpec, Queue!Spec, Spec
=============================================================================
