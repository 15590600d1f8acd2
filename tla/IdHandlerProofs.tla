--------------------------- MODULE IdHandlerProofs ---------------------------
(***************************************************************************)
(* Proofs about IdHandler for any senders, requests and initial table.     *)
(***************************************************************************)
EXTENDS IdHandler, FiniteSetTheorems, WellFoundedInduction, TLAPS

(* A nonempty set of numbers has a least one: the scan of a table stops at  *)
(* its first slot of a kind.                                                *)
LessThan == {mn \in Nat \X Nat : mn[1] < mn[2]}

LEMMA LessThanWellFounded == IsWellFoundedOn(LessThan, Nat)
BY NatLessThanWellFounded DEF OpToRel, LessThan

LEMMA LeastMember ==
  ASSUME NEW S \in SUBSET Nat, S # {}
  PROVE  \E x \in S : \A y \in S : x =< y
<1>1. PICK x \in S : \A y \in S : ~ (<<y, x>> \in LessThan)
  BY LessThanWellFounded, WFMin, Zenon
<1>2. \A y \in S : ~ (y < x)
  BY <1>1 DEF LessThan
<1> QED
  BY <1>2

(* What is neither a request nor a slot's or a stanza's own. *)
LEMMA Constants ==
  /\ NULL \notin Requests /\ PEER \notin Requests /\ EXPIRED \notin Requests
  /\ IsFiniteSet(Requests) /\ Cardinality(Requests) \in Nat /\ IDH_SIZE \in Nat /\ IDH_SIZE > 0
  /\ Dispatch \in Threads /\ MaxPeer \in Nat
BY IdHandlerAssumption, FS_CardinalityType DEF Threads
-----------------------------------------------------------------------------
(* The table *)
Table == Seq(Requests \cup {NULL})

LEMMA FunctionIsSequence ==
  ASSUME NEW S, NEW n \in Nat, NEW f \in [1 .. n -> S]
  PROVE  f \in Seq(S) /\ Len(f) = n
OBVIOUS

LEMMA Concatenated ==
  ASSUME NEW S, NEW a \in Seq(S), NEW b \in Seq(S)
  PROVE  /\ a \o b \in Seq(S) /\ Len(a \o b) = Len(a) + Len(b)
         /\ \A i \in 1 .. Len(a \o b) :
              (a \o b)[i] = IF i =< Len(a) THEN a[i] ELSE b[i - Len(a)]
OBVIOUS

(* Where it is full it is doubled; what it holds stays where it is. *)
LEMMA RoomIsTable ==
  ASSUME handlers \in Table, Len(handlers) > 0
  PROVE  /\ Room \in Table /\ Len(Room) >= Len(handlers)
         /\ \A i \in DOMAIN handlers : i \in DOMAIN Room /\ Room[i] = handlers[i]
         /\ \A i \in DOMAIN Room : i \notin DOMAIN handlers => Room[i] = NULL
         /\ \E i \in DOMAIN Room : Room[i] = NULL
<1>1. CASE \E i \in DOMAIN handlers : handlers[i] = NULL
  BY <1>1 DEF Room
<1>2. CASE ~ \E i \in DOMAIN handlers : handlers[i] = NULL
  <2> DEFINE n == Len(handlers)
             more == [i \in 1 .. n |-> NULL]
  <2>1. n \in Nat /\ n > 0 /\ DOMAIN handlers = 1 .. n
    BY DEF Table
  <2>2. more \in Table /\ Len(more) = n /\ \A i \in 1 .. n : more[i] = NULL
    <3>1. more \in [1 .. n -> Requests \cup {NULL}] /\ \A i \in 1 .. n : more[i] = NULL
      OBVIOUS
    <3> HIDE DEF more
    <3> QED
      BY <2>1, <3>1, FunctionIsSequence DEF Table
  <2>3. Room = handlers \o more
    BY <1>2 DEF Room
  <2> HIDE DEF more, n
  <2>4. Room \in Table /\ Len(Room) = Len(handlers) + Len(more)
        /\ \A i \in 1 .. Len(Room) :
             Room[i] = IF i =< Len(handlers) THEN handlers[i] ELSE more[i - Len(handlers)]
    BY <2>2, <2>3, Concatenated DEF Table
  <2>5. Len(handlers) = n
    BY DEF n
  <2>6. DOMAIN Room = 1 .. n + n
    BY <2>2, <2>4, <2>5 DEF Table
  <2>7. n + 1 \in DOMAIN Room /\ Room[n + 1] = NULL
    BY <2>1, <2>2, <2>4, <2>5, <2>6
  <2>8. \A i \in DOMAIN Room : i \notin DOMAIN handlers => Room[i] = NULL
    BY <2>1, <2>2, <2>4, <2>5, <2>6
  <2>9. \A i \in DOMAIN handlers : i \in DOMAIN Room /\ Room[i] = handlers[i]
    BY <2>1, <2>2, <2>4, <2>5, <2>6
  <2> QED
    BY <2>1, <2>2, <2>4, <2>5, <2>7, <2>8, <2>9
<1> QED
  BY <1>1, <1>2

(* A registration takes a free slot. *)
LEMMA FirstFreeIsFree ==
  ASSUME NEW table \in Table, \E i \in DOMAIN table : table[i] = NULL
  PROVE  FirstFree(table) \in DOMAIN table /\ table[FirstFree(table)] = NULL
<1> DEFINE free == {i \in DOMAIN table : table[i] = NULL}
<1>1. free \in SUBSET Nat /\ free # {}
  BY DEF Table
<1>2. PICK i \in free : \A j \in free : i =< j
  BY <1>1, LeastMember
<1>3. \A j \in 1 .. i - 1 : table[j] # NULL
  BY <1>1, <1>2 DEF Table
<1>4. \E k \in DOMAIN table : table[k] = NULL /\ \A j \in 1 .. k - 1 : table[j] # NULL
  BY <1>2, <1>3
<1> QED
  BY <1>4 DEF FirstFree

(* A scan that finds nothing to run has nothing to run before it. *)
LEMMA NothingLeft ==
  ASSUME handlers \in Table, pos \in Nat \ {0}, \A i \in pos .. Len(handlers) : ~Stops(i)
  PROVE  \A i \in pos .. Len(handlers) : ~Matches(i)
<1> DEFINE stops == {i \in pos .. Len(handlers) : Matches(i) \/ Expires(i)}
<1>1. Len(handlers) \in Nat
  BY DEF Table
<1>2. CASE stops = {}
  BY <1>2
<1>3. CASE stops # {}
  <2>1. stops \in SUBSET Nat
    BY <1>1
  <2>2. PICK i \in stops : \A j \in stops : i =< j
    BY <1>3, <2>1, LeastMember
  <2>3. \A j \in pos .. i - 1 : j \notin stops /\ j \in pos .. Len(handlers)
    BY <1>1, <2>1, <2>2
  <2>4. Stops(i)
    BY <2>2, <2>3 DEF Stops
  <2> QED
    BY <2>2, <2>4
<1> QED
  BY <1>2, <1>3
-----------------------------------------------------------------------------
(* The initial states. *)
LEMMA InitInv == ASSUME Init PROVE Inv
<1>1. handlers \in Table /\ Len(handlers) = IDH_SIZE /\ \A i \in DOMAIN handlers : handlers[i] = NULL
  <2>1. handlers \in [1 .. IDH_SIZE -> Requests \cup {NULL}] /\ \A i \in 1 .. IDH_SIZE : handlers[i] = NULL
    BY DEF Init
  <2> QED
    BY <2>1, Constants, FunctionIsSequence DEF Table
<1>2. TypeOK
  <2>1. /\ lastId \in 0 .. Cardinality(Requests) /\ old \subseteq Requests
        /\ pc \in [Threads -> {"idle", "incremented", "named", "registered"}]
        /\ cur \in [Threads -> Requests \cup {NULL}]
        /\ id \in [Requests -> 0 .. lastId]
    BY Constants DEF Init
  <2>2. /\ wire \subseteq Requests /\ answered \subseteq Requests /\ peers \in 0 .. MaxPeer
        /\ dpc \in {"idle", "scan", "callback", "expiry", "query"}
        /\ stanza \in [id : Nat, of : Requests \cup {NULL, PEER}] /\ pos \in Nat \ {0}
        /\ calls \in [Requests -> Nat] /\ got \in [Requests -> Requests \cup {NULL, PEER, EXPIRED}]
    BY Constants DEF Init, NoStanza
  <2> QED
    BY <1>1, <2>1, <2>2, Constants DEF TypeOK, Table
<1>3. Sending
  BY DEF Init, Sending
<1>4. Counted
  <2>1. Started = {}
    BY Constants DEF Init, Started
  <2> QED
    BY <2>1, FS_EmptySet DEF Init, Counted
<1>5. SlotsInv
  <2>1. Registered = {} /\ \A r \in Requests : calls[r] = 0
    BY DEF Init, Registered
  <2> QED
    BY <1>1, <2>1 DEF SlotsInv
<1>6. ScanInv
  BY DEF Init, ScanInv
<1>7. AnswersReachTheirCallback
  BY DEF Init, AnswersReachTheirCallback
<1> QED
  BY <1>2, <1>3, <1>4, <1>5, <1>6, <1>7 DEF Inv
-----------------------------------------------------------------------------
(* Requests *)

(* What does not change what is registered, what answers there are and what  *)
(* dispatch does, keeps the rest of the invariant.                           *)
LEMMA TableKept ==
  ASSUME Inv, UNCHANGED <<handlers, answered, dpc, stanza, pos, calls, got>>,
         Registered' = Registered,
         \A r \in Requests : id[r] # 0 => id'[r] = id[r],
         wire' \subseteq Requests, wire' \subseteq Registered'
  PROVE  SlotsInv' /\ ScanInv' /\ AnswersReachTheirCallback'
<1>1. handlers \in Table /\ id \in [Requests -> 0 .. lastId]
  BY DEF Inv, TypeOK, Table
<1>2. \A i \in DOMAIN handlers : handlers[i] # NULL => handlers[i] \in Requests
  BY <1>1 DEF Table
<1>3. \A r \in Requests : SlotsOf(r)' = SlotsOf(r)
  BY DEF SlotsOf
<1>4. SlotsInv'
  BY <1>2, <1>3 DEF Inv, SlotsInv
<1>5. ScanInv'
  <2>1. dpc # "idle" /\ stanza.of \in Requests => id[stanza.of] # 0
    BY DEF Inv, ScanInv, Registered
  <2> QED
    BY <2>1 DEF Inv, ScanInv
<1>6. DistinctIds' => DistinctIds
  BY DEF DistinctIds
<1>7. AnswersReachTheirCallback'
  BY <1>6 DEF Inv, AnswersReachTheirCallback
<1> QED
  BY <1>4, <1>5, <1>7

LEMMA IncrementInv ==
  ASSUME Inv, NEW t \in Threads, NEW r \in Requests, Increment(t, r)
  PROVE  Inv'
<1>1. /\ pc[t] = "idle" /\ id[r] = 0 /\ \A u \in Threads : cur[u] # r
      /\ lastId' = lastId + 1
      /\ cur' = [cur EXCEPT ![t] = r] /\ pc' = [pc EXCEPT ![t] = "incremented"]
      /\ UNCHANGED <<handlers, old, id, wire, answered, peers, dpc, stanza, pos, calls, got>>
  BY DEF Increment
<1>2. /\ lastId \in Nat /\ pc \in [Threads -> {"idle", "incremented", "named", "registered"}]
      /\ cur \in [Threads -> Requests \cup {NULL}] /\ id \in [Requests -> 0 .. lastId]
      /\ wire \subseteq Requests
  BY Constants DEF Inv, TypeOK
<1>3. cur[t] = NULL
  BY <1>1 DEF Inv, Sending
<1>4. Counted' /\ lastId' =< Cardinality(Requests)
  <2>1. Started' = Started \cup {r} /\ r \notin Started
    BY <1>1, <1>2, <1>3, Constants DEF Started
  <2>2. IsFiniteSet(Started) /\ IsFiniteSet(Started')
    BY Constants, FS_Subset DEF Started
  <2>3. Cardinality(Started') = Cardinality(Started) + 1
    BY <2>1, <2>2, FS_AddElement
  <2>4. Cardinality(Started') =< Cardinality(Requests)
    BY Constants, FS_Subset DEF Started
  <2> QED
    BY <1>1, <2>3, <2>4 DEF Inv, Counted
<1>5. TypeOK'
  <2>1. lastId' \in 0 .. Cardinality(Requests) /\ id' \in [Requests -> 0 .. lastId']
    BY <1>1, <1>2, <1>4, Constants
  <2>2. /\ pc' \in [Threads -> {"idle", "incremented", "named", "registered"}]
        /\ cur' \in [Threads -> Requests \cup {NULL}]
    BY <1>1, <1>2
  <2> QED
    BY <1>1, <2>1, <2>2 DEF Inv, TypeOK
<1>6. Sending'
  BY <1>1, <1>2, <1>3, Constants DEF Inv, Sending
<1>7. Registered' = Registered
  BY <1>1, <1>2 DEF Registered
<1>8. SlotsInv' /\ ScanInv' /\ AnswersReachTheirCallback'
  BY <1>1, <1>2, <1>7, TableKept DEF Inv, ScanInv
<1> QED
  BY <1>4, <1>5, <1>6, <1>8 DEF Inv

LEMMA FormatInv ==
  ASSUME Inv, NEW t \in Threads, Format(t)
  PROVE  Inv'
<1> PICK r : r = cur[t]
  OBVIOUS
<1>1. /\ pc[t] = "incremented"
      /\ id' = [id EXCEPT ![r] = lastId] /\ pc' = [pc EXCEPT ![t] = "named"]
      /\ UNCHANGED <<lastId, cur, handlers, old, wire, answered, peers, dpc, stanza, pos, calls, got>>
  BY DEF Format
<1>2. /\ lastId \in Nat /\ pc \in [Threads -> {"idle", "incremented", "named", "registered"}]
      /\ cur \in [Threads -> Requests \cup {NULL}] /\ id \in [Requests -> 0 .. lastId]
      /\ wire \subseteq Requests
  BY Constants DEF Inv, TypeOK
<1>3. r \in Requests /\ id[r] = 0 /\ \A u \in Threads : cur[u] = r => u = t
  BY <1>1, <1>2 DEF Inv, Sending
<1>4. lastId # 0
  <2>1. r \in Started /\ IsFiniteSet(Started)
    BY <1>3, Constants, FS_Subset DEF Started
  <2>2. Cardinality(Started) # 0
    BY <2>1, FS_EmptySet
  <2> QED
    BY <2>2 DEF Inv, Counted
<1>5. id'[r] # 0 /\ \A q \in Requests : q # r => id'[q] = id[q]
  BY <1>1, <1>2, <1>3, <1>4
<1>6. Counted'
  <2>1. Started' = Started
    BY <1>1, <1>3, <1>5 DEF Started
  <2> QED
    BY <1>1, <2>1 DEF Inv, Counted
<1>7. TypeOK'
  <2>1. id' \in [Requests -> 0 .. lastId']
    BY <1>1, <1>2, <1>3
  <2>2. pc' \in [Threads -> {"idle", "incremented", "named", "registered"}]
    BY <1>1, <1>2
  <2> QED
    BY <1>1, <2>1, <2>2 DEF Inv, TypeOK
<1>8. Sending'
  <2>1. \A u \in Threads : u # t => pc'[u] = pc[u] /\ (pc[u] # "idle" => cur[u] # r /\ id'[cur[u]] = id[cur[u]])
    BY <1>1, <1>2, <1>3, <1>5 DEF Inv, Sending
  <2>2. pc'[t] = "named" /\ id'[cur[t]] # 0 /\ cur' = cur /\ cur[t] # NULL
    BY <1>1, <1>2, <1>3, <1>5, Constants
  <2> QED
    BY <2>1, <2>2 DEF Inv, Sending
<1>9. Registered' = Registered
  <2>1. r \notin Registered /\ r \notin Registered'
    BY <1>1, <1>2, <1>3 DEF Registered
  <2>2. ASSUME NEW q \in Requests, q # r PROVE q \in Registered' <=> q \in Registered
    BY <1>1, <1>2, <1>3, <1>5, <2>2 DEF Registered
  <2>3. Registered \subseteq Requests /\ Registered' \subseteq Requests
    BY DEF Registered
  <2> QED
    BY <2>1, <2>2, <2>3
<1>10. SlotsInv' /\ ScanInv' /\ AnswersReachTheirCallback'
  BY <1>1, <1>2, <1>3, <1>5, <1>9, TableKept DEF Inv, ScanInv
<1> QED
  BY <1>6, <1>7, <1>8, <1>10 DEF Inv

LEMMA RegisterInv ==
  ASSUME Inv, NEW t \in Threads, Register(t)
  PROVE  Inv'
<1> PICK r : r = cur[t]
  OBVIOUS
<1> DEFINE f == FirstFree(Room)
<1>1. /\ pc[t] = "named"
      /\ handlers' = [Room EXCEPT ![f] = r] /\ pc' = [pc EXCEPT ![t] = "registered"]
      /\ UNCHANGED <<lastId, cur, id, old, wire, answered, peers, dpc, stanza, pos, calls, got>>
  BY DEF Register
<1>2. /\ lastId \in Nat /\ pc \in [Threads -> {"idle", "incremented", "named", "registered"}]
      /\ cur \in [Threads -> Requests \cup {NULL}] /\ id \in [Requests -> 0 .. lastId]
      /\ handlers \in Table /\ Len(handlers) >= IDH_SIZE /\ Len(handlers) > 0 /\ wire \subseteq Requests
      /\ pos \in Nat \ {0}
  BY Constants DEF Inv, TypeOK, Table
<1>3. r \in Requests /\ id[r] # 0 /\ r \notin Registered /\ \A u \in Threads : cur[u] = r => u = t
  BY <1>1, <1>2 DEF Inv, Sending, Registered
<1>4. /\ Room \in Table /\ Len(Room) >= Len(handlers)
      /\ \A i \in DOMAIN handlers : i \in DOMAIN Room /\ Room[i] = handlers[i]
      /\ \A i \in DOMAIN Room : i \notin DOMAIN handlers => Room[i] = NULL
      /\ f \in DOMAIN Room /\ Room[f] = NULL
  BY <1>2, RoomIsTable, FirstFreeIsFree
<1> HIDE DEF f
<1>5. /\ handlers' \in Table /\ Len(handlers') = Len(Room) /\ DOMAIN handlers' = DOMAIN Room
      /\ handlers'[f] = r /\ \A i \in DOMAIN Room : i # f => handlers'[i] = Room[i]
  BY <1>1, <1>3, <1>4 DEF Table
<1>6. \A i \in DOMAIN handlers' : handlers'[i] # NULL =>
        (i = f /\ handlers'[i] = r) \/ (i # f /\ i \in DOMAIN handlers /\ handlers[i] = handlers'[i])
  BY <1>4, <1>5
<1>7. \A i \in DOMAIN handlers : handlers[i] # NULL =>
        i # f /\ i \in DOMAIN handlers' /\ handlers'[i] = handlers[i]
  BY <1>4, <1>5
<1>8. Registered' = Registered \cup {r}
  BY <1>1, <1>2, <1>3 DEF Registered
<1>9. TypeOK'
  <2>1. pc' \in [Threads -> {"idle", "incremented", "named", "registered"}]
    BY <1>1, <1>2
  <2>2. handlers' \in Seq(Requests \cup {NULL}) /\ Len(handlers') >= IDH_SIZE
    BY <1>2, <1>4, <1>5, Constants DEF Table
  <2> QED
    BY <1>1, <2>1, <2>2 DEF Inv, TypeOK
<1>10. Sending'
  BY <1>1, <1>2 DEF Inv, Sending
<1>11. Counted'
  BY <1>1 DEF Inv, Counted, Started
<1>12. SlotsInv'
  <2>1. \A i \in DOMAIN handlers : handlers[i] # NULL => handlers[i] \in Requests /\ handlers[i] # r
    BY <1>2, <1>3 DEF Inv, SlotsInv, Table
  <2>2. \A i, j \in DOMAIN handlers' : handlers'[i] = handlers'[j] /\ handlers'[i] # NULL => i = j
    BY <1>6, <2>1 DEF Inv, SlotsInv
  <2>3. \A i \in DOMAIN handlers' : handlers'[i] # NULL => handlers'[i] \in Registered'
    BY <1>6, <1>8, <2>1 DEF Inv, SlotsInv
  <2>4. ASSUME NEW q \in Requests
        PROVE  calls'[q] = IF q \in Registered' /\ SlotsOf(q)' = {} THEN 1 ELSE 0
    <3>1. CASE q = r
      BY <1>1, <1>3, <1>4, <1>5, <3>1 DEF Inv, SlotsInv, SlotsOf
    <3>2. CASE q # r
      <4>1. SlotsOf(q)' = SlotsOf(q)
        BY <1>6, <1>7, <3>2, Constants DEF SlotsOf
      <4> QED
        BY <1>1, <1>8, <3>2, <4>1 DEF Inv, SlotsInv
    <3> QED
      BY <3>1, <3>2
  <2> QED
    BY <2>2, <2>3, <2>4 DEF SlotsInv
<1>13. ScanInv'
  <2>1. wire' \subseteq Registered'
    BY <1>1, <1>2, <1>3, <1>8 DEF Inv, ScanInv
  <2>2. dpc # "idle" /\ stanza.of \in Requests => stanza.of # r /\ stanza.of \in Registered'
    BY <1>3, <1>8 DEF Inv, ScanInv
  <2>3. ASSUME dpc \in {"scan", "expiry"}, stanza.of \in Requests,
               NEW i \in DOMAIN handlers', i < pos
        PROVE  handlers'[i] # stanza.of
    BY <1>6, <2>2, <2>3, Constants DEF Inv, ScanInv
  <2> QED
    BY <1>1, <2>1, <2>2, <2>3 DEF Inv, ScanInv
<1>14. AnswersReachTheirCallback'
  BY <1>1 DEF Inv, AnswersReachTheirCallback, DistinctIds
<1> QED
  BY <1>9, <1>10, <1>11, <1>12, <1>13, <1>14 DEF Inv

LEMMA PostInv ==
  ASSUME Inv, NEW t \in Threads, Post(t)
  PROVE  Inv'
<1> PICK r : r = cur[t]
  OBVIOUS
<1>1. /\ pc[t] = "registered" /\ wire' = wire \cup {r}
      /\ cur' = [cur EXCEPT ![t] = NULL] /\ pc' = [pc EXCEPT ![t] = "idle"]
      /\ UNCHANGED <<lastId, id, handlers, old, answered, peers, dpc, stanza, pos, calls, got>>
  BY DEF Post
<1>2. /\ lastId \in Nat /\ pc \in [Threads -> {"idle", "incremented", "named", "registered"}]
      /\ cur \in [Threads -> Requests \cup {NULL}] /\ id \in [Requests -> 0 .. lastId]
      /\ wire \subseteq Requests
  BY Constants DEF Inv, TypeOK
<1>3. r \in Requests /\ id[r] # 0 /\ \A u \in Threads : cur[u] = r => u = t
  BY <1>1, <1>2 DEF Inv, Sending
<1>4. Registered' = Registered
  BY <1>1, <1>2 DEF Registered
<1>5. r \in Registered
  BY <1>1, <1>3 DEF Registered
<1>6. TypeOK'
  <2>1. /\ pc' \in [Threads -> {"idle", "incremented", "named", "registered"}]
        /\ cur' \in [Threads -> Requests \cup {NULL}] /\ wire' \subseteq Requests
    BY <1>1, <1>2, <1>3
  <2> QED
    BY <1>1, <2>1 DEF Inv, TypeOK
<1>7. Sending'
  <2>1. cur'[t] = NULL /\ pc'[t] = "idle"
        /\ \A u \in Threads : u # t => cur'[u] = cur[u] /\ pc'[u] = pc[u]
    BY <1>1, <1>2
  <2> QED
    BY <1>1, <2>1 DEF Inv, Sending
<1>8. Counted'
  <2>1. Started' = Started
    BY <1>1, <1>2, <1>3, Constants DEF Started
  <2> QED
    BY <1>1, <2>1 DEF Inv, Counted
<1>9. SlotsInv' /\ ScanInv' /\ AnswersReachTheirCallback'
  <2>1. wire' \subseteq Requests /\ wire' \subseteq Registered'
    BY <1>1, <1>2, <1>3, <1>4, <1>5 DEF Inv, ScanInv
  <2> QED
    BY <1>1, <1>4, <2>1, TableKept
<1> QED
  BY <1>6, <1>7, <1>8, <1>9 DEF Inv
-----------------------------------------------------------------------------
(* Stanzas and their handlers *)

(* Dispatch and the clock change no request's state. *)
LEMMA RequestsKept ==
  ASSUME Inv, UNCHANGED sending
  PROVE  /\ Sending' /\ Counted' /\ Registered' = Registered /\ DistinctIds' = DistinctIds
         /\ lastId' = lastId /\ pc' = pc /\ cur' = cur /\ id' = id
BY DEF Inv, Sending, Counted, Started, Registered, DistinctIds, sending

LEMMA AnswerInv ==
  ASSUME Inv, NEW r \in Requests, Answer(r)
  PROVE  Inv'
<1>1. /\ r \in wire /\ dpc = "idle" /\ stanza' = [id |-> id[r], of |-> r] /\ pos' = 1
      /\ dpc' = "scan" /\ wire' = wire \ {r}
      /\ UNCHANGED <<sending, handlers, old, calls, got, answered, peers>>
  BY DEF Answer, Receive
<1>2. /\ Sending' /\ Counted' /\ Registered' = Registered /\ DistinctIds' = DistinctIds
      /\ lastId' = lastId /\ pc' = pc /\ cur' = cur /\ id' = id
  BY <1>1, RequestsKept
<1>3. TypeOK'
  <2>1. id[r] \in Nat
    BY DEF Inv, TypeOK
  <2>2. stanza' \in [id : Nat, of : Requests \cup {NULL, PEER}]
    BY <1>1, <2>1
  <2> QED
    BY <1>1, <1>2, <2>2 DEF Inv, TypeOK
<1>4. SlotsInv'
  BY <1>1, <1>2 DEF Inv, SlotsInv, SlotsOf
<1>5. ScanInv'
  <2>1. r \in Registered /\ wire' \subseteq Registered
    BY <1>1 DEF Inv, ScanInv
  <2>2. \A i \in DOMAIN handlers : ~(i < 1)
    BY DEF Inv, TypeOK
  <2> QED
    BY <1>1, <1>2, <2>1, <2>2, Constants DEF ScanInv
<1>6. AnswersReachTheirCallback'
  BY <1>1, <1>2 DEF Inv, AnswersReachTheirCallback
<1> QED
  BY <1>2, <1>3, <1>4, <1>5, <1>6 DEF Inv

LEMMA FromPeerInv ==
  ASSUME Inv, NEW i \in Ids, FromPeer(i)
  PROVE  Inv'
<1>1. /\ peers < MaxPeer /\ peers' = peers + 1
      /\ dpc = "idle" /\ stanza' = [id |-> i, of |-> PEER] /\ pos' = 1
      /\ dpc' = "scan"
      /\ UNCHANGED <<sending, handlers, old, calls, got, answered, wire>>
  BY DEF FromPeer, Receive
<1>2. /\ Sending' /\ Counted' /\ Registered' = Registered /\ DistinctIds' = DistinctIds
      /\ lastId' = lastId /\ pc' = pc /\ cur' = cur /\ id' = id
  BY <1>1, RequestsKept
<1>3. TypeOK'
  <2>1. stanza' \in [id : Nat, of : Requests \cup {NULL, PEER}]
    BY <1>1 DEF Ids
  <2>2. peers' \in 0 .. MaxPeer
    BY <1>1, Constants DEF Inv, TypeOK
  <2> QED
    BY <1>1, <1>2, <2>1, <2>2 DEF Inv, TypeOK
<1>4. SlotsInv'
  BY <1>1, <1>2 DEF Inv, SlotsInv, SlotsOf
<1>5. ScanInv'
  BY <1>1, <1>2, Constants DEF Inv, ScanInv
<1>6. AnswersReachTheirCallback'
  BY <1>1, <1>2 DEF Inv, AnswersReachTheirCallback
<1> QED
  BY <1>2, <1>3, <1>4, <1>5, <1>6 DEF Inv

(* What a step has done that ran the callback of slot i. *)
LEMMA CallbackRuns ==
  ASSUME Inv, NEW i \in DOMAIN handlers, handlers[i] # NULL, NEW what, NEW l,
         RunCallback(i, what, l),
         what \in Requests \cup {PEER, EXPIRED},
         l \in {"callback", "expiry"}
  PROVE  /\ handlers[i] \in Requests /\ calls'[handlers[i]] = 1 /\ got'[handlers[i]] = what
         /\ \A q \in Requests : q # handlers[i] => calls'[q] = calls[q] /\ got'[q] = got[q]
         /\ DOMAIN handlers' = DOMAIN handlers /\ Len(handlers') = Len(handlers)
         /\ \A j \in DOMAIN handlers : handlers'[j] = IF j = i THEN NULL ELSE handlers[j]
         /\ handlers' \in Table /\ calls' \in [Requests -> Nat]
         /\ got' \in [Requests -> Requests \cup {NULL, PEER, EXPIRED}]
         /\ old' \subseteq Requests /\ SlotsInv'
<1> PICK r : r = handlers[i]
  OBVIOUS
<1>1. /\ handlers' = [handlers EXCEPT ![i] = NULL]
      /\ calls' = [calls EXCEPT ![r] = @ + 1] /\ got' = [got EXCEPT ![r] = what]
      /\ old' = old \ {r} /\ UNCHANGED sending
  BY DEF RunCallback
<1>2. handlers \in Table /\ calls \in [Requests -> Nat] /\ old \subseteq Requests
      /\ got \in [Requests -> Requests \cup {NULL, PEER, EXPIRED}]
  BY DEF Inv, TypeOK, Table
<1>3. r \in Requests /\ r \in Registered
  BY <1>2 DEF Table, Inv, SlotsInv
<1>4. calls[r] = 0
  BY <1>3 DEF Inv, SlotsInv, SlotsOf
<1>5. /\ calls'[r] = 1 /\ got'[r] = what
      /\ \A q \in Requests : q # r => calls'[q] = calls[q] /\ got'[q] = got[q]
      /\ calls' \in [Requests -> Nat] /\ got' \in [Requests -> Requests \cup {NULL, PEER, EXPIRED}]
  BY <1>1, <1>2, <1>3, <1>4
<1>6. /\ DOMAIN handlers' = DOMAIN handlers /\ Len(handlers') = Len(handlers)
      /\ \A j \in DOMAIN handlers : handlers'[j] = IF j = i THEN NULL ELSE handlers[j]
      /\ handlers' \in Table
  BY <1>1, <1>2 DEF Table
<1>7. Registered' = Registered
  BY <1>1, RequestsKept
<1>8. SlotsInv'
  <2>1. \A j, k \in DOMAIN handlers' : handlers'[j] = handlers'[k] /\ handlers'[j] # NULL => j = k
    BY <1>6 DEF Inv, SlotsInv
  <2>2. \A j \in DOMAIN handlers' : handlers'[j] # NULL => handlers'[j] \in Registered'
    BY <1>6, <1>7 DEF Inv, SlotsInv
  <2>3. ASSUME NEW q \in Requests
        PROVE  calls'[q] = IF q \in Registered' /\ SlotsOf(q)' = {} THEN 1 ELSE 0
    <3>1. CASE q = r
      <4>1. SlotsOf(q)' = {}
        BY <1>3, <1>6, <3>1, Constants DEF Inv, SlotsInv, SlotsOf
      <4> QED
        BY <1>3, <1>5, <1>7, <3>1, <4>1
    <3>2. CASE q # r
      <4>1. SlotsOf(q)' = SlotsOf(q)
        BY <1>6, <3>2, Constants DEF SlotsOf
      <4> QED
        BY <1>5, <1>7, <3>2, <4>1 DEF Inv, SlotsInv
    <3> QED
      BY <3>1, <3>2
  <2> QED
    BY <2>1, <2>2, <2>3 DEF SlotsInv
<1> QED
  BY <1>1, <1>2, <1>3, <1>5, <1>6, <1>8

LEMMA HandleMatchInv ==
  ASSUME Inv, NEW i \in DOMAIN handlers, HandleMatch(i)
  PROVE  Inv'
<1> PICK r : r = handlers[i]
  OBVIOUS
<1>1. /\ dpc = "scan" /\ r # NULL /\ id[r] = stanza.id
      /\ RunCallback(i, stanza.of, "callback")
      /\ answered' = answered \cup ({stanza.of} \ {PEER}) /\ pos' = pos
      /\ dpc' = "callback" /\ UNCHANGED <<sending, wire, peers, stanza>>
  BY DEF HandleMatch, Matches, RunCallback
<1>2. stanza.of \in Requests \cup {PEER}
  BY <1>1 DEF Inv, TypeOK, ScanInv
<1>3. /\ r \in Requests /\ calls'[r] = 1 /\ got'[r] = stanza.of
      /\ \A q \in Requests : q # r => calls'[q] = calls[q] /\ got'[q] = got[q]
      /\ Len(handlers') = Len(handlers) /\ handlers' \in Table /\ calls' \in [Requests -> Nat]
      /\ got' \in [Requests -> Requests \cup {NULL, PEER, EXPIRED}]
      /\ old' \subseteq Requests /\ SlotsInv'
  BY <1>1, <1>2, CallbackRuns
<1>4. /\ Sending' /\ Counted' /\ Registered' = Registered /\ DistinctIds' = DistinctIds
      /\ lastId' = lastId /\ pc' = pc /\ cur' = cur /\ id' = id
  BY <1>1, RequestsKept
<1>5. TypeOK'
  BY <1>1, <1>2, <1>3, <1>4 DEF Inv, TypeOK, Table
<1>6. ScanInv'
  BY <1>1, <1>4 DEF Inv, ScanInv
<1>7. AnswersReachTheirCallback'
  <2> SUFFICES ASSUME DistinctIds, NEW q \in Requests
               PROVE  /\ q \in answered' => calls'[q] = 1
                      /\ got'[q] \in {NULL, PEER, EXPIRED, q}
    BY <1>4 DEF AnswersReachTheirCallback
  <2>1. stanza.of \in Requests => stanza.of = r
    <3>1. stanza.of \in Requests => stanza.id = id[stanza.of] /\ id[stanza.of] # 0
      BY <1>1 DEF Inv, ScanInv, Registered
    <3> QED
      BY <1>1, <1>3, <3>1 DEF DistinctIds
  <2>2. q \in answered' => q \in answered \/ q = r
    BY <1>1, <1>2, <2>1
  <2>3. got[q] \in {NULL, PEER, EXPIRED, q} /\ (q \in answered => calls[q] = 1)
    BY DEF Inv, AnswersReachTheirCallback
  <2> QED
    BY <1>2, <1>3, <2>1, <2>2, <2>3
<1> QED
  BY <1>3, <1>4, <1>5, <1>6, <1>7 DEF Inv

LEMMA HandleExpiredInv ==
  ASSUME Inv, NEW i \in DOMAIN handlers, HandleExpired(i)
  PROVE  Inv'
<1> PICK r : r = handlers[i]
  OBVIOUS
<1>1. /\ dpc = "scan" /\ r # NULL /\ id[r] # stanza.id /\ Stops(i)
      /\ RunCallback(i, EXPIRED, "expiry")
      /\ answered' = answered /\ pos' = i + 1
      /\ dpc' = "expiry" /\ UNCHANGED <<sending, wire, peers, stanza>>
  BY DEF HandleExpired, Expires, Matches, RunCallback
<1>2. handlers \in Table /\ pos \in Nat \ {0} /\ i \in Nat \ {0}
  BY DEF Inv, TypeOK, Table
<1>3. /\ r \in Requests /\ calls'[r] = 1 /\ got'[r] = EXPIRED
      /\ \A q \in Requests : q # r => calls'[q] = calls[q] /\ got'[q] = got[q]
      /\ DOMAIN handlers' = DOMAIN handlers /\ Len(handlers') = Len(handlers)
      /\ \A j \in DOMAIN handlers : handlers'[j] = IF j = i THEN NULL ELSE handlers[j]
      /\ handlers' \in Table /\ calls' \in [Requests -> Nat]
      /\ got' \in [Requests -> Requests \cup {NULL, PEER, EXPIRED}]
      /\ old' \subseteq Requests /\ SlotsInv'
  BY <1>1, CallbackRuns
<1>4. /\ Sending' /\ Counted' /\ Registered' = Registered /\ DistinctIds' = DistinctIds
      /\ lastId' = lastId /\ pc' = pc /\ cur' = cur /\ id' = id
  BY <1>1, RequestsKept
<1>5. TypeOK'
  BY <1>1, <1>2, <1>3, <1>4 DEF Inv, TypeOK, Table
<1>6. ScanInv'
  <2>1. ASSUME stanza.of \in Requests, NEW j \in DOMAIN handlers, j < i + 1
        PROVE  handlers'[j] # stanza.of
    <3>1. stanza.id = id[stanza.of]
          /\ \A k \in DOMAIN handlers : k < pos => handlers[k] # stanza.of
      BY <1>1, <2>1 DEF Inv, ScanInv
    <3>2. j \in Nat
      BY <1>2 DEF Table
    <3>3. CASE j < pos
      BY <1>3, <2>1, <3>1, <3>3, Constants
    <3>4. CASE j = i
      BY <1>3, <2>1, <3>4, Constants
    <3>5. CASE j >= pos /\ j < i
      <4>1. j \in pos .. i - 1
        BY <1>2, <3>2, <3>5
      <4>2. ~Matches(j)
        BY <1>1, <4>1 DEF Stops
      <4> QED
        BY <1>3, <2>1, <3>1, <3>5, <4>2, Constants DEF Matches
    <3> QED
      BY <1>2, <2>1, <3>2, <3>3, <3>4, <3>5
  <2> QED
    BY <1>1, <1>3, <1>4, <2>1 DEF Inv, ScanInv
<1>7. AnswersReachTheirCallback'
  <2> SUFFICES ASSUME DistinctIds, NEW q \in Requests
               PROVE  /\ q \in answered' => calls'[q] = 1
                      /\ got'[q] \in {NULL, PEER, EXPIRED, q}
    BY <1>4 DEF AnswersReachTheirCallback
  <2>1. got[q] \in {NULL, PEER, EXPIRED, q} /\ (q \in answered => calls[q] = 1)
    BY DEF Inv, AnswersReachTheirCallback
  <2> QED
    BY <1>1, <1>3, <2>1
<1> QED
  BY <1>3, <1>4, <1>5, <1>6, <1>7 DEF Inv

(* An answer that no slot expects had its callback run before: it expired.  *)
LEMMA HandleNoneInv == ASSUME Inv, HandleNone PROVE Inv'
<1>1. /\ dpc = "scan" /\ \A i \in pos .. Len(handlers) : ~Stops(i)
      /\ dpc' = (IF stanza.of = PEER THEN "query" ELSE "idle")
      /\ answered' = answered \cup ({stanza.of} \ {PEER})
      /\ UNCHANGED <<sending, handlers, old, wire, peers, stanza, pos, calls, got>>
  BY DEF HandleNone
<1>2. handlers \in Table /\ pos \in Nat \ {0} /\ stanza.of \in Requests \cup {PEER}
  BY <1>1 DEF Inv, TypeOK, Table, ScanInv
<1>3. /\ Sending' /\ Counted' /\ Registered' = Registered /\ DistinctIds' = DistinctIds
      /\ lastId' = lastId /\ pc' = pc /\ cur' = cur /\ id' = id
  BY <1>1, RequestsKept
<1>4. TypeOK'
  BY <1>1, <1>2, <1>3 DEF Inv, TypeOK
<1>5. SlotsInv'
  BY <1>1, <1>3 DEF Inv, SlotsInv, SlotsOf
<1>6. ScanInv'
  BY <1>1, <1>3, Constants DEF Inv, ScanInv
<1>7. stanza.of \in Requests => calls[stanza.of] = 1
  <2> SUFFICES ASSUME stanza.of \in Requests PROVE calls[stanza.of] = 1
    OBVIOUS
  <2>1. /\ stanza.of \in Registered /\ stanza.id = id[stanza.of]
        /\ \A i \in DOMAIN handlers : i < pos => handlers[i] # stanza.of
    BY <1>1 DEF Inv, ScanInv
  <2>2. \A i \in pos .. Len(handlers) : ~Matches(i)
    BY <1>1, <1>2, NothingLeft
  <2>3. ASSUME NEW i \in DOMAIN handlers PROVE handlers[i] # stanza.of
    <3>1. i < pos \/ i \in pos .. Len(handlers)
      BY <1>2 DEF Table
    <3>2. i \in pos .. Len(handlers) => handlers[i] # stanza.of
      BY <2>1, <2>2, Constants DEF Matches
    <3> QED
      BY <2>1, <3>1, <3>2
  <2>4. SlotsOf(stanza.of) = {}
    BY <2>3 DEF SlotsOf
  <2> QED
    BY <2>1, <2>4 DEF Inv, SlotsInv
<1>8. AnswersReachTheirCallback'
  <2> SUFFICES ASSUME DistinctIds, NEW q \in Requests
               PROVE  /\ q \in answered' => calls'[q] = 1
                      /\ got'[q] \in {NULL, PEER, EXPIRED, q}
    BY <1>3 DEF AnswersReachTheirCallback
  <2>1. got[q] \in {NULL, PEER, EXPIRED, q} /\ (q \in answered => calls[q] = 1)
    BY DEF Inv, AnswersReachTheirCallback
  <2> QED
    BY <1>1, <1>7, <2>1
<1> QED
  BY <1>3, <1>4, <1>5, <1>6, <1>8 DEF Inv

LEMMA ReturnInv == ASSUME Inv, Return PROVE Inv'
<1>1. /\ dpc \in {"callback", "expiry", "query"}
      /\ dpc' = (IF dpc = "expiry" THEN "scan" ELSE "idle")
      /\ UNCHANGED <<sending, handlers, old, wire, answered, peers, stanza, pos, calls, got>>
  BY DEF Return
<1>2. /\ Sending' /\ Counted' /\ Registered' = Registered /\ DistinctIds' = DistinctIds
      /\ lastId' = lastId /\ pc' = pc /\ cur' = cur /\ id' = id
  BY <1>1, RequestsKept
<1>3. TypeOK'
  BY <1>1, <1>2 DEF Inv, TypeOK
<1>4. SlotsInv' /\ AnswersReachTheirCallback'
  BY <1>1, <1>2 DEF Inv, SlotsInv, SlotsOf, AnswersReachTheirCallback
<1>5. ScanInv'
  BY <1>1, <1>2 DEF Inv, ScanInv
<1> QED
  BY <1>2, <1>3, <1>4, <1>5 DEF Inv

LEMMA AgeInv == ASSUME Inv, NEW r \in Requests, Age(r) PROVE Inv'
<1>1. /\ old' = old \cup {r}
      /\ UNCHANGED <<sending, handlers, wire, answered, peers, dpc, stanza, pos, calls, got>>
  BY DEF Age
<1>2. /\ Sending' /\ Counted' /\ Registered' = Registered /\ DistinctIds' = DistinctIds
      /\ lastId' = lastId /\ pc' = pc /\ cur' = cur /\ id' = id
  BY <1>1, RequestsKept
<1>3. TypeOK'
  BY <1>1, <1>2 DEF Inv, TypeOK
<1>4. SlotsInv' /\ AnswersReachTheirCallback' /\ ScanInv'
  BY <1>1, <1>2 DEF Inv, SlotsInv, SlotsOf, AnswersReachTheirCallback, ScanInv
<1> QED
  BY <1>2, <1>3, <1>4 DEF Inv
-----------------------------------------------------------------------------
LEMMA StutterInv == ASSUME Inv, UNCHANGED vars PROVE Inv'
<1>1. /\ Sending' /\ Counted' /\ Registered' = Registered /\ DistinctIds' = DistinctIds
  BY RequestsKept DEF vars, sending
<1>2. TypeOK'
  BY DEF Inv, TypeOK, vars
<1>3. SlotsInv' /\ AnswersReachTheirCallback' /\ ScanInv'
  BY <1>1 DEF Inv, SlotsInv, SlotsOf, AnswersReachTheirCallback, ScanInv, vars
<1> QED
  BY <1>1, <1>2, <1>3 DEF Inv

LEMMA NextInv == ASSUME Inv, [Next]_vars PROVE Inv'
<1>1. ASSUME NEW t \in Threads, SendStep(t) \/ \E r \in Requests : Increment(t, r)
      PROVE  Inv'
  BY <1>1, FormatInv, RegisterInv, PostInv, IncrementInv DEF SendStep
<1>2. ASSUME NEW r \in Requests, Answer(r) \/ Age(r) PROVE Inv'
  BY <1>2, AnswerInv, AgeInv
<1>3. ASSUME Handle PROVE Inv'
  BY <1>3, HandleMatchInv, HandleExpiredInv, HandleNoneInv, ReturnInv DEF Handle
<1> QED
  BY <1>1, <1>2, <1>3, FromPeerInv, StutterInv DEF Next

(* The invariant holds in every state, whatever the senders, the requests    *)
(* and the size the table begins with.                                       *)
THEOREM IdHandlerInvariant == Spec => []Inv
<1>1. Init => Inv
  BY InitInv
<1>2. Inv /\ [Next]_vars => Inv'
  BY NextInv
<1> QED
  BY <1>1, <1>2, PTL DEF Spec

(* The table is never smaller than it began and holds requests or free slots; *)
(* no more ids are given than there are requests.                            *)
THEOREM IdHandlerTypeCorrect == Spec => []TypeOK
<1>1. Inv => TypeOK
  BY DEF Inv
<1> QED
  BY <1>1, IdHandlerInvariant, PTL

LEMMA InvOnce == ASSUME Inv PROVE OnceAndNotLost
<1> SUFFICES ASSUME NEW r \in Requests
             PROVE  Cardinality(SlotsOf(r)) + calls[r] = IF r \in Registered THEN 1 ELSE 0
  BY DEF OnceAndNotLost
<1>1. calls[r] = IF r \in Registered /\ SlotsOf(r) = {} THEN 1 ELSE 0
  BY DEF Inv, SlotsInv
<1>2. CASE SlotsOf(r) = {}
  BY <1>1, <1>2, FS_EmptySet
<1>3. CASE SlotsOf(r) # {}
  <2>1. PICK i \in DOMAIN handlers : handlers[i] = r
    BY <1>3 DEF SlotsOf
  <2>2. SlotsOf(r) = {i} /\ r \in Registered
    BY <2>1, Constants DEF Inv, SlotsInv, SlotsOf
  <2>3. Cardinality({i}) = 1
    BY FS_Singleton
  <2> QED
    BY <1>1, <1>3, <2>2, <2>3
<1> QED
  BY <1>2, <1>3

(* A registered callback is in exactly one slot until it runs, and runs at   *)
(* most once, although the table grows and is registered in between the      *)
(* steps of a scan.                                                          *)
THEOREM CallbackOnceAndNotLost == Spec => []OnceAndNotLost
<1>1. Inv => OnceAndNotLost
  BY InvOnce
<1> QED
  BY <1>1, IdHandlerInvariant, PTL

(* While ids are distinct no answer is given to another request's callback,  *)
(* and what was answered has been called back.                               *)
THEOREM AnswersAreDelivered == Spec => []AnswersReachTheirCallback
<1>1. Inv => AnswersReachTheirCallback
  BY DEF Inv
<1> QED
  BY <1>1, IdHandlerInvariant, PTL
=============================================================================
