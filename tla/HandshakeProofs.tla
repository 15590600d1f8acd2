-------------------------- MODULE HandshakeProofs --------------------------
(***************************************************************************)
(* Proofs about Handshake, with TLS or without, for any table and ring that *)
(* have room for one login.                                                *)
(***************************************************************************)
EXTENDS Handshake, WellFoundedInduction, TLAPS

(* Sequences. *)
LEMMA EmptyBefore ==
  ASSUME NEW S, NEW a \in Seq(S)
  PROVE  <<>> \o a = a
OBVIOUS

LEMMA MovedOver ==
  ASSUME NEW S, NEW a \in Seq(S), NEW x \in S, NEW b \in Seq(S)
  PROVE  Append(a, x) \o b = a \o (<<x>> \o b)
OBVIOUS

LEMMA HeadBeforeTail ==
  ASSUME NEW S, NEW a \in Seq(S), a # <<>>
  PROVE  <<Head(a)>> \o Tail(a) = a
OBVIOUS

LEMMA TailOfPreceded ==
  ASSUME NEW S, NEW x \in S, NEW a \in Seq(S)
  PROVE  /\ <<x>> \o a \in Seq(S) /\ <<x>> \o a # <<>>
         /\ Head(<<x>> \o a) = x /\ Tail(<<x>> \o a) = a
OBVIOUS

LEMMA Regrouped ==
  ASSUME NEW S, NEW a \in Seq(S), NEW b \in Seq(S), NEW c \in Seq(S)
  PROVE  (a \o b) \o c = a \o (b \o c)
OBVIOUS

LEMMA Alone ==
  ASSUME NEW S, NEW x \in S
  PROVE  <<x>> \in Seq(S)
OBVIOUS

LEMMA Nothing == \A S : <<>> \in Seq(S)
OBVIOUS

LEMMA Extended ==
  ASSUME NEW S, NEW a \in Seq(S), NEW b \in Seq(S)
  PROVE  /\ a \o b \in Seq(S) /\ Len(a \o b) = Len(a) + Len(b)
         /\ b = <<>> => a \o b = a
         /\ a # <<>> => a \o b # <<>> /\ Head(a \o b) = Head(a)
OBVIOUS
-----------------------------------------------------------------------------
(* The end of the stream is no message. *)
LEMMA EndIsNoMessage == End \notin Messages
BY HandshakeAssumption DEF End, Stanza, Messages

LEMMA StanzasAreMessages ==
  ASSUME NEW tag \in Tags, NEW f \in Mechanisms \cup {NULL},
         f = NULL \/ tag \in {"?xml", "stream:features"}
  PROVE  /\ Stanza(tag, f) \in Messages
         /\ Stanza(tag, f).tag = tag /\ Stanza(tag, f).features = f
BY DEF Stanza, Messages

(* What is on its way behind the message that dispatch handles. *)
Behind == ring \o (InRead \o net)

LEMMA ComingParts ==
  ASSUME TypeOK, ChannelInv
  PROVE  /\ Hand \in Seq(Messages) /\ InRead \in Seq(Messages) /\ net \in Seq(Messages)
         /\ InRead \o net \in Seq(Messages)
         /\ rpc \notin {"close", "gone"} => /\ Behind \in Seq(Messages)
                                            /\ ring \in Seq(Messages)
                                            /\ Coming = Hand \o Behind
         /\ rpc \in {"close", "gone"} => Coming = Hand
         /\ dpc # "handle" => Hand = <<>>
         /\ dpc = "handle" => Hand = <<dmsg>> /\ dmsg \in Messages
         /\ Coming \in Seq(Messages)
<1>1. /\ dpc = "handle" => Hand = <<dmsg>> /\ dmsg \in Messages
      /\ dpc # "handle" => Hand = <<>>
  BY DEF Hand, TypeOK, ChannelInv
<1>2. Hand \in Seq(Messages)
  <2>1. CASE dpc = "handle"
    BY <1>1, <2>1, Alone
  <2>2. CASE dpc # "handle"
    BY <1>1, <2>2, Nothing
  <2> QED
    BY <2>1, <2>2
<1>3. InRead \in Seq(Messages)
  <2>1. rmsg # End => rmsg \in Messages
    BY DEF TypeOK
  <2> QED
    BY <2>1, Alone, Nothing DEF InRead
<1>4. net \in Seq(Messages)
  BY DEF TypeOK
<1>5. InRead \o net \in Seq(Messages)
  BY <1>3, <1>4, Extended
<1>6. ASSUME rpc \notin {"close", "gone"}
      PROVE  /\ Behind \in Seq(Messages) /\ ring \in Seq(Messages)
             /\ Coming = Hand \o Behind /\ Coming \in Seq(Messages)
  <2>1. ring \in Seq(Messages)
    BY <1>6 DEF ChannelInv
  <2>2. Behind \in Seq(Messages)
    BY <2>1, <1>5, Extended DEF Behind
  <2>3. Coming = Hand \o Behind
    BY <1>6 DEF Coming, Behind
  <2> QED
    BY <1>2, <2>1, <2>2, <2>3, Extended
<1>7. rpc \in {"close", "gone"} => Coming = Hand
  BY DEF Coming
<1> QED
  BY <1>1, <1>2, <1>3, <1>4, <1>5, <1>6, <1>7

(* The reader moves messages towards dispatch, and changes nothing of what   *)
(* is coming until it empties the ring.                                     *)
LEMMA ReaderRecvComing ==
  ASSUME TypeOK, ChannelInv, ReaderRecv
  PROVE  Coming' = Coming
<1>1. /\ InRead = <<>> /\ rpc \notin {"close", "gone"} /\ rpc' \in {"unpoll", "post"}
      /\ Hand' = Hand
  BY DEF ReaderRecv, InRead, Hand
<1>2. InRead' \o net' = InRead \o net
  <2>1. CASE net # <<>> /\ rmsg' = Head(net) /\ net' = Tail(net)
    <3>1. net \in Seq(Messages) /\ Head(net) \in Messages
      BY <2>1 DEF TypeOK
    <3>2. InRead' = <<Head(net)>>
      BY <1>1, <2>1, <3>1, EndIsNoMessage DEF InRead, End
    <3>3. <<Head(net)>> \o Tail(net) = net
      BY <2>1, <3>1, HeadBeforeTail
    <3>4. <<>> \o net = net
      BY <3>1, EmptyBefore
    <3> QED
      BY <1>1, <2>1, <3>2, <3>3, <3>4
  <2>2. CASE net = <<>> /\ rmsg' = End /\ UNCHANGED net
    BY <1>1, <2>2 DEF InRead, End
  <2> QED
    BY <2>1, <2>2 DEF ReaderRecv
<1>3. ring' = ring
  BY DEF ReaderRecv
<1> QED
  BY <1>1, <1>2, <1>3 DEF Coming

LEMMA ReaderPostComing ==
  ASSUME TypeOK, ChannelInv, ReaderPost
  PROVE  Coming' = Coming
<1>1. /\ rpc = "post" /\ Hand' = Hand /\ net' = net /\ rpc' \in {"cleanup", "top"}
      /\ InRead' = <<>>
  BY DEF ReaderPost, Hand, InRead
<1>2. ring \in Seq(Messages) /\ net \in Seq(Messages)
  BY <1>1, ComingParts
<1>3. ring' \o (InRead' \o net') = ring \o (InRead \o net)
  <2>1. CASE rmsg = End
    <3>1. InRead = <<>> /\ ring' = ring
      BY <2>1 DEF InRead, ReaderPost
    <3> QED
      BY <1>1, <3>1
  <2>2. CASE rmsg # End
    <3>1. InRead = <<rmsg>> /\ ring' = Append(ring, rmsg) /\ rmsg \in Messages
      BY <1>1, <2>2 DEF InRead, ReaderPost, TypeOK
    <3>2. Append(ring, rmsg) \o net = ring \o (<<rmsg>> \o net)
      BY <1>2, <3>1, MovedOver
    <3>3. <<>> \o net = net
      BY <1>2, EmptyBefore
    <3> QED
      BY <1>1, <3>1, <3>2, <3>3
  <2> QED
    BY <2>1, <2>2
<1> QED
  BY <1>1, <1>3 DEF Coming

LEMMA ReaderElseComing ==
  ASSUME ReaderTop \/ ReaderPoll \/ ReaderUnpoll
  PROVE  Coming' = Coming
<1>1. /\ rpc \notin {"close", "gone"} /\ rpc' \notin {"close", "gone"}
      /\ ring' = ring /\ net' = net /\ Hand' = Hand
  BY DEF ReaderTop, ReaderPoll, ReaderUnpoll, Hand
<1>2. InRead' = InRead
  BY DEF ReaderTop, ReaderPoll, ReaderUnpoll, InRead, End
<1> QED
  BY <1>1, <1>2 DEF Coming

LEMMA ReaderCleanupComing ==
  ASSUME TypeOK, ChannelInv, ReaderCleanup
  PROVE  /\ Coming' = Hand /\ Hand \in Seq(Messages)
         /\ Coming' = <<>> \/ (Coming # <<>> /\ Coming' = <<Head(Coming)>>)
<1>1. /\ rpc \notin {"close", "gone"} /\ rpc' \in {"close", "gone"} /\ Hand' = Hand
  BY DEF ReaderCleanup, Hand
<1>2. Coming' = Hand /\ Coming = Hand \o Behind
      /\ Hand \in Seq(Messages) /\ Behind \in Seq(Messages)
  BY <1>1, ComingParts DEF Coming
<1>3. Hand = <<>> \/ (dmsg \in Messages /\ Hand = <<dmsg>>)
  BY ComingParts
<1> QED
  BY <1>2, <1>3, TailOfPreceded

(* Dispatch takes a message that it begins to handle; what it has handled is *)
(* no longer to come.                                                       *)
LEMMA DispatchGetComing ==
  ASSUME TypeOK, ChannelInv, DispatchGet
  PROVE  Coming' = Coming
<1>1. /\ dpc # "handle" /\ ring # <<>> /\ ring' = Tail(ring) /\ dmsg' = Head(ring)
      /\ rpc' = rpc /\ rmsg' = rmsg /\ net' = net
      /\ Head(ring) # End => dpc' = "handle"
      /\ Head(ring) = End => dpc' # "handle"
  <2>1. /\ dpc # "handle" /\ ring # <<>> /\ ring' = Tail(ring) /\ dmsg' = Head(ring)
        /\ rpc' = rpc /\ rmsg' = rmsg /\ net' = net
    BY DEF DispatchGet, reading
  <2>2. Head(ring) # End => dpc' = "handle"
    BY DEF DispatchGet
  <2>3. Head(ring) = End => dpc' # "handle"
    BY DEF DispatchGet
  <2> QED
    BY <2>1, <2>2, <2>3
<1>2. InRead' = InRead
  BY <1>1 DEF InRead, End
<1>3. CASE rpc \in {"close", "gone"}
  <2>1. Head(ring) = End
    BY <1>1, <1>3 DEF ChannelInv
  <2> QED
    BY <1>1, <1>3, <2>1 DEF Coming, Hand
<1>4. CASE rpc \notin {"close", "gone"}
  <2>1. ring \in Seq(Messages) /\ Head(ring) \in Messages /\ Tail(ring) \in Seq(Messages)
    BY <1>1, <1>4 DEF ChannelInv
  <2>2. Hand = <<>> /\ Hand' = <<Head(ring)>>
    BY <1>1, <2>1, EndIsNoMessage DEF Hand
  <2>3. InRead \o net \in Seq(Messages)
    BY ComingParts
  <2>4. <<Head(ring)>> \o (Tail(ring) \o (InRead \o net)) = <<>> \o (ring \o (InRead \o net))
    <3>1. <<Head(ring)>> \in Seq(Messages)
      BY <2>1
    <3>2. (<<Head(ring)>> \o Tail(ring)) \o (InRead \o net)
            = <<Head(ring)>> \o (Tail(ring) \o (InRead \o net))
      BY <2>1, <2>3, <3>1, Regrouped
    <3>3. <<Head(ring)>> \o Tail(ring) = ring
      BY <1>1, <2>1, HeadBeforeTail
    <3>4. ring \o (InRead \o net) \in Seq(Messages)
      BY <2>1, <2>3, Extended
    <3>5. <<>> \o (ring \o (InRead \o net)) = ring \o (InRead \o net)
      BY <3>4, EmptyBefore
    <3> QED
      BY <3>2, <3>3, <3>5
  <2> QED
    BY <1>1, <1>2, <1>4, <2>2, <2>4 DEF Coming
<1> QED
  BY <1>3, <1>4

LEMMA HandledComing ==
  ASSUME TypeOK, ChannelInv, dpc = "handle", dpc' # "handle", UNCHANGED <<reading, ring, net>>
  PROVE  /\ Coming # <<>> /\ Head(Coming) = dmsg /\ Coming' = Tail(Coming) /\ dmsg \in Messages
<1>1. /\ Hand = <<dmsg>> /\ dmsg \in Messages /\ Hand' = <<>>
  BY ComingParts DEF Hand
<1>2. InRead' = InRead /\ ring' = ring /\ net' = net /\ rpc' = rpc
  BY DEF InRead, End, reading
<1>3. CASE rpc \in {"close", "gone"}
  <2>1. Coming = <<dmsg>> /\ Coming' = <<>>
    BY <1>1, <1>2, <1>3 DEF Coming
  <2> QED
    BY <1>1, <2>1
<1>4. CASE rpc \notin {"close", "gone"}
  <2>1. Behind \in Seq(Messages) /\ Coming = <<dmsg>> \o Behind
    BY <1>1, <1>4, ComingParts
  <2>2. Coming' = <<>> \o Behind
    BY <1>1, <1>2, <1>4 DEF Coming, Behind
  <2>3. <<>> \o Behind = Behind
    BY <2>1, EmptyBefore
  <2> QED
    BY <1>1, <2>1, <2>2, <2>3, TailOfPreceded
<1> QED
  BY <1>3, <1>4

(* Whatever else dispatch or the main thread does. *)
LEMMA ElseComing ==
  ASSUME dpc # "handle", dpc' # "handle", UNCHANGED <<ring, net, rmsg>>,
         rpc' = rpc \/ (/\ rpc \notin {"close", "gone", "unpoll", "post"}
                        /\ rpc' \notin {"close", "gone", "unpoll", "post"})
         \/ (rpc = "close" /\ rpc' = "gone")
  PROVE  Coming' = Coming
BY DEF Coming, Hand, InRead, End

LEMMA SameComing ==
  ASSUME dpc' = dpc, dmsg' = dmsg, UNCHANGED <<ring, net, rmsg>>,
         rpc' = rpc \/ (/\ rpc \notin {"close", "gone", "unpoll", "post"}
                        /\ rpc' \notin {"close", "gone", "unpoll", "post"})
         \/ (rpc = "close" /\ rpc' = "gone")
  PROVE  Coming' = Coming
BY DEF Coming, Hand, InRead, End

(* What the service says comes last, if the reader is still there. *)
LEMMA SaidComing ==
  ASSUME TypeOK, ChannelInv, NEW reply \in Seq(Messages), net' = net \o reply,
         UNCHANGED <<reading, ring, dpc, dmsg>>
  PROVE  Coming' = Coming \o reply \/ Coming' = Coming
<1>1. Hand' = Hand /\ InRead' = InRead /\ ring' = ring /\ rpc' = rpc
  BY DEF Hand, InRead, End, reading
<1>2. CASE rpc \in {"close", "gone"}
  BY <1>1, <1>2 DEF Coming
<1>3. CASE rpc \notin {"close", "gone"}
  <2>1. /\ Hand \in Seq(Messages) /\ ring \in Seq(Messages) /\ InRead \in Seq(Messages)
        /\ net \in Seq(Messages) /\ InRead \o net \in Seq(Messages)
        /\ Behind \in Seq(Messages)
    BY <1>3, ComingParts
  <2>0. ASSUME NEW a \in Seq(Messages), NEW b \in Seq(Messages)
        PROVE  (a \o b) \o reply = a \o (b \o reply)
    OBVIOUS
  <2>2. (InRead \o net) \o reply = InRead \o (net \o reply)
    BY <2>0, <2>1, Zenon
  <2>3. (ring \o (InRead \o net)) \o reply = ring \o ((InRead \o net) \o reply)
    BY <2>0, <2>1, Zenon
  <2>4. (Hand \o Behind) \o reply = Hand \o (Behind \o reply)
    BY <2>0, <2>1, Zenon
  <2>5. Coming' = Hand \o (ring \o (InRead \o (net \o reply)))
    BY <1>1, <1>3 DEF Coming
  <2>6. Coming = Hand \o Behind
    BY <1>3 DEF Coming, Behind
  <2> QED
    BY <2>2, <2>3, <2>4, <2>5, <2>6 DEF Behind
<1> QED
  BY <1>2, <1>3
-----------------------------------------------------------------------------
(* The table of handlers. *)
Queries == Tags \cup {"stream:stream"}

LEMMA HandlerTyped ==
  ASSUME NEW t \in Tables, NEW i \in DOMAIN t, t[i] # NULL
  PROVE  /\ t[i] \in Handlers /\ t[i].query \in Queries /\ t[i].args \in 0 .. 2
         /\ t[i].permanent <=> t[i].query = "stream:error"
BY DEF Tables, Handlers, Queries

LEMMA HandlerMade ==
  ASSUME NEW q \in Queries, NEW p \in BOOLEAN, NEW a \in 0 .. 2
  PROVE  /\ [query |-> q, permanent |-> p, args |-> a] \in Handlers
         /\ [query |-> q, permanent |-> p, args |-> a] # NULL
BY HandshakeAssumption DEF Handlers, Queries

(* There is a first free slot, if the table is not full. *)
LessThan == {mn \in Nat \X Nat : mn[1] < mn[2]}

LEMMA LeastOf ==
  ASSUME NEW S \in SUBSET Nat, S # {}
  PROVE  \E x \in S : \A y \in S : x =< y
<1>1. IsWellFoundedOn(LessThan, Nat)
  BY NatLessThanWellFounded DEF OpToRel, LessThan
<1>2. PICK x \in S : \A y \in S : ~ (<<y, x>> \in LessThan)
  BY <1>1, WFMin, Zenon
<1>3. \A y \in S : ~ (y < x)
  BY <1>2 DEF LessThan
<1> QED
  BY <1>3

LEMMA FirstFreeIsFree ==
  ASSUME NEW t \in Tables, NEW n \in 0 .. 10, FilledTo(t, n)
  PROVE  /\ FirstFree(t) \in 1 .. n + 1 /\ FirstFree(t) \in DOMAIN t
         /\ t[FirstFree(t)] = NULL
<1> DEFINE S == {i \in DOMAIN t : t[i] = NULL}
<1>1. DOMAIN t = 1 .. QUERY_HDLR_MAX /\ n + 1 \in DOMAIN t
  BY HandshakeAssumption DEF Tables
<1>2. n + 1 \in S
  BY <1>1 DEF FilledTo
<1>3. S \in SUBSET Nat
  BY <1>1
<1>4. PICK x \in S : \A y \in S : x =< y
  BY <1>2, <1>3, LeastOf
<1>5. x \in DOMAIN t /\ t[x] = NULL /\ \A j \in 1 .. x - 1 : t[j] # NULL
  <2>1. x \in 1 .. QUERY_HDLR_MAX /\ t[x] = NULL
    BY <1>1
  <2>2. ASSUME NEW j \in 1 .. x - 1
        PROVE  t[j] # NULL
    <3>1. j \in 1 .. QUERY_HDLR_MAX /\ ~(x =< j)
      BY <2>1, HandshakeAssumption
    <3>2. j \notin S
      BY <1>4, <3>1
    <3> QED
      BY <1>1, <3>1, <3>2
  <2> QED
    BY <1>1, <2>1, <2>2
<1> DEFINE f == FirstFree(t)
<1>6. f \in DOMAIN t /\ t[f] = NULL /\ \A j \in 1 .. f - 1 : t[j] # NULL
  BY <1>5 DEF FirstFree
<1>7. f =< n + 1
  BY <1>1, <1>2, <1>6
<1> QED
  BY <1>1, <1>6, <1>7

(* Lacking queries. *)
LEMMA LacksSome ==
  ASSUME NEW t, NEW S, NEW T, Lacks(t, S), T \subseteq S
  PROVE  Lacks(t, T)
BY DEF Lacks

LEMMA LacksBoth ==
  ASSUME NEW t, NEW S, NEW T, NEW U, Lacks(t, S), Lacks(t, T), U \subseteq S \cup T
  PROVE  Lacks(t, U)
BY DEF Lacks

(* qh_register() fills one more slot, with a handler of that name. *)
LEMMA RegisteredTable ==
  ASSUME NEW t \in Tables, NEW n \in 0 .. 10, FilledTo(t, n),
         NEW q \in Queries, NEW p \in BOOLEAN, p <=> q = "stream:error", NEW a \in 0 .. 2
  PROVE  /\ Registered(t, q, p, a) \in Tables /\ FilledTo(Registered(t, q, p, a), n + 1)
         /\ \A S : Lacks(t, S) /\ q \notin S => Lacks(Registered(t, q, p, a), S)
         /\ Lacks(t, {q}) => Single(Registered(t, q, p, a), q, a)
         /\ \A o, b : o # q /\ Single(t, o, b) => Single(Registered(t, q, p, a), o, b)
<1> DEFINE f == FirstFree(t)
           h == [query |-> q, permanent |-> p, args |-> a]
           r == Registered(t, q, p, a)
<1>1. /\ f \in 1 .. n + 1 /\ f \in DOMAIN t /\ t[f] = NULL
  BY FirstFreeIsFree
<1>2. h \in Handlers /\ h # NULL /\ h.query = q /\ h.args = a /\ h.permanent = p
  BY HandlerMade
<1>3. r = [t EXCEPT ![f] = h]
  BY DEF Registered
<1>4. DOMAIN t = 1 .. QUERY_HDLR_MAX /\ t \in [1 .. QUERY_HDLR_MAX -> Handlers \cup {NULL}]
  BY DEF Tables
<1> HIDE DEF f, h, r
<1>5. /\ DOMAIN r = DOMAIN t /\ r[f] = h
      /\ \A i \in DOMAIN t : i # f => r[i] = t[i]
  BY <1>1, <1>3, <1>4
<1>6. r \in Tables
  <2>1. r \in [1 .. QUERY_HDLR_MAX -> Handlers \cup {NULL}]
    BY <1>2, <1>3, <1>4
  <2>2. \A i \in DOMAIN r : r[i] # NULL => (r[i].permanent <=> r[i].query = "stream:error")
    BY <1>2, <1>5, HandlerTyped
  <2> QED
    BY <2>1, <2>2 DEF Tables
<1>7. FilledTo(r, n + 1)
  BY <1>1, <1>4, <1>5 DEF FilledTo
<1>8. ASSUME NEW S, Lacks(t, S), q \notin S
      PROVE  Lacks(r, S)
  BY <1>2, <1>5, <1>8 DEF Lacks
<1>9. ASSUME Lacks(t, {q})
      PROVE  Single(r, q, a)
  BY <1>1, <1>2, <1>5, <1>9 DEF Lacks, Single
<1>10. ASSUME NEW o, NEW b, o # q, Single(t, o, b)
       PROVE  Single(r, o, b)
  <2>1. PICK i \in DOMAIN t : /\ t[i] # NULL /\ t[i].query = o /\ t[i].args = b
                              /\ \A j \in DOMAIN t : t[j] # NULL /\ t[j].query = o => j = i
    BY <1>10 DEF Single
  <2>2. i # f /\ r[i] = t[i]
    BY <1>1, <1>5, <2>1
  <2>3. ASSUME NEW j \in DOMAIN r, r[j] # NULL, r[j].query = o
        PROVE  j = i
    BY <1>2, <1>5, <1>10, <2>1, <2>3
  <2> QED
    BY <1>5, <2>1, <2>2, <2>3 DEF Single
<1> QED
  BY <1>6, <1>7, <1>8, <1>9, <1>10 DEF r

(* qh_remove() *)
LEMMA RemovedTable ==
  ASSUME NEW t \in Tables, NEW T
  PROVE  /\ Removed(t, T) \in Tables
         /\ \A n : FilledTo(t, n) => FilledTo(Removed(t, T), n)
         /\ Lacks(Removed(t, T), T)
         /\ \A S : Lacks(t, S) => Lacks(Removed(t, T), S)
         /\ \A o, b : o \notin T /\ Single(t, o, b) => Single(Removed(t, T), o, b)
<1> DEFINE r == Removed(t, T)
<1>1. /\ DOMAIN r = DOMAIN t /\ DOMAIN t = 1 .. QUERY_HDLR_MAX
      /\ \A i \in DOMAIN t :
           r[i] = IF t[i] # NULL /\ t[i].query \in T THEN NULL ELSE t[i]
  BY DEF Removed, Tables
<1>2. r \in Tables
  <2>1. r \in [1 .. QUERY_HDLR_MAX -> Handlers \cup {NULL}]
    BY DEF Removed, Tables
  <2> QED
    BY <1>1, <2>1, HandlerTyped DEF Tables
<1> HIDE DEF r
<1>3. \A n : FilledTo(t, n) => FilledTo(r, n)
  BY <1>1 DEF FilledTo
<1>4. Lacks(r, T) /\ \A S : Lacks(t, S) => Lacks(r, S)
  BY <1>1 DEF Lacks
<1>5. ASSUME NEW o, NEW b, o \notin T, Single(t, o, b)
      PROVE  Single(r, o, b)
  BY <1>1, <1>5 DEF Single
<1> QED
  BY <1>2, <1>3, <1>4, <1>5 DEF r

(* The handler that runs, which is the only one of its name, and is not kept. *)
LEMMA ConsumedTable ==
  ASSUME table \in Tables, NEW i \in DOMAIN table, NEW q \in Tags, NEW a,
         Handles(i, q), Single(table, q, a), q # "stream:error"
  PROVE  /\ Consumed(i) \in Tables /\ table[i].query = q /\ table[i].args = a
         /\ \A n : FilledTo(table, n) => FilledTo(Consumed(i), n)
         /\ Lacks(Consumed(i), {q})
         /\ \A S : Lacks(table, S) => Lacks(Consumed(i), S)
         /\ \A o, b : o # q /\ Single(table, o, b) => Single(Consumed(i), o, b)
<1>1. table[i] # NULL /\ table[i].query = q
  BY HandshakeAssumption DEF Handles, QueryOf
<1>2. \A j \in DOMAIN table : table[j] # NULL /\ table[j].query = q => j = i
  BY <1>1 DEF Single
<1>3. table[i].args = a
  BY <1>2 DEF Single
<1>4. ~table[i].permanent
  BY <1>1, HandlerTyped
<1> DEFINE r == Consumed(i)
<1>5. r = [table EXCEPT ![i] = NULL]
  BY <1>4 DEF Consumed
<1>6. table \in [1 .. QUERY_HDLR_MAX -> Handlers \cup {NULL}]
  BY DEF Tables
<1> HIDE DEF r
<1>7. /\ DOMAIN r = DOMAIN table /\ r[i] = NULL
      /\ \A j \in DOMAIN table : j # i => r[j] = table[j]
  BY <1>5, <1>6
<1>8. r \in Tables
  <2>1. r \in [1 .. QUERY_HDLR_MAX -> Handlers \cup {NULL}]
    BY <1>5, <1>6
  <2> QED
    BY <1>7, <2>1, HandlerTyped DEF Tables
<1>9. \A n : FilledTo(table, n) => FilledTo(r, n)
  BY <1>7 DEF FilledTo
<1>10. Lacks(r, {q}) /\ \A S : Lacks(table, S) => Lacks(r, S)
  BY <1>2, <1>7 DEF Lacks
<1>11. ASSUME NEW o, NEW b, o # q, Single(table, o, b)
       PROVE  Single(r, o, b)
  <2>1. PICK k \in DOMAIN table :
             /\ table[k] # NULL /\ table[k].query = o /\ table[k].args = b
             /\ \A j \in DOMAIN table : table[j] # NULL /\ table[j].query = o => j = k
    BY <1>11 DEF Single
  <2>2. k # i
    BY <1>1, <1>11, <2>1
  <2> QED
    BY <1>7, <2>1, <2>2 DEF Single
<1> QED
  BY <1>1, <1>3, <1>8, <1>9, <1>10, <1>11 DEF r

(* A query that the table lacks has no handler that runs. *)
LEMMA LackedIsNotHandled ==
  ASSUME table \in Tables, NEW S, Lacks(table, S), NEW q \in Tags, q \in S,
         NEW i \in DOMAIN table
  PROVE  ~Handles(i, q)
BY HandshakeAssumption DEF Handles, QueryOf, Lacks

(* The handlers of a stream. *)
LEMMA StreamTableFilled ==
  ASSUME NEW t \in Tables, NEW n \in 0 .. 6, FilledTo(t, n), NEW a \in 0 .. 2,
         Lacks(t, {"?xml", "stream:features"})
  PROVE  /\ StreamTable(t, a) \in Tables /\ FilledTo(StreamTable(t, a), n + 4)
         /\ Single(StreamTable(t, a), "?xml", a)
         /\ Single(StreamTable(t, a), "stream:features", a)
         /\ \A S : Lacks(t, S) /\ S \subseteq {"proceed", "success", "failure"}
                     => Lacks(StreamTable(t, a), S)
<1> DEFINE t1 == Registered(t, "stream:stream", FALSE, a)
           t2 == Registered(t1, "?xml", FALSE, a)
           t3 == Registered(t2, "stream:features", FALSE, a)
           t4 == Registered(t3, "stream:error", TRUE, 0)
<1>0. {"stream:stream", "?xml", "stream:features", "stream:error"} \subseteq Queries /\ 0 \in 0 .. 2
  BY DEF Queries, Tags
<1>1. /\ t1 \in Tables /\ FilledTo(t1, n + 1)
      /\ \A S : Lacks(t, S) /\ "stream:stream" \notin S => Lacks(t1, S)
  <2>1. n \in 0 .. 10 /\ "stream:stream" \in Queries /\ "stream:stream" # "stream:error"
    BY <1>0
  <2> QED
    BY <2>1, RegisteredTable
<1>2. Lacks(t1, {"?xml", "stream:features"})
  BY <1>1
<1>3. /\ Lacks(t1, {"?xml"}) /\ Lacks(t1, {"stream:features"})
  BY <1>2, LacksSome
<1>4. /\ t2 \in Tables /\ FilledTo(t2, n + 2)
      /\ \A S : Lacks(t1, S) /\ "?xml" \notin S => Lacks(t2, S)
      /\ Single(t2, "?xml", a)
  <2> HIDE DEF t1
  <2>1. n + 1 \in 0 .. 10 /\ (n + 1) + 1 = n + 2
    OBVIOUS
  <2> QED
    BY <1>0, <1>1, <1>3, <2>1, RegisteredTable
<1>5. /\ t3 \in Tables /\ FilledTo(t3, n + 3)
      /\ \A S : Lacks(t2, S) /\ "stream:features" \notin S => Lacks(t3, S)
      /\ Single(t3, "stream:features", a) /\ Single(t3, "?xml", a)
  <2>1. Lacks(t2, {"stream:features"})
    BY <1>3, <1>4
  <2> HIDE DEF t2
  <2>2. n + 2 \in 0 .. 10 /\ (n + 2) + 1 = n + 3
    OBVIOUS
  <2> QED
    BY <1>0, <1>4, <2>1, <2>2, RegisteredTable
<1>6. /\ t4 \in Tables /\ FilledTo(t4, n + 4)
      /\ \A S : Lacks(t3, S) /\ "stream:error" \notin S => Lacks(t4, S)
      /\ Single(t4, "stream:features", a) /\ Single(t4, "?xml", a)
  <2> HIDE DEF t3
  <2>1. n + 3 \in 0 .. 10 /\ (n + 3) + 1 = n + 4
    OBVIOUS
  <2> QED
    BY <1>0, <1>5, <2>1, RegisteredTable
<1>7. StreamTable(t, a) = t4
  BY DEF StreamTable
<1> HIDE DEF t1, t2, t3, t4
<1>8. ASSUME NEW S, Lacks(t, S), S \subseteq {"proceed", "success", "failure"}
      PROVE  Lacks(t4, S)
  <2>1. "stream:stream" \notin S /\ "?xml" \notin S /\ "stream:features" \notin S
        /\ "stream:error" \notin S
    BY <1>8
  <2> QED
    BY <1>1, <1>4, <1>5, <1>6, <1>8, <2>1
<1> QED
  BY <1>6, <1>7, <1>8
-----------------------------------------------------------------------------
(* The service's words, and its last one. *)
Reaches(c, s, d) == c = d \/ (s = "closed" /\ c = Append(d, Error))

LEMMA FollowsReaches == ASSUME NEW d PROVE Follows(d) <=> Reaches(Coming, server, d)
BY DEF Follows, Reaches

LEMMA SameSequence ==
  ASSUME NEW S, NEW a \in Seq(S), NEW b \in Seq(S), Len(a) = Len(b),
         \A i \in 1 .. Len(a) : a[i] = b[i]
  PROVE  a = b
OBVIOUS

LEMMA TailOfAppended ==
  ASSUME NEW S, NEW d \in Seq(S), d # <<>>, NEW e \in S
  PROVE  /\ Append(d, e) # <<>> /\ Head(Append(d, e)) = Head(d)
         /\ Tail(Append(d, e)) = Append(Tail(d), e)
<1>1. Append(d, e) # <<>> /\ Head(Append(d, e)) = Head(d)
  OBVIOUS
<1>2. /\ Tail(Append(d, e)) \in Seq(S) /\ Append(Tail(d), e) \in Seq(S)
      /\ Len(Tail(Append(d, e))) = Len(Append(Tail(d), e))
      /\ \A i \in 1 .. Len(Tail(Append(d, e))) : Tail(Append(d, e))[i] = Append(Tail(d), e)[i]
  OBVIOUS
<1> QED
  BY <1>1, <1>2, SameSequence

LEMMA TwoInOrder ==
  ASSUME NEW S, NEW x \in S, NEW y \in S
  PROVE  /\ <<x, y>> \in Seq(S) /\ <<x, y>> # <<>> /\ Head(<<x, y>>) = x
         /\ Tail(<<x, y>>) = <<y>>
OBVIOUS

LEMMA LastAlone ==
  ASSUME NEW S, NEW e \in S
  PROVE  /\ Append(<<>>, e) # <<>> /\ Head(Append(<<>>, e)) = e
         /\ Tail(Append(<<>>, e)) = <<>>
OBVIOUS

LEMMA LastOfOne ==
  ASSUME NEW S, NEW x \in S, NEW e \in S
  PROVE  /\ Append(<<x>>, e) # <<>> /\ Head(Append(<<x>>, e)) = x
         /\ Tail(Append(<<x>>, e)) = Append(<<>>, e)
         /\ <<x>> # <<>> /\ Head(<<x>>) = x /\ Tail(<<x>>) = <<>>
<1>1. <<x>> \in Seq(S) /\ <<x>> # <<>> /\ Head(<<x>>) = x /\ Tail(<<x>>) = <<>>
  OBVIOUS
<1> DEFINE d == <<x>>
<1>2. d \in Seq(S) /\ d # <<>> /\ Head(d) = x /\ Tail(d) = <<>>
  BY <1>1
<1> HIDE DEF d
<1>3. /\ Append(d, e) # <<>> /\ Head(Append(d, e)) = Head(d)
      /\ Tail(Append(d, e)) = Append(Tail(d), e)
  BY <1>2, TailOfAppended
<1>4. /\ Append(d, e) # <<>> /\ Head(Append(d, e)) = x /\ Tail(Append(d, e)) = Append(<<>>, e)
  BY <1>2, <1>3
<1> QED
  BY <1>1, <1>4 DEF d

LEMMA LastOfTwo ==
  ASSUME NEW S, NEW x \in S, NEW y \in S, NEW e \in S
  PROVE  /\ Append(<<x, y>>, e) # <<>> /\ Head(Append(<<x, y>>, e)) = x
         /\ Tail(Append(<<x, y>>, e)) = Append(<<y>>, e)
         /\ <<x, y>> # <<>> /\ Head(<<x, y>>) = x /\ Tail(<<x, y>>) = <<y>>
<1>1. <<x, y>> \in Seq(S) /\ <<x, y>> # <<>> /\ Head(<<x, y>>) = x /\ Tail(<<x, y>>) = <<y>>
  BY TwoInOrder
<1> DEFINE d == <<x, y>>
           t == <<y>>
<1>2. d \in Seq(S) /\ d # <<>> /\ Head(d) = x /\ Tail(d) = t
  BY <1>1
<1> HIDE DEF d, t
<1>3. /\ Append(d, e) # <<>> /\ Head(Append(d, e)) = Head(d)
      /\ Tail(Append(d, e)) = Append(Tail(d), e)
  BY <1>2, TailOfAppended
<1>4. Append(d, e) # <<>> /\ Head(Append(d, e)) = x /\ Tail(Append(d, e)) = Append(t, e)
  BY <1>2, <1>3
<1> QED
  BY <1>1, <1>4 DEF d, t

LEMMA ReachesNothing ==
  ASSUME NEW c, NEW s, Reaches(c, s, <<>>), c # <<>>
  PROVE  Head(c) = Error /\ Reaches(Tail(c), s, <<>>) /\ s = "closed"
<1>1. PICK S : Error \in S
  <2>1. Error \in {Error}
    OBVIOUS
  <2> QED
    BY <2>1
<1> QED
  BY <1>1, LastAlone DEF Reaches

LEMMA ReachesOne ==
  ASSUME NEW c, NEW s, NEW a, Reaches(c, s, <<a>>)
  PROVE  c # <<>> /\ Head(c) = a /\ Reaches(Tail(c), s, <<>>)
<1>1. PICK S : a \in S /\ Error \in S
  <2>1. a \in {a, Error} /\ Error \in {a, Error}
    OBVIOUS
  <2> QED
    BY <2>1
<1> QED
  BY <1>1, LastOfOne DEF Reaches

LEMMA ReachesTwo ==
  ASSUME NEW c, NEW s, NEW a, NEW b, Reaches(c, s, <<a, b>>)
  PROVE  c # <<>> /\ Head(c) = a /\ Reaches(Tail(c), s, <<b>>)
<1>1. PICK S : a \in S /\ b \in S /\ Error \in S
  <2>1. a \in {a, b, Error} /\ b \in {a, b, Error} /\ Error \in {a, b, Error}
    OBVIOUS
  <2> QED
    BY <2>1
<1>2. /\ Append(<<a, b>>, Error) # <<>> /\ Head(Append(<<a, b>>, Error)) = a
      /\ Tail(Append(<<a, b>>, Error)) = Append(<<b>>, Error)
  BY <1>1, LastOfTwo
<1>3. <<a, b>> # <<>> /\ Head(<<a, b>>) = a /\ Tail(<<a, b>>) = <<b>>
  BY <1>1, LastOfTwo
<1>4. CASE c = <<a, b>>
  BY <1>3, <1>4 DEF Reaches
<1>5. CASE s = "closed" /\ c = Append(<<a, b>>, Error)
  BY <1>2, <1>5 DEF Reaches
<1> QED
  BY <1>4, <1>5 DEF Reaches

LEMMA ErrorIsMessage == Error \in Messages /\ Error.tag = "stream:error"
BY StanzasAreMessages DEF Error, Tags

(* Everything of the login stays as it is, while dispatch goes on or not. *)
SameLogin == UNCHANGED <<table, streams, live, out, auths, server, tlsOffered>>

LEMMA DialogueKept ==
  ASSUME DialogueInv, SameLogin, Coming' = Coming,
         \/ dpc' = dpc /\ dmsg' = dmsg
         \/ /\ dpc \notin {"starttls", "wait", "gone"} /\ dpc' \notin {"starttls", "wait"}
            /\ dpc \notin {"lock", "tls"} => dpc' \notin {"lock", "tls"}
         \/ dpc \in {"starttls", "wait"} /\ dpc' \in {"wait", "gone"} /\ dmsg' = dmsg
  PROVE  DialogueInv'
<1>1. \A d : Follows(d)' <=> Follows(d)
  BY DEF Follows, SameLogin
<1>2. \A n : Late(n)' <=> Late(n)
  BY DEF Late, SameLogin
<1>3. Offered' = Offered
  BY DEF Offered, SameLogin
<1>4. Plain' <=> Plain
  BY DEF Plain, SameLogin
<1>5. Opened => Opened'
  BY <1>1, <1>3 DEF Opened, SameLogin, Securing
<1>6. Asking => Asking' \/ Granted'
  BY <1>1, <1>4 DEF Asking, SameLogin
<1>7. Asked => Asked'
  BY <1>1, <1>4 DEF Asked, SameLogin, Securing
<1>8. Granted => Granted'
  BY <1>1, <1>4 DEF Granted, SameLogin
<1>9. Sent => Sent'
  BY DEF Sent, SameLogin, Securing
<1>10. Authenticating => Authenticating'
  BY <1>1, <1>9 DEF Authenticating, SameLogin
<1>11. Binding => Binding'
  BY <1>2, <1>9 DEF Binding, SameLogin
<1> QED
  BY <1>5, <1>6, <1>7, <1>8, <1>10, <1>11 DEF DialogueInv

(* What was read and not handled is lost. *)
LEMMA DialogueCut ==
  ASSUME DialogueInv, SameLogin, dpc' = dpc, dmsg' = dmsg,
         Coming' = <<>> \/ (Coming # <<>> /\ Coming' = <<Head(Coming)>>)
  PROVE  DialogueInv'
<1>0. /\ Coming \in Seq(Messages) /\ Coming' \in Seq(Messages)
      /\ Coming' = <<>> \/ (Coming # <<>> /\ Coming' = <<Head(Coming)>>)
  <2>1. Coming \in Seq(Messages)
    BY DEF DialogueInv
  <2>2. Coming # <<>> => Head(Coming) \in Messages
    BY <2>1
  <2> QED
    BY <2>1, <2>2, Alone, Nothing
<1>1. Follows(<<>>) => Follows(<<>>)'
  BY <1>0, ReachesNothing DEF Follows, Reaches, SameLogin
<1>2. ASSUME NEW a, Follows(<<a>>)
      PROVE  Coming' = <<>> \/ Coming' = <<a>>
  BY <1>0, <1>2, ReachesOne, FollowsReaches
<1>3. ASSUME NEW a, NEW b, Follows(<<a, b>>)
      PROVE  Coming' = <<>> \/ Coming' = <<a>>
  BY <1>0, <1>3, ReachesTwo, FollowsReaches
<1>4. \A d : Coming' = d => Follows(d)'
  BY DEF Follows
<1>5. \A n \in Nat : Late(n) => Late(n)'
  <2>1. Len(Coming') =< Len(Coming)
    BY <1>0
  <2> QED
    BY <1>0, <2>1 DEF Late, SameLogin
<1>6. Offered' = Offered /\ (Plain' <=> Plain) /\ (Sent' <=> Sent)
  BY DEF Offered, Plain, Sent, SameLogin
<1>7. Opened => Opened'
  <2> SUFFICES ASSUME Opened PROVE Opened'
    OBVIOUS
  <2>1. \/ Follows(<<>>)' \/ Follows(<<Header(Offered)>>)' \/ Follows(<<Header(NULL)>>)'
        \/ ~ \/ Follows(<<>>) \/ Follows(<<Header(Offered)>>) \/ Follows(<<Header(NULL)>>)
             \/ Follows(<<Header(NULL), Mechanism(Offered)>>)
    BY <1>1, <1>2, <1>3, <1>4, <1>6
  <2>2. \/ Follows(<<>>)' \/ Follows(<<Mechanism(Offered)>>)'
        \/ ~ (Follows(<<>>) \/ Follows(<<Mechanism(Offered)>>))
    BY <1>1, <1>2, <1>4, <1>6
  <2> QED
    BY <1>1, <1>6, <2>1, <2>2 DEF Opened, SameLogin
<1>8. Asking => Asking'
  BY <1>1, <1>6 DEF Asking, SameLogin
<1>9. Asked => Asked'
  BY <1>1, <1>2, <1>4, <1>6 DEF Asked, SameLogin
<1>10. Granted => Granted'
  BY <1>1, <1>6 DEF Granted, SameLogin
<1>11. Authenticating => Authenticating'
  BY <1>1, <1>2, <1>4, <1>6 DEF Authenticating, SameLogin
<1>12. Binding => Binding'
  BY <1>5, <1>6 DEF Binding, SameLogin
<1> QED
  BY <1>0, <1>7, <1>8, <1>9, <1>10, <1>11, <1>12 DEF DialogueInv
-----------------------------------------------------------------------------
(* What the service replies, and to what. *)
LEMMA OfferIsMechanism == Offer \in Mechanisms
BY DEF Offer, Mechanisms

LEMMA RepliesTyped ==
  ASSUME NEW reply \in Replies
  PROVE  /\ reply \in Seq(Messages) /\ reply # <<>> /\ Head(reply) = reply[1]
         /\ Len(reply) =< (IF Head(out) = "open" THEN 2 ELSE 1)
<1> DEFINE X == Stanza("?xml", Offer)
           N == Stanza("?xml", NULL)
           F == Stanza("stream:features", Offer)
<1>1. /\ X \in Messages /\ N \in Messages /\ F \in Messages
      /\ Stanza("proceed", NULL) \in Messages /\ Stanza("success", NULL) \in Messages
      /\ Stanza("failure", NULL) \in Messages /\ Stanza("iq", NULL) \in Messages
  BY OfferIsMechanism, StanzasAreMessages DEF Tags
<1> HIDE DEF X, N, F
<1>2. CASE Head(out) = "open"
  <2>1. reply = <<X>> \/ reply = <<N, F>>
    BY <1>2 DEF Replies, X, N, F
  <2>2. CASE reply = <<X>>
    BY <1>1, <1>2, <2>2
  <2>3. CASE reply = <<N, F>>
    <3>1. reply \in Seq(Messages) /\ reply # <<>> /\ Head(reply) = N
      BY <1>1, <2>3, TwoInOrder
    <3>2. reply[1] = N /\ Len(reply) = 2
      BY <2>3
    <3> QED
      BY <1>2, <3>1, <3>2
  <2> QED
    BY <2>1, <2>2, <2>3
<1>3. CASE Head(out) # "open"
  <2>1. PICK m \in Messages : reply = <<m>>
    BY <1>1, <1>3 DEF Replies
  <2> QED
    BY <1>3, <2>1
<1> QED
  BY <1>2, <1>3

LEMMA RepliesOf ==
  ASSUME NEW reply \in Replies
  PROVE  /\ Head(out) = "open" =>
              reply = <<Header(Offer)>> \/ reply = <<Header(NULL), Mechanism(Offer)>>
         /\ Head(out) = "starttls" => reply = <<Stanza("proceed", NULL)>>
         /\ Head(out) = "auth" =>
              reply = <<Stanza("success", NULL)>> \/ reply = <<Stanza("failure", NULL)>>
         /\ Head(out) \in {"open", "starttls"} => reply[1].tag # "success"
         /\ Head(out) = "bind" => reply[1].tag # "success"
<1>1. CASE Head(out) = "open"
  <2>1. reply = <<Header(Offer)>> \/ reply = <<Header(NULL), Mechanism(Offer)>>
    BY <1>1 DEF Replies, Header, Mechanism
  <2>2. reply[1] = Header(Offer) \/ reply[1] = Header(NULL)
    BY <2>1
  <2>3. reply[1].tag = "?xml"
    BY <2>2 DEF Header, Stanza
  <2> QED
    BY <1>1, <2>1, <2>3
<1>2. CASE Head(out) = "starttls"
  BY <1>2 DEF Replies, Stanza
<1>3. CASE Head(out) = "auth"
  BY <1>3 DEF Replies
<1>4. CASE Head(out) = "bind"
  BY <1>4 DEF Replies, Stanza
<1> QED
  BY <1>1, <1>2, <1>3, <1>4

LEMMA ServerRepliesDialogue ==
  ASSUME TypeOK, ChannelInv, DialogueInv, ServerReplies
  PROVE  DialogueInv'
<1>1. PICK reply \in Replies :
        /\ net' = net \o reply
        /\ server' = CASE Head(out) = "starttls" -> "tls"
                       [] reply[1].tag = "success" -> "auth"
                       [] OTHER -> server
  BY DEF ServerReplies
<1>2. /\ server # "closed" /\ out # <<>> /\ out' = Tail(out)
      /\ UNCHANGED <<table, streams, live, auths, tlsOffered, dpc, dmsg, ring, reading>>
  BY DEF ServerReplies, reading
<1>3. /\ reply \in Seq(Messages) /\ Len(reply) =< (IF Head(out) = "open" THEN 2 ELSE 1)
  BY RepliesTyped
<1>4. Coming' = Coming \o reply \/ Coming' = Coming
  BY <1>1, <1>2, <1>3, SaidComing
<1>5. Coming \in Seq(Messages) /\ Coming' \in Seq(Messages)
  <2>1. Coming \in Seq(Messages)
    BY DEF DialogueInv
  <2>2. Coming \o reply \in Seq(Messages)
    BY <1>3, <2>1, Extended
  <2> QED
    BY <1>4, <2>1, <2>2
<1>6. Follows(<<>>) => Coming' = reply \/ Coming' = <<>>
  <2>1. <<>> \o reply = reply
    BY <1>3, EmptyBefore
  <2> QED
    BY <1>2, <1>4, <2>1 DEF Follows
<1>7. \A d : Coming' = d => Follows(d)'
  BY DEF Follows
<1>8. CASE Opened
  <2>1. out = <<"open">> /\ Follows(<<>>)
    BY <1>2, <1>8 DEF Opened
  <2>2. Head(out) = "open" /\ out' = <<>>
    BY <1>2, <2>1
  <2>3. server' = server /\ Offer = Offered /\ Offered' = Offered
    BY <1>1, <1>2, <1>8, <2>2, RepliesOf DEF Opened, Offer, Offered
  <2>4. \/ Coming' = <<>> \/ Coming' = <<Header(Offered)>>
        \/ Coming' = <<Header(NULL), Mechanism(Offered)>>
    BY <1>6, <2>1, <2>2, <2>3, RepliesOf
  <2>5. \/ Follows(<<>>)' \/ Follows(<<Header(Offered)>>)'
        \/ Follows(<<Header(NULL), Mechanism(Offered)>>)'
    BY <2>3, <2>4 DEF Follows, Header, Mechanism
  <2>6. Opened'
    BY <1>2, <1>8, <2>1, <2>2, <2>3, <2>5 DEF Opened
  <2> QED
    BY <1>5, <2>6 DEF DialogueInv
<1>9. CASE Asked
  <2>1. out = <<"starttls">> /\ Follows(<<>>)
    BY <1>2, <1>9 DEF Asked
  <2>2. Head(out) = "starttls" /\ out' = <<>>
    BY <1>2, <2>1
  <2>3. server' = "tls"
    BY <1>1, <2>2, RepliesOf
  <2>4. Coming' = <<>> \/ Coming' = <<Stanza("proceed", NULL)>>
    BY <1>6, <2>1, <2>2, RepliesOf
  <2>5. Follows(<<>>)' \/ Follows(<<Stanza("proceed", NULL)>>)'
    BY <1>7, <2>4
  <2>6. Asked'
    BY <1>2, <1>9, <2>2, <2>3, <2>5 DEF Asked, Plain
  <2> QED
    BY <1>5, <2>6 DEF DialogueInv
<1>10. CASE Authenticating
  <2>1. out = <<"auth">> /\ Follows(<<>>)
    BY <1>2, <1>10 DEF Authenticating
  <2>2. Head(out) = "auth" /\ out' = <<>>
    BY <1>2, <2>1
  <2>3. \/ Coming' = <<>> \/ Coming' = <<Stanza("success", NULL)>>
        \/ Coming' = <<Stanza("failure", NULL)>>
    BY <1>6, <2>1, <2>2, RepliesOf
  <2>4. \/ Follows(<<>>)' \/ Follows(<<Stanza("success", NULL)>>)'
        \/ Follows(<<Stanza("failure", NULL)>>)'
    BY <1>7, <2>3
  <2>5. Authenticating'
    BY <1>2, <1>10, <2>2, <2>4 DEF Authenticating, Sent
  <2> QED
    BY <1>5, <2>5 DEF DialogueInv
<1>11. CASE Binding
  <2>1. \/ out = <<"open", "bind">> /\ Len(Coming) =< 0
        \/ out = <<"bind">> /\ Len(Coming) =< 2
    BY <1>2, <1>11 DEF Binding, Late
  <2>2. Len(Coming') =< Len(Coming) + Len(reply)
    BY <1>3, <1>4, <1>5, Extended
  <2>3. \/ out' = <<"bind">> /\ Len(Coming') =< 2
        \/ out' = <<>> /\ Len(Coming') =< 3
    <3>1. CASE out = <<"open", "bind">> /\ Len(Coming) =< 0
      <4>1. out' = <<"bind">> /\ Len(reply) =< 2 /\ Len(reply) \in Nat
        BY <1>2, <1>3, <3>1
      <4> QED
        BY <1>5, <2>2, <3>1, <4>1
    <3>2. CASE out = <<"bind">> /\ Len(Coming) =< 2
      <4>1. out' = <<>> /\ Len(reply) =< 1 /\ Len(reply) \in Nat
        BY <1>2, <1>3, <3>2
      <4> QED
        BY <1>5, <2>2, <3>2, <4>1
    <3> QED
      BY <2>1, <3>1, <3>2
  <2>4. \/ out' = <<"bind">> /\ Late(2)'
        \/ out' = <<>> /\ Late(3)'
    BY <1>5, <2>3 DEF Late
  <2>5. Binding'
    BY <1>2, <1>11, <2>4 DEF Binding, Sent
  <2> QED
    BY <1>5, <2>5 DEF DialogueInv
<1>12. ~Asking /\ ~Granted
  BY <1>2 DEF Asking, Granted
<1> QED
  BY <1>8, <1>9, <1>10, <1>11, <1>12 DEF DialogueInv

LEMMA ServerClosesDialogue ==
  ASSUME TypeOK, ChannelInv, DialogueInv, ServerCloses
  PROVE  DialogueInv'
<1>1. PICK last \in {<<>>, <<Error>>} : net' = net \o last
  BY DEF ServerCloses, Error
<1>2. /\ server # "closed" /\ server' = "closed"
      /\ UNCHANGED <<table, streams, live, out, auths, tlsOffered, dpc, dmsg, ring, reading>>
  BY DEF ServerCloses, login, reading
<1>3. last \in Seq(Messages) /\ Len(last) =< 1
  <2>1. <<Error>> \in Seq(Messages) /\ Len(<<Error>>) = 1
    BY ErrorIsMessage
  <2>2. CASE last = <<>>
    BY <2>2
  <2>3. CASE last = <<Error>>
    BY <2>1, <2>3
  <2> QED
    BY <2>2, <2>3
<1>4. Coming' = Coming \o last \/ Coming' = Coming
  BY <1>1, <1>2, <1>3, SaidComing
<1>5. Coming \in Seq(Messages) /\ Coming' \in Seq(Messages) /\ Len(Coming') =< Len(Coming) + 1
  <2>1. Coming \in Seq(Messages)
    BY DEF DialogueInv
  <2>2. Coming \o last \in Seq(Messages) /\ Len(Coming \o last) = Len(Coming) + Len(last)
    BY <1>3, <2>1, Extended
  <2>3. CASE Coming' = Coming \o last
    BY <1>3, <2>1, <2>2, <2>3
  <2>4. CASE Coming' = Coming
    BY <2>1, <2>4
  <2> QED
    BY <1>4, <2>3, <2>4
<1>6. ASSUME NEW d, Follows(d)
      PROVE  Follows(d)'
  <2>1. Coming = d
    BY <1>2, <1>6 DEF Follows
  <2>2. Coming' = Coming \/ Coming' = Append(Coming, Error)
    <3>1. Coming \o <<>> = Coming /\ Coming \o <<Error>> = Append(Coming, Error)
      BY <1>5, ErrorIsMessage
    <3> QED
      BY <1>4, <3>1
  <2> QED
    BY <1>2, <2>1, <2>2 DEF Follows
<1>7. \A n \in Nat : Late(n) => Late(n)'
  BY <1>2, <1>5 DEF Late
<1>8. Offered' = Offered /\ (Plain' <=> Plain) /\ (Sent' <=> Sent)
  BY <1>2 DEF Offered, Plain, Sent
<1>9. Opened => Opened'
  BY <1>2, <1>6, <1>8 DEF Opened
<1>10. Asking => Asking'
  BY <1>2, <1>6, <1>8 DEF Asking
<1>11. Asked => Asked'
  BY <1>2, <1>6, <1>8 DEF Asked
<1>12. Granted => Granted'
  BY <1>2, <1>6, <1>8 DEF Granted
<1>13. Authenticating => Authenticating'
  BY <1>2, <1>6, <1>8 DEF Authenticating
<1>14. Binding => Binding'
  BY <1>2, <1>7, <1>8 DEF Binding
<1> QED
  BY <1>5, <1>9, <1>10, <1>11, <1>12, <1>13, <1>14 DEF DialogueInv
-----------------------------------------------------------------------------
(* Which handler runs. *)
LEMMA SingleIsHandled ==
  ASSUME table \in Tables, NEW q \in Tags, NEW a, Single(table, q, a)
  PROVE  \E i \in DOMAIN table : Handles(i, q)
<1>1. PICK i \in DOMAIN table :
           /\ table[i] # NULL /\ table[i].query = q
           /\ \A j \in DOMAIN table : table[j] # NULL /\ table[j].query = q => j = i
  BY DEF Single
<1>2. DOMAIN table = 1 .. QUERY_HDLR_MAX
  BY DEF Tables
<1>3. ASSUME NEW j \in 1 .. i - 1
      PROVE  QueryOf(j) # q
  <2>1. j \in DOMAIN table /\ j # i
    BY <1>1, <1>2, HandshakeAssumption
  <2> QED
    BY <1>1, <2>1, HandshakeAssumption DEF QueryOf
<1> QED
  BY <1>1, <1>3 DEF Handles, QueryOf

LEMMA HandlesIts ==
  ASSUME table \in Tables, NEW q \in Tags, NEW i \in DOMAIN table, Handles(i, q)
  PROVE  table[i] # NULL /\ table[i].query = q
BY HandshakeAssumption DEF Handles, QueryOf

(* The handlers a message can go to, by its tag. *)
Runs(i) == \/ HandleHeader(i) \/ HandleFeatures(i) \/ HandleProceed(i)
           \/ HandleSuccess(i) \/ HandleFailure(i) \/ HandleError(i)

LEMMA HandleCases ==
  ASSUME TypeOK, ChannelInv, Handle
  PROVE  /\ Coming # <<>> /\ Head(Coming) = dmsg /\ Coming' = Tail(Coming)
         /\ dmsg \in Messages /\ dmsg.tag \in Tags /\ dmsg' = dmsg
         /\ dpc = "handle" /\ dpc' \in {"top", "starttls", "lock"}
         /\ UNCHANGED <<streams, server, tlsOffered>>
         /\ \/ \E i \in DOMAIN table : Handles(i, dmsg.tag) /\ Runs(i)
            \/ HandleOther
<1>1. /\ dpc = "handle" /\ dmsg' = dmsg
      /\ UNCHANGED <<streams, server, tlsOffered, reading, ring, net>>
      /\ \/ \E i \in DOMAIN table : Handles(i, dmsg.tag) /\ Runs(i)
         \/ HandleOther
  BY DEF Handle, Runs
<1>2. dpc' \in {"top", "starttls", "lock"}
  <2>1. ASSUME NEW i \in DOMAIN table, Runs(i)
        PROVE  dpc' \in {"top", "starttls", "lock"}
    BY <2>1 DEF Runs, HandleHeader, HandleFeatures, HandleProceed, HandleSuccess,
                HandleFailure, HandleError, Features, Sasl
  <2> QED
    BY <1>1, <2>1 DEF HandleOther
<1>3. Coming # <<>> /\ Head(Coming) = dmsg /\ Coming' = Tail(Coming) /\ dmsg \in Messages
  BY <1>1, <1>2, HandledComing
<1>4. dmsg.tag \in Tags
  BY <1>3 DEF Messages
<1> QED
  BY <1>1, <1>2, <1>3, <1>4

LEMMA HandleOfSingle ==
  ASSUME TypeOK, ChannelInv, Handle, NEW a, Single(table, dmsg.tag, a), dmsg.tag # "stream:error"
  PROVE  \E i \in DOMAIN table :
           /\ Handles(i, dmsg.tag) /\ Runs(i) /\ table[i].query = dmsg.tag /\ table[i].args = a
           /\ Consumed(i) \in Tables
           /\ \A n : FilledTo(table, n) => FilledTo(Consumed(i), n)
           /\ Lacks(Consumed(i), {dmsg.tag})
           /\ \A S : Lacks(table, S) => Lacks(Consumed(i), S)
           /\ \A o, b : o # dmsg.tag /\ Single(table, o, b) => Single(Consumed(i), o, b)
<1>1. table \in Tables
  BY DEF TypeOK
<1>2. dmsg.tag \in Tags
  BY HandleCases
<1>3. \E i \in DOMAIN table : Handles(i, dmsg.tag)
  BY <1>1, <1>2, SingleIsHandled
<1>4. PICK i \in DOMAIN table : Handles(i, dmsg.tag) /\ Runs(i)
  BY <1>3, HandleCases DEF HandleOther
<1> QED
  BY <1>1, <1>2, <1>4, ConsumedTable

(* The service's last word, and what nobody answers to. *)
LEMMA HandleOfError ==
  ASSUME TypeOK, ChannelInv, Handle, dmsg.tag = "stream:error"
  PROVE  UNCHANGED <<table, out, auths, live>> /\ dpc' = "top"
<1>1. ASSUME NEW i \in DOMAIN table, Handles(i, dmsg.tag), Runs(i)
      PROVE  HandleError(i)
  <2>1. table[i].query = "stream:error"
    BY <1>1, HandlesIts, HandleCases DEF TypeOK
  <2> QED
    BY <1>1, <2>1 DEF Runs, HandleHeader, HandleFeatures, HandleProceed, HandleSuccess,
                      HandleFailure
<1> QED
  BY <1>1, HandleCases DEF HandleError, HandleOther

(* Features are answered with a request for TLS, or with the credentials. *)
LEMMA FeaturesDialogue ==
  ASSUME TypeOK, Opened, out = <<>>, NEW t \in Tables,
         FilledTo(t, IF streams = 1 THEN 4 ELSE 9),
         Lacks(t, {"proceed", "success", "failure"}), Lacks(t, {"?xml"}),
         dmsg.tag = "?xml" \/ (dmsg.tag = "stream:features" /\ Lacks(t, {"stream:features"})),
         dmsg.features = Offered, Features(t, streams),
         dmsg' = dmsg, UNCHANGED <<streams, server, tlsOffered>>,
         Coming' \in Seq(Messages), Follows(<<>>)'
  PROVE  /\ DialogueInv' /\ table' \in Tables /\ live' \subseteq 1 .. 2 /\ auths' \in Seq(Stages)
         /\ out' \in {out, <<"auth">>}
<1>0. /\ streams \in 1 .. 2 /\ live = {streams} /\ auths = <<>> /\ server \in Stages
      /\ {"proceed", "success", "failure"} \subseteq Queries /\ 0 \in 0 .. 2
  BY DEF TypeOK, Opened, Queries, Tags
<1>1. CASE UseTls /\ Offered = "starttls"
  <2>1. streams = 1
    BY <1>0, <1>1 DEF Offered
  <2>2. /\ table' = Registered(t, "proceed", FALSE, 0) /\ dpc' = "starttls"
        /\ UNCHANGED <<out, auths, live>>
    BY <1>1 DEF Features
  <2>3. Lacks(t, {"proceed"}) /\ Lacks(t, {"?xml", "success", "failure"})
    BY LacksSome, LacksBoth
  <2>4. FilledTo(t, 4)
    BY <2>1
  <2>5. /\ table' \in Tables /\ FilledTo(table', 5)
        /\ \A S : Lacks(t, S) /\ "proceed" \notin S => Lacks(table', S)
        /\ Single(table', "proceed", 0)
    <3> DEFINE n == 4
    <3>1. n \in 0 .. 10 /\ n + 1 = 5 /\ "proceed" # "stream:error" /\ FilledTo(t, n)
      BY <2>4
    <3> HIDE DEF n
    <3>2. /\ Registered(t, "proceed", FALSE, 0) \in Tables
          /\ FilledTo(Registered(t, "proceed", FALSE, 0), n + 1)
          /\ \A S : Lacks(t, S) /\ "proceed" \notin S
                    => Lacks(Registered(t, "proceed", FALSE, 0), S)
          /\ Single(Registered(t, "proceed", FALSE, 0), "proceed", 0)
      BY <1>0, <2>3, <3>1, RegisteredTable
    <3> QED
      BY <2>2, <3>1, <3>2
  <2>6. Lacks(table', {"?xml", "success", "failure"})
    BY <2>3, <2>5
  <2>7. dmsg'.tag = "?xml" \/ Lacks(table', {"stream:features"})
    BY <2>5
  <2>8. server' \in {"plain", "closed"}
    BY <2>1 DEF Opened
  <2>9. Plain'
    BY <1>0, <1>1, <2>1, <2>2, <2>5, <2>6 DEF Plain
  <2>10. Asking'
    BY <1>0, <2>1, <2>2, <2>5, <2>7, <2>8, <2>9 DEF Asking
  <2>11. live' \subseteq 1 .. 2 /\ auths' \in Seq(Stages)
    BY <2>2 DEF TypeOK
  <2> QED
    BY <2>2, <2>5, <2>10, <2>11 DEF DialogueInv
<1>2. CASE ~ (UseTls /\ Offered = "starttls")
  <2>1. Sasl(t) /\ live' = {}
    BY <1>0, <1>2 DEF Features
  <2> DEFINE n == IF streams = 1 THEN 4 ELSE 9
             t1 == Registered(t, "success", FALSE, 0)
             t2 == Registered(t1, "failure", FALSE, 0)
  <2>2. /\ table' = Tidied(t2) /\ out' = <<"auth">> /\ dpc' = "top"
        /\ auths' = <<IF streams = 1 THEN "plain" ELSE "tls">>
    BY <1>0, <2>1 DEF Sasl
  <2>3. Lacks(t, {"success"}) /\ Lacks(t, {"proceed"})
    BY LacksSome
  <2>4. /\ t1 \in Tables /\ FilledTo(t1, n + 1) /\ Single(t1, "success", 0)
        /\ \A S : Lacks(t, S) /\ "success" \notin S => Lacks(t1, S)
    <3>1. n \in 0 .. 10 /\ "success" # "stream:error" /\ FilledTo(t, n)
      OBVIOUS
    <3> HIDE DEF n
    <3> QED
      BY <1>0, <2>3, <3>1, RegisteredTable
  <2>5. /\ t2 \in Tables /\ Single(t2, "success", 0)
        /\ \A S : Lacks(t1, S) /\ "failure" \notin S => Lacks(t2, S)
    <3>1. n + 1 \in 0 .. 10 /\ "failure" # "stream:error" /\ "success" # "failure"
      OBVIOUS
    <3> HIDE DEF n, t1
    <3> QED
      BY <1>0, <2>4, <3>1, RegisteredTable
  <2>6. Lacks(t2, {"?xml"}) /\ Lacks(t2, {"proceed"})
        /\ (dmsg.tag = "stream:features" => Lacks(t2, {"stream:features"}))
    BY <2>3, <2>4, <2>5
  <2> HIDE DEF t2
  <2>7. /\ table' \in Tables /\ Single(table', "success", 0)
        /\ Lacks(table', {"?xml"}) /\ Lacks(table', {"proceed"})
        /\ Lacks(table', {"stream:features"})
    <3>1. CASE dmsg.tag = "stream:features"
      BY <2>2, <2>5, <2>6, <3>1 DEF Tidied
    <3>2. CASE dmsg.tag # "stream:features"
      <4> DEFINE r == Removed(t2, {"stream:features", "stream:stream"})
      <4>1. table' = r
        BY <2>2, <3>2 DEF Tidied
      <4>2. /\ r \in Tables /\ Lacks(r, {"stream:features", "stream:stream"})
            /\ \A S : Lacks(t2, S) => Lacks(r, S)
            /\ \A o, b : o \notin {"stream:features", "stream:stream"} /\ Single(t2, o, b)
                          => Single(r, o, b)
        BY <2>5, RemovedTable
      <4> HIDE DEF r
      <4>3. Lacks(r, {"stream:features"})
        BY <4>2, LacksSome
      <4> QED
        BY <2>5, <2>6, <4>1, <4>2, <4>3
    <3> QED
      BY <3>1, <3>2
  <2>8. Lacks(table', {"?xml", "stream:features", "proceed"})
    BY <2>7 DEF Lacks
  <2>9. UseTls /\ tlsOffered => streams # 1
    BY <1>0, <1>2 DEF Offered
  <2>10. /\ auths' \in Seq(Stages) /\ Len(auths') = 1
         /\ streams # 1 => auths'[1] # "plain"
    BY <1>0, <2>2 DEF Stages
  <2>11. Sent'
    BY <2>2, <2>8, <2>9, <2>10 DEF Sent, Securing
  <2>12. Authenticating'
    BY <2>2, <2>7, <2>11 DEF Authenticating
  <2> QED
    BY <2>1, <2>2, <2>7, <2>10, <2>12 DEF DialogueInv
<1> QED
  BY <1>1, <1>2
(* The handler that runs, whichever it is. *)
LEMMA ConsumedKeeps ==
  ASSUME table \in Tables, NEW i \in DOMAIN table, table[i] # NULL
  PROVE  /\ Consumed(i) \in Tables
         /\ \A S : Lacks(table, S) => Lacks(Consumed(i), S)
<1>1. table \in [1 .. QUERY_HDLR_MAX -> Handlers \cup {NULL}]
  BY DEF Tables
<1>2. CASE table[i].permanent
  BY <1>2 DEF Consumed
<1>3. CASE ~table[i].permanent
  <2> DEFINE r == [table EXCEPT ![i] = NULL]
  <2>1. Consumed(i) = r
    BY <1>3 DEF Consumed
  <2>2. /\ r \in [1 .. QUERY_HDLR_MAX -> Handlers \cup {NULL}] /\ DOMAIN r = DOMAIN table
        /\ \A j \in DOMAIN table : r[j] = IF j = i THEN NULL ELSE table[j]
    BY <1>1
  <2> HIDE DEF r
  <2>3. r \in Tables
    BY <2>2, HandlerTyped DEF Tables
  <2>4. \A S : Lacks(table, S) => Lacks(r, S)
    BY <2>2 DEF Lacks
  <2> QED
    BY <2>1, <2>3, <2>4
<1> QED
  BY <1>2, <1>3

(* What Handle leaves behind, at each stage.  No <proceed/> is left. *)
Left == /\ DialogueInv' /\ table' \in Tables /\ live' \subseteq 1 .. 2
        /\ auths' \in Seq(Stages)
        /\ auths' = <<>> /\ Coming' # <<>> => Head(Coming').tag # "proceed"
        /\ out' \in {out, <<"auth">>, <<"open", "bind">>}

LEMMA NothingLeft ==
  ASSUME Follows(<<>>)', Coming' # <<>>
  PROVE  Head(Coming').tag # "proceed"
<1>1. Reaches(Coming', server', <<>>)
  BY DEF Follows, Reaches
<1>2. Head(Coming') = Error
  BY <1>1, ReachesNothing
<1> QED
  BY <1>2, ErrorIsMessage

LEMMA HandleOpened ==
  ASSUME TypeOK, ChannelInv, Opened, Coming' \in Seq(Messages), Handle
  PROVE  Left
<1>0. /\ Coming # <<>> /\ Head(Coming) = dmsg /\ Coming' = Tail(Coming)
      /\ dmsg \in Messages /\ dmsg' = dmsg /\ dpc = "handle"
      /\ UNCHANGED <<streams, server, tlsOffered>>
  BY HandleCases
<1>1. /\ live = {streams} /\ streams \in 1 .. 2 /\ auths = <<>> /\ auths \in Seq(Stages)
      /\ table \in Tables /\ Offered' = Offered
  BY <1>0 DEF Opened, TypeOK, Offered
<1>2. \A d : Reaches(Tail(Coming), server, d) => Follows(d)'
  BY <1>0 DEF Follows, Reaches
<1>3. Offered \in Mechanisms
  BY DEF Offered, Mechanisms
<1>4. Offered # NULL
  BY <1>3, HandshakeAssumption
<1> DEFINE n == IF streams = 1 THEN 4 ELSE 9
<1>5. /\ Lacks(table, {"proceed", "success", "failure"}) /\ FilledTo(table, n)
      /\ Single(table, "stream:features", streams)
  BY DEF Opened
(* The last word. *)
<1>6. CASE Follows(<<>>)
  <2>1. dmsg = Error /\ Follows(<<>>)'
    BY <1>0, <1>2, <1>6, FollowsReaches, ReachesNothing
  <2>2. UNCHANGED <<table, out, auths, live>> /\ dpc' = "top"
    BY <2>1, ErrorIsMessage, HandleOfError
  <2>3. Opened'
    BY <1>0, <1>1, <2>1, <2>2 DEF Opened, Securing
  <2> QED
    BY <1>1, <2>1, <2>2, <2>3, NothingLeft DEF Left, DialogueInv
(* A header with its features behind it. *)
<1>7. CASE /\ Single(table, "?xml", streams) /\ out = <<>>
           /\ \/ Follows(<<Header(NULL)>>) \/ Follows(<<Header(NULL), Mechanism(Offered)>>)
  <2>1. /\ dmsg = Header(NULL)
        /\ Follows(<<>>)' \/ Follows(<<Mechanism(Offered)>>)'
    <3>1. CASE Follows(<<Header(NULL)>>)
      <4>1. dmsg = Header(NULL) /\ Reaches(Tail(Coming), server, <<>>)
        BY <1>0, <3>1, FollowsReaches, ReachesOne
      <4> QED
        BY <1>2, <4>1
    <3>2. CASE Follows(<<Header(NULL), Mechanism(Offered)>>)
      <4>1. dmsg = Header(NULL) /\ Reaches(Tail(Coming), server, <<Mechanism(Offered)>>)
        BY <1>0, <3>2, FollowsReaches, ReachesTwo
      <4>2. Follows(<<Mechanism(Offered)>>)'
        BY <1>0, <1>1, <4>1 DEF Follows, Reaches, Mechanism
      <4> QED
        BY <4>1, <4>2
    <3> QED
      BY <1>7, <3>1, <3>2
  <2>2. dmsg.tag = "?xml" /\ dmsg.features = NULL
    BY <2>1 DEF Header, Stanza
  <2>3. PICK i \in DOMAIN table :
           /\ Handles(i, "?xml") /\ Runs(i) /\ table[i].query = "?xml"
           /\ Consumed(i) \in Tables
           /\ \A m : FilledTo(table, m) => FilledTo(Consumed(i), m)
           /\ Lacks(Consumed(i), {"?xml"})
           /\ \A S : Lacks(table, S) => Lacks(Consumed(i), S)
           /\ \A o, b : o # "?xml" /\ Single(table, o, b) => Single(Consumed(i), o, b)
    BY <1>7, <2>2, HandleOfSingle
  <2>4. HandleHeader(i)
    BY <2>3 DEF Runs, HandleFeatures, HandleProceed, HandleSuccess, HandleFailure, HandleError
  <2>5. table' = Consumed(i) /\ dpc' = "top" /\ UNCHANGED <<out, auths, live>>
    BY <2>2, <2>4 DEF HandleHeader
  <2>6. /\ Lacks(table', {"proceed", "success", "failure"}) /\ FilledTo(table', n)
        /\ Single(table', "stream:features", streams) /\ Lacks(table', {"?xml"})
    BY <1>5, <2>3, <2>5
  <2>7. Opened'
    BY <1>0, <1>1, <1>7, <2>1, <2>5, <2>6 DEF Opened, Securing
  <2>8. Coming' # <<>> => Head(Coming').tag # "proceed"
    <3>1. CASE Follows(<<>>)'
      BY <3>1, NothingLeft
    <3>2. CASE Follows(<<Mechanism(Offered)>>)'
      <4>1. Reaches(Coming', server', <<Mechanism(Offered)>>)
        BY <1>1, <3>2 DEF Follows, Reaches, Mechanism
      <4>2. Head(Coming') = Mechanism(Offered)
        BY <4>1, ReachesOne
      <4> QED
        BY <4>2 DEF Mechanism, Stanza
    <3> QED
      BY <2>1, <3>1, <3>2
  <2> QED
    BY <1>1, <2>3, <2>5, <2>7, <2>8 DEF Left, DialogueInv, TypeOK
(* The features, with their header or after it. *)
<1>8. CASE /\ out = <<>>
           /\ \/ Single(table, "?xml", streams) /\ Follows(<<Header(Offered)>>)
              \/ Lacks(table, {"?xml"}) /\ Follows(<<Mechanism(Offered)>>)
  <2> DEFINE q == dmsg.tag
  <2>1. /\ Follows(<<>>)' /\ dmsg.features = Offered
        /\ \/ q = "?xml"
           \/ q = "stream:features" /\ Lacks(table, {"?xml"})
        /\ Single(table, q, streams)
    <3>1. CASE Single(table, "?xml", streams) /\ Follows(<<Header(Offered)>>)
      <4>1. dmsg = Header(Offered) /\ Follows(<<>>)'
        BY <1>0, <1>2, <3>1, FollowsReaches, ReachesOne
      <4> QED
        BY <3>1, <4>1 DEF Header, Stanza
    <3>2. CASE Lacks(table, {"?xml"}) /\ Follows(<<Mechanism(Offered)>>)
      <4>1. dmsg = Mechanism(Offered) /\ Follows(<<>>)'
        BY <1>0, <1>2, <3>2, FollowsReaches, ReachesOne
      <4> QED
        BY <1>5, <3>2, <4>1 DEF Mechanism, Stanza
    <3> QED
      BY <1>8, <3>1, <3>2
  <2>2. PICK i \in DOMAIN table :
           /\ Handles(i, q) /\ Runs(i) /\ table[i].query = q /\ table[i].args = streams
           /\ Consumed(i) \in Tables
           /\ \A m : FilledTo(table, m) => FilledTo(Consumed(i), m)
           /\ Lacks(Consumed(i), {q})
           /\ \A S : Lacks(table, S) => Lacks(Consumed(i), S)
    BY <2>1, HandleOfSingle
  <2>3. HandleHeader(i) \/ HandleFeatures(i)
    BY <2>1, <2>2 DEF Runs, HandleProceed, HandleSuccess, HandleFailure, HandleError
  <2>4. Features(Consumed(i), streams)
    BY <1>4, <2>1, <2>2, <2>3 DEF HandleHeader, HandleFeatures
  <2>5. Lacks(Consumed(i), {"?xml"}) /\ (q = "stream:features" => Lacks(Consumed(i), {q}))
    BY <2>1, <2>2
  <2> DEFINE t == Consumed(i)
  <2>6. /\ t \in Tables /\ FilledTo(t, n) /\ Lacks(t, {"proceed", "success", "failure"})
        /\ Lacks(t, {"?xml"}) /\ Features(t, streams)
        /\ q = "?xml" \/ (q = "stream:features" /\ Lacks(t, {"stream:features"}))
    BY <1>5, <2>1, <2>2, <2>4, <2>5
  <2> HIDE DEF t
  <2>7. /\ DialogueInv' /\ table' \in Tables /\ live' \subseteq 1 .. 2 /\ auths' \in Seq(Stages)
        /\ out' \in {out, <<"auth">>}
    BY <1>0, <1>8, <2>1, <2>6, FeaturesDialogue
  <2> QED
    BY <2>1, <2>7, NothingLeft DEF Left
<1> QED
  BY <1>0, <1>6, <1>7, <1>8 DEF Opened, Follows

LEMMA LastIsHandled ==
  ASSUME TypeOK, ChannelInv, Handle, Follows(<<>>)
  PROVE  /\ Follows(<<>>)'
         /\ UNCHANGED <<table, streams, live, out, auths, server, tlsOffered, dmsg>>
         /\ dpc' = "top"
<1>1. Coming # <<>> /\ Head(Coming) = dmsg /\ Coming' = Tail(Coming)
  BY HandleCases
<1>2. dmsg = Error /\ Reaches(Tail(Coming), server, <<>>)
  BY <1>1, FollowsReaches, ReachesNothing
<1>3. UNCHANGED <<table, out, auths, live>> /\ dpc' = "top"
  BY <1>2, ErrorIsMessage, HandleOfError
<1>4. UNCHANGED <<streams, server, tlsOffered, dmsg>>
  BY HandleCases
<1>5. Follows(<<>>)'
  BY <1>1, <1>2, <1>4 DEF Follows, Reaches
<1> QED
  BY <1>3, <1>4, <1>5

LEMMA HandleAsked ==
  ASSUME TypeOK, ChannelInv, Asked, Coming' \in Seq(Messages), Handle
  PROVE  Left
<1>0. /\ Coming # <<>> /\ Head(Coming) = dmsg /\ Coming' = Tail(Coming)
      /\ UNCHANGED <<streams, server, tlsOffered>>
  BY HandleCases
<1>1. CASE Follows(<<>>)
  <2>1. Asked'
    BY <1>1, LastIsHandled DEF Asked, Plain, Securing
  <2>2. table' \in Tables /\ live' \subseteq 1 .. 2 /\ auths' \in Seq(Stages)
    BY <1>1, LastIsHandled DEF TypeOK
  <2> QED
    BY <1>1, <2>1, <2>2, LastIsHandled, NothingLeft DEF Left, DialogueInv
<1>2. CASE out = <<>> /\ server \in {"tls", "closed"} /\ Follows(<<Stanza("proceed", NULL)>>)
  <2>1. dmsg = Stanza("proceed", NULL) /\ Reaches(Tail(Coming), server, <<>>)
    BY <1>0, <1>2, FollowsReaches, ReachesOne
  <2>2. dmsg.tag = "proceed" /\ Follows(<<>>)'
    BY <1>0, <2>1 DEF Stanza, Follows, Reaches
  <2>3. PICK i \in DOMAIN table :
           /\ Runs(i) /\ table[i].query = "proceed" /\ Consumed(i) \in Tables
           /\ \A m : FilledTo(table, m) => FilledTo(Consumed(i), m)
           /\ Lacks(Consumed(i), {"proceed"})
           /\ \A S : Lacks(table, S) => Lacks(Consumed(i), S)
    BY <2>2, HandleOfSingle DEF Asked
  <2>4. HandleProceed(i)
    BY <2>3 DEF Runs, HandleHeader, HandleFeatures, HandleSuccess, HandleFailure, HandleError
  <2>5. table' = Consumed(i) /\ dpc' = "lock" /\ UNCHANGED <<out, auths, live>>
    BY <2>4 DEF HandleProceed
  <2>6. /\ Lacks(table', {"?xml", "success", "failure"}) /\ FilledTo(table', 5)
        /\ Lacks(table', {"stream:features"}) /\ Lacks(table', {"proceed"})
    BY <2>3, <2>5 DEF Asked, Plain
  <2>7. Lacks(table', {"stream:features", "proceed"})
    BY <2>6, LacksBoth
  <2>8. Granted'
    BY <1>0, <1>2, <2>2, <2>5, <2>6, <2>7 DEF Asked, Granted, Plain
  <2>9. live' \subseteq 1 .. 2 /\ auths' \in Seq(Stages)
    BY <2>5 DEF TypeOK
  <2> QED
    BY <2>2, <2>3, <2>5, <2>8, <2>9, NothingLeft DEF Left, DialogueInv
<1> QED
  BY <1>1, <1>2 DEF Asked

LEMMA HandleGranted ==
  ASSUME TypeOK, ChannelInv, Granted, Coming' \in Seq(Messages), Handle
  PROVE  Left
<1>1. Follows(<<>>)
  BY DEF Granted
<1>2. Granted'
  BY <1>1, LastIsHandled DEF Granted, Plain
<1>3. table' \in Tables /\ live' \subseteq 1 .. 2 /\ auths' \in Seq(Stages)
  BY <1>1, LastIsHandled DEF TypeOK
<1> QED
  BY <1>1, <1>2, <1>3, LastIsHandled, NothingLeft DEF Left, DialogueInv

LEMMA NothingIsShort ==
  ASSUME NEW c, NEW s, Reaches(c, s, <<>>)
  PROVE  Len(c) =< 1 /\ (s # "closed" => Len(c) =< 0)
<1>1. Error \in Messages
  BY ErrorIsMessage
<1>2. CASE c = <<>>
  BY <1>2
<1>3. CASE s = "closed" /\ c = Append(<<>>, Error)
  <2>1. Len(c) = 1
    BY <1>1, <1>3
  <2> QED
    BY <1>3, <2>1
<1> QED
  BY <1>2, <1>3 DEF Reaches

LEMMA OfLengthOne ==
  ASSUME NEW S, NEW a \in Seq(S), Len(a) = 1
  PROVE  a # <<>>
OBVIOUS

LEMMA HandleAuthenticating ==
  ASSUME TypeOK, ChannelInv, Authenticating, Coming' \in Seq(Messages), Handle
  PROVE  Left
<1>0. /\ Coming # <<>> /\ Head(Coming) = dmsg /\ Coming' = Tail(Coming)
      /\ UNCHANGED <<streams, server, tlsOffered>>
  BY HandleCases
<1>1. auths # <<>> /\ auths \in Seq(Stages) /\ live \subseteq 1 .. 2
  <2>1. auths \in Seq(Stages) /\ live \subseteq 1 .. 2
    BY DEF TypeOK
  <2>2. Len(auths) = 1
    BY DEF Authenticating, Sent
  <2> QED
    BY <2>1, <2>2, OfLengthOne
<1>2. CASE Follows(<<>>)
  <2>1. Authenticating'
    BY <1>2, LastIsHandled DEF Authenticating, Sent, Securing
  <2>2. table' \in Tables
    BY <1>2, LastIsHandled DEF TypeOK
  <2> QED
    BY <1>1, <1>2, <2>1, <2>2, LastIsHandled DEF Left, DialogueInv
<1>3. ASSUME NEW q \in {"success", "failure"}, out = <<>>, Follows(<<Stanza(q, NULL)>>)
      PROVE  Left
  <2>1. dmsg = Stanza(q, NULL) /\ Reaches(Tail(Coming), server, <<>>)
    BY <1>0, <1>3, FollowsReaches, ReachesOne
  <2>2. dmsg.tag = q /\ Follows(<<>>)'
    BY <1>0, <2>1 DEF Stanza, Follows, Reaches
  <2>3. Len(Coming') =< 1 /\ (server' # "closed" => Len(Coming') =< 0)
    <3>1. Reaches(Coming', server', <<>>)
      BY <2>2 DEF Follows, Reaches
    <3> QED
      BY <3>1, NothingIsShort
  <2>4. Late(0)'
    BY <2>3 DEF Late
  <2>5. CASE q = "success"
    <3>1. PICK i \in DOMAIN table :
             /\ Runs(i) /\ table[i].query = "success" /\ Consumed(i) \in Tables
             /\ Lacks(Consumed(i), {"success"})
             /\ \A S : Lacks(table, S) => Lacks(Consumed(i), S)
      BY <2>2, <2>5, HandleOfSingle DEF Authenticating
    <3>2. HandleSuccess(i)
      BY <3>1 DEF Runs, HandleHeader, HandleFeatures, HandleProceed, HandleFailure, HandleError
    <3>3. /\ table' = Removed(Consumed(i), {"failure"}) /\ out' = <<"open", "bind">>
          /\ dpc' = "top" /\ UNCHANGED <<auths, live>>
      <4>1. <<>> \o <<"open", "bind">> = <<"open", "bind">>
        OBVIOUS
      <4> QED
        BY <1>3, <3>2, <4>1 DEF HandleSuccess
    <3>4. /\ table' \in Tables /\ Lacks(table', {"success"})
          /\ Lacks(table', {"?xml", "stream:features", "proceed"})
      BY <3>1, <3>3, RemovedTable DEF Authenticating, Sent
    <3>5. Binding'
      BY <1>0, <2>4, <3>3, <3>4 DEF Binding, Authenticating, Sent, Securing
    <3> QED
      BY <1>1, <3>3, <3>4, <3>5 DEF Left, DialogueInv
  <2>6. CASE q = "failure"
    <3>1. ASSUME NEW i \in DOMAIN table, Handles(i, "failure"), Runs(i)
          PROVE  Left
      <4>1. table[i] # NULL /\ table[i].query = "failure" /\ table \in Tables
        BY <3>1, HandlesIts DEF TypeOK, Tags
      <4>2. /\ Consumed(i) \in Tables
            /\ \A S : Lacks(table, S) => Lacks(Consumed(i), S)
        BY <4>1, ConsumedKeeps
      <4>3. HandleFailure(i)
        BY <3>1, <4>1 DEF Runs, HandleHeader, HandleFeatures, HandleProceed, HandleSuccess,
                          HandleError
      <4>4. /\ table' = Removed(Consumed(i), {"success"})
            /\ dpc' = "top" /\ UNCHANGED <<auths, live, out>>
        BY <4>3 DEF HandleFailure
      <4>5. /\ table' \in Tables /\ Lacks(table', {"success"})
            /\ Lacks(table', {"?xml", "stream:features", "proceed"})
        BY <4>2, <4>4, RemovedTable DEF Authenticating, Sent
      <4>6. Late(3)'
        BY <2>3 DEF Late
      <4>7. Binding'
        BY <1>0, <1>3, <4>4, <4>5, <4>6 DEF Binding, Authenticating, Sent, Securing
      <4> QED
        BY <1>1, <4>4, <4>5, <4>7 DEF Left, DialogueInv
    <3>2. CASE HandleOther
      <4>1. UNCHANGED <<table, out, auths, live>> /\ dpc' = "top"
        BY <3>2 DEF HandleOther
      <4>2. Authenticating'
        BY <1>0, <1>3, <2>2, <4>1 DEF Authenticating, Sent, Securing
      <4> QED
        BY <1>1, <4>1, <4>2 DEF Left, DialogueInv, TypeOK
    <3> QED
      BY <2>2, <2>6, <3>1, <3>2, HandleCases
  <2> QED
    BY <2>5, <2>6
<1> QED
  BY <1>2, <1>3 DEF Authenticating

LEMMA HandleBinding ==
  ASSUME TypeOK, ChannelInv, Binding, Coming \in Seq(Messages), Coming' \in Seq(Messages), Handle
  PROVE  Left
<1>0. /\ Coming # <<>> /\ Coming' = Tail(Coming) /\ UNCHANGED <<streams, server, tlsOffered>>
      /\ dmsg.tag \in Tags /\ table \in Tables
  BY HandleCases DEF TypeOK
<1>1. auths # <<>> /\ auths \in Seq(Stages) /\ live \subseteq 1 .. 2
  <2>1. auths \in Seq(Stages) /\ live \subseteq 1 .. 2
    BY DEF TypeOK
  <2>2. Len(auths) = 1
    BY DEF Binding, Sent
  <2> QED
    BY <2>1, <2>2, OfLengthOne
<1>2. Len(Coming') =< Len(Coming) /\ Len(Coming) \in Nat /\ Len(Coming') \in Nat
  BY <1>0
<1>3. \A n \in Nat : Late(n) => Late(n)'
  BY <1>0, <1>2 DEF Late
<1>4. /\ table' \in Tables /\ \A S : Lacks(table, S) => Lacks(table', S)
      /\ dpc' = "top" /\ UNCHANGED <<out, auths, live>>
  <2>1. ASSUME NEW i \in DOMAIN table, Handles(i, dmsg.tag), Runs(i)
        PROVE  /\ table' \in Tables /\ \A S : Lacks(table, S) => Lacks(table', S)
               /\ dpc' = "top" /\ UNCHANGED <<out, auths, live>>
    <3>1. table[i] # NULL /\ table[i].query = dmsg.tag
      BY <1>0, <2>1, HandlesIts
    <3>2. dmsg.tag \notin {"success", "?xml", "stream:features", "proceed"}
      BY <3>1 DEF Binding, Sent, Lacks
    <3>3. dmsg.tag # "stream:stream"
      BY <1>0 DEF Tags
    <3>4. HandleFailure(i) \/ HandleError(i)
      BY <2>1, <3>1, <3>2, <3>3 DEF Runs, HandleHeader, HandleFeatures, HandleProceed,
                                    HandleSuccess
    <3>5. CASE HandleFailure(i)
      <4>1. /\ Consumed(i) \in Tables
            /\ \A S : Lacks(table, S) => Lacks(Consumed(i), S)
        BY <1>0, <3>1, ConsumedKeeps
      <4>2. /\ table' = Removed(Consumed(i), {"success"})
            /\ dpc' = "top" /\ UNCHANGED <<out, auths, live>>
        BY <3>5 DEF HandleFailure
      <4> QED
        BY <4>1, <4>2, RemovedTable
    <3>6. CASE HandleError(i)
      BY <1>0, <3>6 DEF HandleError
    <3> QED
      BY <3>4, <3>5, <3>6
  <2>2. CASE HandleOther
    BY <1>0, <2>2 DEF HandleOther
  <2> QED
    BY <2>1, <2>2, HandleCases
<1>5. Sent'
  BY <1>0, <1>4 DEF Binding, Sent, Securing
<1>6. Binding'
  BY <1>3, <1>4, <1>5 DEF Binding
<1> QED
  BY <1>1, <1>4, <1>6 DEF Left, DialogueInv

LEMMA HandleDialogue ==
  ASSUME TypeOK, ChannelInv, DialogueInv, Handle
  PROVE  Left
<1>1. Coming \in Seq(Messages) /\ Coming' \in Seq(Messages)
  <2>1. Coming \in Seq(Messages) /\ Coming # <<>> /\ Coming' = Tail(Coming)
    BY HandleCases DEF DialogueInv
  <2> QED
    BY <2>1
<1>2. dpc = "handle"
  BY DEF Handle
<1>3. ~Asking
  BY <1>2 DEF Asking
<1> QED
  BY <1>1, <1>3, HandleOpened, HandleAsked, HandleGranted, HandleAuthenticating, HandleBinding
     DEF DialogueInv
-----------------------------------------------------------------------------
(* TLS is requested and negotiated. *)
LEMMA StartTlsDialogue ==
  ASSUME TypeOK, ChannelInv, DialogueInv, StartTls
  PROVE  DialogueInv' /\ table' \in Tables /\ live' \subseteq 1 .. 2
<1>1. /\ dpc \in {"starttls", "wait"} /\ dpc' \in {"wait", "top"} /\ dmsg' = dmsg
      /\ UNCHANGED <<reading, ring, net, streams, server, tlsOffered, auths>>
  BY DEF StartTls
<1>2. Coming' = Coming
  BY <1>1, ElseComing DEF reading
<1>3. Asking
  BY <1>1 DEF DialogueInv, Opened, Asked, Granted, Authenticating, Binding, Sent, Securing
<1>4. table \in Tables /\ live \subseteq 1 .. 2
  BY DEF TypeOK
<1>5. CASE state = "INIT"
  <2>1. dpc' = "wait" /\ UNCHANGED <<out, live, table>>
    BY <1>5 DEF StartTls
  <2>2. DialogueInv'
    BY <1>1, <1>2, <2>1, DialogueKept DEF SameLogin
  <2> QED
    BY <1>4, <2>1, <2>2
<1>6. CASE state # "INIT"
  <2>1. /\ dpc' = "top" /\ table' = Tidied(table) /\ live' = {} /\ out' = <<"starttls">>
    BY <1>3, <1>6 DEF StartTls, Asking, Plain
  <2>2. /\ table' \in Tables /\ FilledTo(table', 5)
        /\ Lacks(table', {"?xml", "success", "failure"})
        /\ Lacks(table', {"stream:features"}) /\ Single(table', "proceed", 0)
    <3>1. CASE dmsg.tag = "stream:features"
      BY <1>3, <1>4, <2>1, <3>1 DEF Tidied, Asking, Plain
    <3>2. CASE dmsg.tag # "stream:features"
      <4> DEFINE T == {"stream:features", "stream:stream"}
                 r == Removed(table, T)
      <4>1. table' = r
        BY <2>1, <3>2 DEF Tidied
      <4>2. /\ r \in Tables /\ Lacks(r, T)
            /\ \A n : FilledTo(table, n) => FilledTo(r, n)
            /\ \A S : Lacks(table, S) => Lacks(r, S)
            /\ \A o, b : o \notin T /\ Single(table, o, b) => Single(r, o, b)
        BY <1>4, RemovedTable
      <4>3. "proceed" \notin T /\ {"stream:features"} \subseteq T
        OBVIOUS
      <4> HIDE DEF T, r
      <4>4. Lacks(r, {"stream:features"})
        BY <4>2, <4>3, LacksSome
      <4> QED
        BY <1>3, <4>1, <4>2, <4>3, <4>4 DEF Asking, Plain
    <3> QED
      BY <3>1, <3>2
  <2>3. Follows(<<>>)'
    BY <1>1, <1>2, <1>3 DEF Asking, Follows
  <2>4. Plain'
    BY <1>1, <1>3, <2>2 DEF Asking, Plain
  <2>5. Asked'
    BY <1>1, <1>3, <2>1, <2>2, <2>3, <2>4 DEF Asking, Asked, Securing
  <2> QED
    BY <1>2, <2>1, <2>2, <2>5 DEF DialogueInv
<1> QED
  BY <1>5, <1>6

LEMMA TlsDoneDialogue ==
  ASSUME TypeOK, ChannelInv, DialogueInv, TlsDone
  PROVE  /\ DialogueInv' /\ table' \in Tables /\ streams' \in 1 .. 2 /\ live' \subseteq 1 .. 2
         /\ live = {} /\ 1 \notin live' /\ out' # <<"starttls">> /\ Follows(<<>>)
<1>1. /\ dpc = "tls" /\ dpc' = "top" 
      /\ UNCHANGED <<reading, ring, net, server, tlsOffered, auths>>
  BY DEF TlsDone
<1>2. Coming' = Coming
  BY <1>1, ElseComing DEF reading
<1>3. Granted
  BY <1>1 DEF DialogueInv, Opened, Asking, Asked, Authenticating, Binding, Sent, Securing
<1>4. table \in Tables /\ live = {} /\ streams = 1 /\ out = <<>> /\ FilledTo(table, 5)
      /\ Follows(<<>>)
  BY <1>3 DEF TypeOK, Granted, Plain
<1>5. CASE UNCHANGED <<table, streams, live, out>>
  <2>1. DialogueInv'
    BY <1>1, <1>2, <1>5, DialogueKept DEF SameLogin
  <2> QED
    BY <1>4, <1>5, <2>1
<1>6. CASE /\ table' = StreamTable(table, streams + 1)
           /\ streams' = streams + 1 /\ live' = live \cup {streams + 1}
           /\ out' = Append(out, "open")
  <2>1. /\ table' = StreamTable(table, 2) /\ streams' = 2 /\ live' = {2}
        /\ out' = <<"open">>
    BY <1>4, <1>6
  <2>2. Lacks(table, {"?xml", "stream:features"}) /\ Lacks(table, {"proceed", "success", "failure"})
    BY <1>3 DEF Granted, Plain, Lacks
  <2> DEFINE n == 5
             a == 2
             r == StreamTable(table, a)
  <2>3. n \in 0 .. 6 /\ a \in 0 .. 2 /\ n + 4 = 9 /\ FilledTo(table, n)
    BY <1>4
  <2> HIDE DEF n
  <2>4. /\ r \in Tables /\ FilledTo(r, n + 4)
        /\ Single(r, "?xml", a) /\ Single(r, "stream:features", a)
        /\ Lacks(r, {"proceed", "success", "failure"})
    <3> HIDE DEF a
    <3>1. \A S : Lacks(table, S) /\ S \subseteq {"proceed", "success", "failure"} => Lacks(r, S)
      BY <1>4, <2>2, <2>3, StreamTableFilled
    <3>2. /\ r \in Tables /\ FilledTo(r, n + 4)
          /\ Single(r, "?xml", a) /\ Single(r, "stream:features", a)
      BY <1>4, <2>2, <2>3, StreamTableFilled
    <3> QED
      BY <2>2, <3>1, <3>2
  <2> HIDE DEF r
  <2>5. table' = r
    BY <2>1 DEF r
  <2>6. /\ table' \in Tables /\ FilledTo(table', 9)
        /\ Single(table', "?xml", 2) /\ Single(table', "stream:features", 2)
        /\ Lacks(table', {"proceed", "success", "failure"})
    BY <2>3, <2>4, <2>5
  <2>7. Follows(<<>>)'
    BY <1>1, <1>2, <1>4 DEF Follows
  <2>8. Opened'
    BY <1>1, <1>3, <2>1, <2>6, <2>7 DEF Opened, Granted, Plain, Securing
  <2>9. DialogueInv'
    BY <1>2, <2>8 DEF DialogueInv
  <2> QED
    BY <1>4, <2>1, <2>6, <2>9
<1> QED
  BY <1>5, <1>6 DEF TlsDone

(* The other steps change nothing of the dialogue. *)
Quietly ==
  \/ Reads \/ DispatchTop \/ DispatchGet \/ TlsLock \/ DispatchClose \/ Over \/ Ends

LEMMA QuietLogin ==
  ASSUME Quietly
  PROVE  SameLogin
BY DEF Quietly, Reads, ReaderTop, ReaderPoll, ReaderRecv, ReaderUnpoll, ReaderPost,
       ReaderCleanup, ReaderClose, DispatchTop, DispatchGet, TlsLock, DispatchClose, Over, Ends,
       Quit, CancelReader, CancelDispatch, CancelReaderWait, CancelDispatchWait, Joined,
       SameLogin, login

LEMMA QuietDialogue ==
  ASSUME TypeOK, ChannelInv, DialogueInv, Quietly
  PROVE  DialogueInv'
<1>0. SameLogin
  BY QuietLogin
<1>1. CASE ReaderTop \/ ReaderPoll \/ ReaderUnpoll
  <2>1. dpc' = dpc /\ dmsg' = dmsg
    BY <1>1 DEF ReaderTop, ReaderPoll, ReaderUnpoll
  <2> QED
    BY <1>0, <1>1, <2>1, ReaderElseComing, DialogueKept
<1>2. CASE ReaderRecv
  <2>1. dpc' = dpc /\ dmsg' = dmsg
    BY <1>2 DEF ReaderRecv
  <2> QED
    BY <1>0, <1>2, <2>1, ReaderRecvComing, DialogueKept
<1>3. CASE ReaderPost
  <2>1. dpc' = dpc /\ dmsg' = dmsg
    BY <1>3 DEF ReaderPost
  <2> QED
    BY <1>0, <1>3, <2>1, ReaderPostComing, DialogueKept
<1>4. CASE ReaderCleanup
  <2>1. dpc' = dpc /\ dmsg' = dmsg
    BY <1>4 DEF ReaderCleanup
  <2> QED
    BY <1>0, <1>4, <2>1, ReaderCleanupComing, DialogueCut
<1>5. CASE ReaderClose \/ Over \/ Quit \/ CancelReader \/ CancelReaderWait \/ Joined
  <2>1. /\ dpc' = dpc /\ dmsg' = dmsg /\ UNCHANGED <<ring, net, rmsg>>
        /\ \/ rpc' = rpc
           \/ rpc = "close" /\ rpc' = "gone"
           \/ rpc \in {"recv", "wait"} /\ rpc' = "cancelled"
    BY <1>5 DEF ReaderClose, Over, Quit, CancelReader, CancelReaderWait, Joined, reading
  <2>2. Coming' = Coming
    BY <2>1, SameComing
  <2> QED
    BY <1>0, <2>1, <2>2, DialogueKept
<1>6. CASE DispatchGet
  <2>1. dpc = "get" /\ dpc' \in {"handle", "close", "aborted"}
    BY <1>6 DEF DispatchGet
  <2> QED
    BY <1>0, <1>6, <2>1, DispatchGetComing, DialogueKept
<1>7. CASE DispatchTop \/ TlsLock \/ DispatchClose \/ CancelDispatch \/ CancelDispatchWait
  <2>1. /\ UNCHANGED <<ring, net, rmsg, rpc>> /\ dmsg' = dmsg
        /\ \/ dpc = "top" /\ dpc' \in {"close", "get"}
           \/ dpc = "lock" /\ dpc' \in {"tls", "aborted"}
           \/ dpc \in {"close", "get", "tls", "wait"} /\ dpc' = "gone"
    BY <1>7 DEF DispatchTop, TlsLock, DispatchClose, CancelDispatch, CancelDispatchWait, reading
  <2>2. Coming' = Coming
    BY <2>1, ElseComing
  <2> QED
    BY <1>0, <2>1, <2>2, DialogueKept
<1> QED
  BY <1>1, <1>2, <1>3, <1>4, <1>5, <1>6, <1>7 DEF Quietly, Reads, Ends
-----------------------------------------------------------------------------
(* The ring does not fill. *)
LEMMA ComingIsShort ==
  ASSUME DialogueInv
  PROVE  Len(Coming) =< 4
<1>1. Coming \in Seq(Messages)
  BY DEF DialogueInv
<1>2. ASSUME NEW d \in Seq(Messages), Len(d) =< 2, Follows(d)
      PROVE  Len(Coming) =< 3
  <2>1. CASE Coming = d
    BY <1>2, <2>1
  <2>2. CASE Coming = Append(d, Error)
    <3>1. Len(Append(d, Error)) = Len(d) + 1 /\ Len(d) \in Nat
      BY ErrorIsMessage
    <3> QED
      BY <1>2, <2>2, <3>1
  <2> QED
    BY <1>2, <2>1, <2>2 DEF Follows
<1>3. <<>> \in Seq(Messages) /\ Len(<<>>) = 0
  BY Nothing
<1>4. \A m \in Messages : <<m>> \in Seq(Messages) /\ Len(<<m>>) = 1
  OBVIOUS
<1>5. \A m \in Messages, o \in Messages : <<m, o>> \in Seq(Messages) /\ Len(<<m, o>>) = 2
  OBVIOUS
<1>6. /\ Header(Offered) \in Messages /\ Header(NULL) \in Messages
      /\ Mechanism(Offered) \in Messages
      /\ Stanza("proceed", NULL) \in Messages /\ Stanza("success", NULL) \in Messages
      /\ Stanza("failure", NULL) \in Messages
  BY StanzasAreMessages DEF Header, Mechanism, Offered, Mechanisms, Tags
<1>7. Opened => Len(Coming) =< 3
  <2>1. <<Header(NULL), Mechanism(Offered)>> \in Seq(Messages)
        /\ Len(<<Header(NULL), Mechanism(Offered)>>) =< 2
    BY <1>5, <1>6
  <2>2. \A m \in Messages : <<m>> \in Seq(Messages) /\ Len(<<m>>) =< 2
    BY <1>4
  <2>3. <<>> \in Seq(Messages) /\ Len(<<>>) =< 2
    BY <1>3
  <2> QED
    BY <1>2, <1>6, <2>1, <2>2, <2>3 DEF Opened
<1>8. Asking \/ Asked \/ Granted \/ Authenticating => Len(Coming) =< 3
  <2>1. \A m \in Messages : <<m>> \in Seq(Messages) /\ Len(<<m>>) =< 2
    BY <1>4
  <2>2. <<>> \in Seq(Messages) /\ Len(<<>>) =< 2
    BY <1>3
  <2> QED
    BY <1>2, <1>6, <2>1, <2>2 DEF Asking, Asked, Granted, Authenticating
<1>9. Binding => Len(Coming) =< 4
  BY <1>1 DEF Binding, Late
<1>10. Len(Coming) \in Nat
  BY <1>1
<1> QED
  BY <1>7, <1>8, <1>9, <1>10 DEF DialogueInv

LEMMA RingHasRoom ==
  ASSUME TypeOK, ChannelInv, DialogueInv, rpc = "post", rmsg # End
  PROVE  /\ ring \in Seq(Messages) /\ rmsg \in Messages
         /\ Append(ring, rmsg) \in Seq(Messages) /\ Len(Append(ring, rmsg)) =< 4
<1>1. /\ ring \in Seq(Messages) /\ net \in Seq(Messages) /\ Hand \in Seq(Messages)
      /\ Coming = Hand \o Behind /\ Behind \in Seq(Messages)
  BY ComingParts
<1>2. rmsg \in Messages /\ InRead = <<rmsg>>
  BY DEF TypeOK, InRead
<1>3. Len(<<rmsg>>) = 1 /\ <<rmsg>> \in Seq(Messages)
  BY <1>2
<1>4. /\ InRead \o net \in Seq(Messages)
      /\ Len(InRead \o net) = 1 + Len(net)
  <2> DEFINE a == InRead
  <2>1. a \in Seq(Messages) /\ Len(a) = 1
    BY <1>2, <1>3
  <2> HIDE DEF a
  <2>2. a \o net \in Seq(Messages) /\ Len(a \o net) = Len(a) + Len(net)
    BY <1>1, <2>1, Extended
  <2> QED
    BY <2>1, <2>2 DEF a
<1>5. Len(Behind) = Len(ring) + (1 + Len(net))
  <2> DEFINE a == InRead \o net
             S == Messages
  <2>1. a \in Seq(S) /\ Len(a) = 1 + Len(net) /\ ring \in Seq(S)
    BY <1>1, <1>4
  <2> HIDE DEF a, S
  <2>2. Len(ring \o a) = Len(ring) + Len(a)
    BY <2>1, Extended
  <2> QED
    BY <2>1, <2>2 DEF Behind, a
<1>6. Len(Coming) = Len(Hand) + Len(Behind)
  BY <1>1, Extended
<1>7. Len(Coming) =< 4
  BY ComingIsShort
<1>8. Len(ring) + 1 =< 4
  <2>1. Len(Hand) \in Nat /\ Len(net) \in Nat /\ Len(ring) \in Nat
    BY <1>1
  <2> QED
    BY <1>5, <1>6, <1>7, <2>1
<1> QED
  BY <1>1, <1>2, <1>8
-----------------------------------------------------------------------------
(* The types. *)
LEMMA NobodySleeps == {} \in (SUBSET {Reader, Dispatch}) \ {{Reader, Dispatch}}
OBVIOUS

LEMMA OneSleeps ==
  ASSUME NEW w \in {Reader, Dispatch}
  PROVE  {w} \in (SUBSET {Reader, Dispatch}) \ {{Reader, Dispatch}}
<1>1. PICK o \in {Reader, Dispatch} : o # w
  BY HandshakeAssumption
<1>2. o \notin {w} /\ o \in {Reader, Dispatch}
  BY <1>1
<1>3. {w} # {Reader, Dispatch}
  BY <1>2
<1> QED
  BY <1>3

LEMMA ReadsTyped ==
  ASSUME Inv, Reads
  PROVE  TypeOK'
<1>0. TypeOK /\ ChannelInv /\ DialogueInv /\ WaitInv
  BY DEF Inv
<1>1. CASE ReaderTop
  BY <1>0, <1>1 DEF TypeOK, ReaderTop, login
<1>2. CASE ReaderPoll
  <2>1. waiters' \in (SUBSET {Reader, Dispatch}) \ {{Reader, Dispatch}}
    <3>1. CASE state = "TLS_INIT"
      <4>1. waiters' = waiters \cup {Reader} /\ Dispatch \notin waiters
        BY <1>0, <1>2, <3>1 DEF ReaderPoll, WaitInv
      <4>2. waiters \in SUBSET {Reader, Dispatch}
        BY <1>0 DEF TypeOK
      <4>3. waiters' = {Reader}
        BY <4>1, <4>2
      <4> QED
        BY <4>3, OneSleeps
    <3>2. CASE state # "TLS_INIT"
      <4>1. waiters' = waiters \/ waiters' = {}
        BY <1>2, <3>2 DEF ReaderPoll
      <4> QED
        BY <1>0, <4>1, NobodySleeps DEF TypeOK
    <3> QED
      BY <3>1, <3>2
  <2> QED
    BY <1>0, <1>2, <2>1 DEF TypeOK, ReaderPoll, login, States
<1>3. CASE ReaderRecv
  <2>1. net' \in Seq(Messages) /\ rmsg' \in Messages \cup {End}
    <3>1. net \in Seq(Messages) /\ rmsg \in Messages \cup {End}
      BY <1>0 DEF TypeOK
    <3> QED
      BY <1>3, <3>1 DEF ReaderRecv
  <2> QED
    BY <1>0, <1>3, <2>1 DEF TypeOK, ReaderRecv, login
<1>4. CASE ReaderUnpoll
  <2>1. waiters' \in (SUBSET {Reader, Dispatch}) \ {{Reader, Dispatch}}
    BY <1>0, <1>4, HandshakeAssumption DEF TypeOK, ReaderUnpoll
  <2> QED
    BY <1>0, <1>4, <2>1 DEF TypeOK, ReaderUnpoll, login, States
<1>5. CASE ReaderPost
  <2>1. ring' \in Seq(Messages \cup {End}) /\ Len(ring') < RECV_MSG_MAX
    <3>1. CASE rmsg = End
      BY <1>0, <1>5, <3>1 DEF TypeOK, ReaderPost
    <3>2. CASE rmsg # End
      <4>1. /\ ring' = Append(ring, rmsg) /\ ring' \in Seq(Messages) /\ Len(ring') =< 4
        BY <1>0, <1>5, <3>2, RingHasRoom DEF ReaderPost
      <4> QED
        BY <4>1, HandshakeAssumption
    <3> QED
      BY <3>1, <3>2
  <2> QED
    BY <1>0, <1>5, <2>1 DEF TypeOK, ReaderPost, login
<1>6. CASE ReaderCleanup
  <2>1. ring' \in Seq(Messages \cup {End}) /\ Len(ring') < RECV_MSG_MAX
    <3>1. ring \in Seq(Messages \cup {End}) /\ Len(ring) < RECV_MSG_MAX
      BY <1>0 DEF TypeOK
    <3>2. ring' = [i \in DOMAIN ring |-> End]
      BY <1>6 DEF ReaderCleanup
    <3> QED
      BY <3>1, <3>2
  <2> QED
    BY <1>0, <1>6, <2>1 DEF TypeOK, ReaderCleanup, login
<1>7. CASE ReaderClose
  BY <1>0, <1>7 DEF TypeOK, ReaderClose, login, States
<1> QED
  BY <1>1, <1>2, <1>3, <1>4, <1>5, <1>6, <1>7 DEF Reads

LEMMA DispatchesTyped ==
  ASSUME Inv, Dispatches
  PROVE  TypeOK'
<1>0. TypeOK /\ ChannelInv /\ DialogueInv /\ WaitInv
  BY DEF Inv
<1>1. CASE DispatchTop
  BY <1>0, <1>1 DEF TypeOK, DispatchTop, login, reading
<1>2. CASE DispatchGet
  <2>1. /\ ring' \in Seq(Messages \cup {End}) /\ Len(ring') < RECV_MSG_MAX
        /\ dmsg' \in Messages \cup {End}
    <3>1. ring \in Seq(Messages \cup {End}) /\ Len(ring) < RECV_MSG_MAX /\ ring # <<>>
          /\ RECV_MSG_MAX \in Nat
      BY <1>0, <1>2, HandshakeAssumption DEF TypeOK, DispatchGet
    <3> QED
      BY <1>2, <3>1 DEF DispatchGet
  <2> QED
    BY <1>0, <1>2, <2>1 DEF TypeOK, DispatchGet, login, reading
<1>3. CASE Handle
  <2>1. table' \in Tables /\ live' \subseteq 1 .. 2 /\ auths' \in Seq(Stages)
    BY <1>0, <1>3, HandleDialogue DEF Left
  <2>2. dpc' \in {"top", "starttls", "lock"}
    BY <1>0, <1>3, HandleCases
  <2>3. state' \in States
    BY <1>0, <1>3 DEF Handle, HandleHeader, HandleFeatures, HandleProceed, HandleSuccess,
                      HandleFailure, HandleError, HandleOther, TypeOK, States
  <2>4. UNCHANGED <<lock, waiters, reading, ring, dmsg, streams, net, server, tlsOffered, main>>
    BY <1>3 DEF Handle
  <2> QED
    BY <1>0, <2>1, <2>2, <2>3, <2>4 DEF TypeOK, reading
<1>4. CASE StartTls
  <2>1. waiters' \in (SUBSET {Reader, Dispatch}) \ {{Reader, Dispatch}}
    <3>1. CASE state = "INIT"
      <4>1. waiters' = waiters \cup {Dispatch} /\ Reader \notin waiters
        BY <1>0, <1>4, <3>1 DEF StartTls, WaitInv
      <4>2. waiters \in SUBSET {Reader, Dispatch}
        BY <1>0 DEF TypeOK
      <4>3. waiters' = {Dispatch}
        BY <4>1, <4>2
      <4> QED
        BY <4>3, OneSleeps
    <3>2. CASE state # "INIT"
      <4>1. waiters' = {}
        BY <1>4, <3>2 DEF StartTls, Signal
      <4> QED
        BY <4>1, NobodySleeps
    <3> QED
      BY <3>1, <3>2
  <2>2. table' \in Tables /\ live' \subseteq 1 .. 2
    BY <1>0, <1>4, StartTlsDialogue
  <2> QED
    BY <1>0, <1>4, <2>1, <2>2 DEF TypeOK, StartTls, States, reading
<1>5. CASE TlsLock
  BY <1>0, <1>5 DEF TypeOK, TlsLock, login, reading
<1>6. CASE TlsDone
  <2>1. table' \in Tables /\ streams' \in 1 .. 2 /\ live' \subseteq 1 .. 2
    BY <1>0, <1>6, TlsDoneDialogue
  <2>2. waiters' \in (SUBSET {Reader, Dispatch}) \ {{Reader, Dispatch}}
    BY <1>6, HandshakeAssumption DEF TlsDone, Signal
  <2> QED
    BY <1>0, <1>6, <2>1, <2>2 DEF TypeOK, TlsDone, States, reading
<1>7. CASE DispatchClose
  BY <1>0, <1>7 DEF TypeOK, DispatchClose, login, reading, States
<1> QED
  BY <1>1, <1>2, <1>3, <1>4, <1>5, <1>6, <1>7 DEF Dispatches

LEMMA OthersTyped ==
  ASSUME Inv, Over \/ Ends \/ ServerReplies \/ ServerCloses
  PROVE  TypeOK'
<1>0. TypeOK /\ net \in Seq(Messages)
  BY DEF Inv, TypeOK
<1>1. CASE Over \/ Quit \/ CancelReader \/ CancelDispatch \/ Joined
  <2>1. CASE Over
    BY <1>0, <2>1 DEF TypeOK, Over, login, reading, States
  <2>2. CASE Quit
    BY <1>0, <2>2 DEF TypeOK, Quit, login, reading, States
  <2>3. CASE CancelReader
    BY <1>0, <2>3 DEF TypeOK, CancelReader, login, reading
  <2>4. CASE CancelDispatch
    BY <1>0, <2>4 DEF TypeOK, CancelDispatch, login, reading
  <2>5. CASE Joined
    BY <1>0, <2>5 DEF TypeOK, Joined, login, reading
  <2> QED
    BY <1>1, <2>1, <2>2, <2>3, <2>4, <2>5
<1>2. CASE CancelReaderWait \/ CancelDispatchWait
  <2>1. waiters' \in (SUBSET {Reader, Dispatch}) \ {{Reader, Dispatch}}
    BY <1>0, <1>2, HandshakeAssumption DEF TypeOK, CancelReaderWait, CancelDispatchWait
  <2> QED
    BY <1>0, <1>2, <2>1 DEF TypeOK, CancelReaderWait, CancelDispatchWait, login, reading
<1>3. CASE ServerReplies
  <2>1. PICK reply \in Replies :
          /\ net' = net \o reply
          /\ server' = CASE Head(out) = "starttls" -> "tls"
                         [] reply[1].tag = "success" -> "auth"
                         [] OTHER -> server
    BY <1>3 DEF ServerReplies
  <2>2. server' \in {"tls", "auth", server}
    BY <2>1
  <2>3. server' \in Stages
    BY <1>0, <2>2 DEF TypeOK, Stages
  <2>4. net' \in Seq(Messages)
    BY <1>0, <2>1, RepliesTyped, Extended
  <2> QED
    BY <1>0, <1>3, <2>3, <2>4 DEF TypeOK, ServerReplies, reading
<1>4. CASE ServerCloses
  <2>1. PICK last \in {<<>>, <<Error>>} : net' = net \o last
    BY <1>4 DEF ServerCloses, Error
  <2>2. last \in Seq(Messages)
    BY <2>1, ErrorIsMessage, Alone, Nothing
  <2>3. net' \in Seq(Messages)
    BY <1>0, <2>1, <2>2, Extended
  <2> QED
    BY <1>0, <1>4, <2>3 DEF TypeOK, ServerCloses, reading, login, Stages
<1> QED
  BY <1>1, <1>2, <1>3, <1>4 DEF Ends
-----------------------------------------------------------------------------
(* The messages between the reader and dispatch. *)
LEMMA ChannelKept ==
  ASSUME Inv, Next
  PROVE  ChannelInv'
<1>0. TypeOK /\ ChannelInv /\ DialogueInv
  BY DEF Inv
<1>1. CASE ReaderTop \/ ReaderPoll \/ ReaderUnpoll \/ ReaderClose
  <2>1. /\ UNCHANGED <<ring, net, server, rmsg, dpc, dmsg>>
        /\ rpc' \in {"close", "gone"} <=> rpc \in {"close", "gone"}
        /\ rpc' \in {"unpoll", "post"} => rpc \in {"unpoll", "post"}
    BY <1>1 DEF ReaderTop, ReaderPoll, ReaderUnpoll, ReaderClose
  <2> QED
    BY <1>0, <2>1 DEF ChannelInv, End
<1>2. CASE ReaderRecv
  <2>1. rmsg' = End => server' = "closed" /\ net' = <<>>
    <3>1. net \in Seq(Messages) /\ (net # <<>> => Head(net) # End)
      <4>1. net \in Seq(Messages) /\ (net # <<>> => Head(net) \in Messages)
        BY <1>0 DEF TypeOK
      <4> QED
        BY <4>1, EndIsNoMessage
    <3> QED
      BY <1>2, <3>1 DEF ReaderRecv, End
  <2>2. /\ rpc = "recv" /\ rpc' \in {"unpoll", "post"}
        /\ UNCHANGED <<ring, dpc, dmsg>>
    BY <1>2 DEF ReaderRecv
  <2> QED
    BY <1>0, <2>1, <2>2 DEF ChannelInv, End
<1>3. CASE ReaderPost
  <2>1. /\ rpc = "post" /\ rpc' \in {"top", "cleanup"} /\ UNCHANGED <<dpc, dmsg>>
    BY <1>3 DEF ReaderPost
  <2>2. CASE rmsg = End
    BY <1>0, <1>3, <2>1, <2>2 DEF ChannelInv, ReaderPost, End
  <2>3. CASE rmsg # End
    <3>1. ring' = Append(ring, rmsg)
      BY <1>3, <2>3 DEF ReaderPost
    <3>2. ring' \in Seq(Messages) /\ Len(ring') =< 4 /\ Len(ring') \in Nat
      BY <1>0, <2>1, <2>3, <3>1, RingHasRoom
    <3> QED
      BY <1>0, <2>1, <3>2 DEF ChannelInv, End
  <2> QED
    BY <2>2, <2>3
<1>4. CASE ReaderCleanup
  <2>1. /\ rpc \notin {"close", "gone"} /\ rpc' \in {"close", "gone"} /\ UNCHANGED <<dpc, dmsg>>
        /\ ring' = [i \in DOMAIN ring |-> End]
    BY <1>4 DEF ReaderCleanup
  <2>2. ring \in Seq(Messages) /\ Len(ring) < 5
    BY <1>0, <2>1 DEF ChannelInv
  <2>3. ring' \in Seq({End}) /\ Len(ring') < 5
    BY <2>1, <2>2
  <2> QED
    BY <1>0, <2>1, <2>3 DEF ChannelInv, End
<1>5. CASE DispatchGet
  <2>1. /\ ring # <<>> /\ ring' = Tail(ring) /\ dmsg' = Head(ring)
        /\ dpc' = "handle" => Head(ring) # End
        /\ UNCHANGED <<rpc, rmsg, net, server>>
    <3>1. dpc' = "handle" => Head(ring) # End
      BY <1>5 DEF DispatchGet
    <3> QED
      BY <1>5, <3>1 DEF DispatchGet, reading
  <2>2. \A S : ring \in Seq(S) => Tail(ring) \in Seq(S) /\ Len(Tail(ring)) = Len(ring) - 1
    BY <2>1
  <2>3. Len(ring) \in Nat /\ Len(ring) < 5
    BY <1>0 DEF TypeOK, ChannelInv
  <2>4. Len(ring') < 5
    <3>1. ring \in Seq(Messages \cup {End})
      BY <1>0 DEF TypeOK
    <3> QED
      BY <2>1, <2>2, <2>3, <3>1
  <2> QED
    BY <1>0, <2>1, <2>2, <2>4 DEF ChannelInv, End
<1>6. CASE DispatchTop \/ Handle \/ StartTls \/ TlsLock \/ TlsDone \/ DispatchClose
  <2>1. /\ UNCHANGED <<ring, net, server, rmsg, rpc, dmsg>> /\ dpc' # "handle"
    <3>1. CASE Handle
      BY <1>0, <3>1, HandleCases DEF Handle, reading
    <3> QED
      BY <1>6, <3>1 DEF DispatchTop, StartTls, TlsLock, TlsDone, DispatchClose, reading
  <2> QED
    BY <1>0, <2>1 DEF ChannelInv, End
<1>7. CASE Over \/ Ends
  <2>1. /\ UNCHANGED <<ring, net, server, rmsg, dmsg>>
        /\ dpc' = "handle" => dpc = "handle"
        /\ rpc' \in {"close", "gone"} <=> rpc \in {"close", "gone"}
        /\ rpc' \in {"unpoll", "post"} => rpc \in {"unpoll", "post"}
    BY <1>7 DEF Over, Ends, Quit, CancelReader, CancelDispatch, CancelReaderWait,
                CancelDispatchWait, Joined, reading
  <2> QED
    BY <1>0, <2>1 DEF ChannelInv, End
<1>8. CASE ServerReplies \/ ServerCloses
  <2>1. /\ server # "closed" /\ UNCHANGED <<ring, rmsg, rpc, dpc, dmsg>>
    BY <1>8 DEF ServerReplies, ServerCloses, reading
  <2> QED
    BY <1>0, <2>1 DEF ChannelInv, End
<1> QED
  BY <1>1, <1>2, <1>3, <1>4, <1>5, <1>6, <1>7, <1>8 DEF Next, Reads, Dispatches

(* Who sleeps on the condition, and in which state. *)
LEMMA WaitKept ==
  ASSUME Inv, Next
  PROVE  WaitInv'
<1>0. TypeOK /\ WaitInv /\ Reader # Dispatch
  BY HandshakeAssumption DEF Inv
<1>1. CASE Reads
  BY <1>0, <1>1 DEF WaitInv, TypeOK, Reads, ReaderTop, ReaderPoll, ReaderRecv, ReaderUnpoll,
                    ReaderPost, ReaderCleanup, ReaderClose
<1>2. CASE DispatchTop \/ DispatchGet \/ TlsLock \/ DispatchClose
  BY <1>0, <1>2 DEF WaitInv, DispatchTop, DispatchGet, TlsLock, DispatchClose, reading
<1>3. CASE Handle
  <2>1. /\ dpc = "handle" /\ UNCHANGED <<waiters, rpc>>
    BY <1>3 DEF Handle, reading
  <2>2. state' \in {state, "DEAD"}
    BY <1>3 DEF Handle, HandleHeader, HandleFeatures, HandleProceed, HandleSuccess,
                HandleFailure, HandleError, HandleOther
  <2> QED
    BY <1>0, <2>1, <2>2 DEF WaitInv
<1>4. CASE StartTls
  BY <1>0, <1>4 DEF WaitInv, StartTls, Signal, reading
<1>5. CASE TlsDone
  BY <1>0, <1>5 DEF WaitInv, TlsDone, Signal
<1>6. CASE Over \/ Ends
  BY <1>0, <1>6 DEF WaitInv, Over, Ends, Quit, CancelReader, CancelDispatch, CancelReaderWait,
                    CancelDispatchWait, Joined, reading
<1>7. CASE ServerReplies \/ ServerCloses
  BY <1>0, <1>7 DEF WaitInv, ServerReplies, ServerCloses, reading
<1> QED
  BY <1>1, <1>2, <1>3, <1>4, <1>5, <1>6, <1>7 DEF Next, Dispatches

LEMMA UnpollKept ==
  ASSUME Inv, Next
  PROVE  (rpc = "unpoll" => polled)'
<1>0. rpc = "unpoll" => polled
  BY DEF Inv
<1> USE DEF reading
<1>1. CASE Reads
  BY <1>0, <1>1 DEF Reads, ReaderTop, ReaderPoll, ReaderRecv, ReaderUnpoll, ReaderPost,
                    ReaderCleanup, ReaderClose
<1>2. CASE Dispatches
  BY <1>0, <1>2 DEF Dispatches, DispatchTop, DispatchGet, Handle, StartTls, TlsLock, TlsDone,
                    DispatchClose
<1>3. CASE Over \/ Ends
  BY <1>0, <1>3 DEF Over, Ends, Quit, CancelReader, CancelDispatch, CancelReaderWait,
                    CancelDispatchWait, Joined
<1>4. CASE ServerReplies \/ ServerCloses
  BY <1>0, <1>4 DEF ServerReplies, ServerCloses
<1> QED
  BY <1>1, <1>2, <1>3, <1>4 DEF Next
-----------------------------------------------------------------------------
(* The stages, by any step. *)
LEMMA DialogueStep ==
  ASSUME Inv, Next
  PROVE  DialogueInv'
<1>1. TypeOK /\ ChannelInv /\ DialogueInv
  BY DEF Inv
<1> QED
  BY <1>1, QuietDialogue, HandleDialogue, StartTlsDialogue, TlsDoneDialogue,
     ServerRepliesDialogue, ServerClosesDialogue DEF Next, Dispatches, Quietly, Left

LEMMA TypeKept ==
  ASSUME Inv, Next
  PROVE  TypeOK'
BY ReadsTyped, DispatchesTyped, OthersTyped DEF Next
-----------------------------------------------------------------------------
(* Where the <proceed/> is, and the state that the reader waits by. *)
LEMMA NothingIsComing ==
  ASSUME TypeOK, ChannelInv, Coming = <<>>, rpc \notin {"close", "gone"}
  PROVE  dpc # "handle" /\ ring = <<>> /\ InRead = <<>> /\ net = <<>>
<1>1. /\ Hand \in Seq(Messages) /\ Behind \in Seq(Messages) /\ Coming = Hand \o Behind
      /\ ring \in Seq(Messages) /\ InRead \o net \in Seq(Messages)
      /\ InRead \in Seq(Messages) /\ net \in Seq(Messages)
  BY ComingParts
<1>0. ASSUME NEW a \in Seq(Messages), NEW b \in Seq(Messages), a \o b = <<>>
      PROVE  a = <<>> /\ b = <<>>
  <2>1. Len(a \o b) = Len(a) + Len(b) /\ Len(a \o b) = 0 /\ Len(a) \in Nat /\ Len(b) \in Nat
    BY <1>0
  <2>2. Len(a) = 0 /\ Len(b) = 0
    BY <2>1
  <2> QED
    BY <2>2
<1>2. Hand = <<>> /\ Behind = <<>>
  BY <1>0, <1>1, Zenon
<1>3. ring \o (InRead \o net) = <<>>
  BY <1>2 DEF Behind
<1>4. ring = <<>> /\ InRead \o net = <<>>
  BY <1>0, <1>1, <1>3, Zenon
<1>5. InRead = <<>> /\ net = <<>>
  BY <1>0, <1>1, <1>4, Zenon
<1>6. dpc # "handle"
  <2>1. <<dmsg>> # <<>>
    OBVIOUS
  <2> QED
    BY <1>2, <2>1 DEF Hand
<1> QED
  BY <1>4, <1>5, <1>6

Grants(c) == c # <<>> /\ Head(c).tag = "proceed"

(* The parts of SocketInv that are about the state alone. *)
StateInv ==
  /\ main = "run" /\ rpc \notin {"gone", "cancelled"}
  /\ state = "DEAD" => dpc \in {"top", "close"}
  /\ state = "POLL" => rpc \in {"recv", "unpoll"} /\ polled
  /\ 1 \in live => state \notin {"TLS_INIT", "RUN"}
  /\ dpc \in {"lock", "tls"} => state = "TLS_INIT" /\ Away

RequestInv ==
  out = <<"starttls">> /\ server # "closed" => state = "TLS_INIT" /\ rpc = "recv" /\ polled

WithReader ==
  \/ Away /\ (dpc = "handle" \/ ring # <<>>)
  \/ rpc \in {"unpoll", "post"} /\ dpc # "handle" /\ ring = <<>> /\ rmsg # End
  \/ rpc = "recv" /\ polled /\ dpc # "handle" /\ ring = <<>>

GrantInv == auths = <<>> /\ Grants(Coming) => state = "TLS_INIT" /\ WithReader

LEMMA SocketParts == SocketInv <=> StateInv /\ RequestInv /\ GrantInv
BY DEF SocketInv, StateInv, RequestInv, GrantInv, Grants, WithReader

LEMMA SocketPartsNext == SocketInv' <=> StateInv' /\ RequestInv' /\ GrantInv'
BY DEF SocketInv, StateInv, RequestInv, GrantInv, Grants, WithReader, Away

(* What is asked of the service and of the stages. *)
LEMMA RequestIsAsked ==
  ASSUME DialogueInv, out = <<"starttls">>
  PROVE  Asked
<1>1. <<"starttls">> # <<>> /\ <<"starttls">> # <<"open">> /\ <<"starttls">> # <<"auth">>
      /\ <<"starttls">> # <<"open", "bind">> /\ <<"starttls">> # <<"bind">>
  OBVIOUS
<1> QED
  BY <1>1 DEF DialogueInv, Opened, Asking, Granted, Authenticating, Binding

LEMMA NoGrantInNothing ==
  ASSUME Follows(<<>>)
  PROVE  ~Grants(Coming)
BY FollowsReaches, ReachesNothing, ErrorIsMessage DEF Grants

LEMMA RequestIsSilent ==
  ASSUME TypeOK, ChannelInv, DialogueInv, out = <<"starttls">> \/ Asking, server # "closed"
  PROVE  Coming = <<>>
<1>1. CASE out = <<"starttls">>
  <2>1. Asked /\ out # <<>>
    BY <1>1, RequestIsAsked
  <2>2. Follows(<<>>)
    BY <2>1 DEF Asked
  <2> QED
    BY <2>2 DEF Follows
<1>2. CASE Asking
  BY <1>2 DEF Asking, Follows
<1> QED
  BY <1>1, <1>2

(* The reader. *)
LEMMA ReadsSocket ==
  ASSUME Inv, Reads, ~sigint'
  PROVE  SocketInv'
<1>0. /\ TypeOK /\ ChannelInv /\ DialogueInv /\ SocketInv /\ ~sigint
      /\ (rpc = "unpoll" => polled) /\ SameLogin
  <2>1. ~sigint
    BY DEF Reads, ReaderTop, ReaderPoll, ReaderRecv, ReaderUnpoll, ReaderPost, ReaderCleanup,
           ReaderClose
  <2> QED
    BY <2>1, QuietLogin DEF Inv, Quietly
<1>1. StateInv /\ RequestInv /\ GrantInv
  BY <1>0, SocketParts
<1>2. out = <<"starttls">> /\ server # "closed" => Coming = <<>>
  BY <1>0, RequestIsSilent
<1>3. auths' = auths /\ live' = live /\ out' = out /\ server' = server
  BY <1>0 DEF SameLogin
<1>4. ~ReaderClose
  BY DEF ReaderClose
<1>5. CASE ReaderTop
  <2>1. Coming' = Coming
    BY <1>5, ReaderElseComing
  <2>2. /\ rpc = "top" /\ UNCHANGED <<state, dpc, ring, rmsg, main>>
        /\ rpc' \in {"cleanup", "recv", "poll"}
        /\ state # "DEAD" /\ state # "RUN" => rpc' = "poll"
    <3>1. /\ rpc = "top" /\ UNCHANGED <<state, dpc, ring, rmsg, main>>
      BY <1>5 DEF ReaderTop
    <3>2. rpc' \in {"cleanup", "recv", "poll"}
      BY <1>5 DEF ReaderTop
    <3>3. state # "DEAD" /\ state # "RUN" => rpc' = "poll"
      BY <1>5 DEF ReaderTop
    <3> QED
      BY <3>1, <3>2, <3>3
  <2>3. StateInv'
    BY <1>1, <1>3, <2>2 DEF StateInv, Away
  <2>4. RequestInv'
    BY <1>1, <1>3, <2>2 DEF RequestInv
  <2>5. GrantInv'
    BY <1>1, <1>3, <2>1, <2>2 DEF GrantInv, WithReader, Away, End, Grants
  <2> QED
    BY <2>3, <2>4, <2>5, SocketPartsNext
<1>6. CASE ReaderPoll
  <2>1. Coming' = Coming
    BY <1>6, ReaderElseComing
  <2>2. /\ rpc \in {"poll", "wait"} /\ UNCHANGED <<dpc, ring, rmsg, main>>
        /\ \/ state = "TLS_INIT" /\ rpc' = "wait" /\ UNCHANGED <<state, polled>>
           \/ /\ state # "TLS_INIT" /\ state' = (IF state = "INIT" THEN "POLL" ELSE state)
              /\ rpc' = "recv" /\ polled'
    BY <1>6 DEF ReaderPoll
  <2>3. StateInv'
    BY <1>1, <1>3, <2>2 DEF StateInv, Away
  <2>4. RequestInv'
    BY <1>1, <1>3, <2>2 DEF RequestInv
  <2>5. GrantInv'
    BY <1>1, <1>3, <2>1, <2>2 DEF GrantInv, WithReader, Away, End, Grants
  <2> QED
    BY <2>3, <2>4, <2>5, SocketPartsNext
<1>7. CASE ReaderRecv
  <2>1. Coming' = Coming
    BY <1>0, <1>7, ReaderRecvComing
  <2>2. /\ rpc = "recv" /\ rpc' = (IF polled THEN "unpoll" ELSE "post")
        /\ UNCHANGED <<state, polled, dpc, ring, main>>
    BY <1>7 DEF ReaderRecv
  <2>3. StateInv'
    BY <1>1, <1>3, <2>2 DEF StateInv, Away
  <2>4. RequestInv'
    <3>1. ASSUME out = <<"starttls">>, server # "closed" PROVE FALSE
      <4>1. net = <<>>
        BY <1>0, <1>2, <2>2, <3>1, NothingIsComing
      <4> QED
        BY <1>7, <3>1, <4>1 DEF ReaderRecv
    <3> QED
      BY <1>3, <3>1 DEF RequestInv
  <2>5. GrantInv'
    <3>1. SUFFICES ASSUME auths = <<>>, Grants(Coming)
                   PROVE  state' = "TLS_INIT" /\ WithReader'
      BY <1>3, <2>1 DEF GrantInv, Grants
    <3>2. state = "TLS_INIT" /\ polled /\ dpc # "handle" /\ ring = <<>>
      BY <1>1, <2>2, <3>1 DEF GrantInv, WithReader, Away
    <3>3. net # <<>>
      <4>1. Hand = <<>> /\ InRead = <<>>
        BY <2>2, <3>2 DEF Hand, InRead
      <4>2. Coming = <<>> \o (<<>> \o (<<>> \o net))
        BY <2>2, <3>2, <4>1 DEF Coming
      <4> QED
        BY <3>1, <4>2 DEF Grants
    <3>4. rmsg' # End
      <4>1. rmsg' = Head(net) /\ net \in Seq(Messages)
        BY <1>0, <1>7, <3>3 DEF ReaderRecv, TypeOK
      <4>2. rmsg' \in Messages
        BY <3>3, <4>1
      <4> QED
        BY <4>2, EndIsNoMessage
    <3> QED
      BY <2>2, <3>2, <3>4 DEF WithReader, End
  <2> QED
    BY <2>3, <2>4, <2>5, SocketPartsNext
<1>8. CASE ReaderUnpoll
  <2>1. Coming' = Coming
    BY <1>8, ReaderElseComing
  <2>2. /\ rpc = "unpoll" /\ rpc' = "post" /\ UNCHANGED <<dpc, ring, rmsg, main>>
        /\ state' = (IF state = "POLL" THEN "INIT" ELSE state)
    BY <1>8 DEF ReaderUnpoll
  <2>3. StateInv'
    BY <1>1, <1>3, <2>2 DEF StateInv, Away
  <2>4. RequestInv'
    BY <1>1, <1>3, <2>2 DEF RequestInv
  <2>5. GrantInv'
    BY <1>1, <1>3, <2>1, <2>2 DEF GrantInv, WithReader, Away, End, Grants
  <2> QED
    BY <2>3, <2>4, <2>5, SocketPartsNext
<1>9. CASE ReaderPost
  <2>1. Coming' = Coming
    BY <1>0, <1>9, ReaderPostComing
  <2>2. /\ rpc = "post" /\ UNCHANGED <<state, dpc, rmsg, main>>
        /\ \/ rmsg = End /\ rpc' = "cleanup" /\ ring' = ring
           \/ rmsg # End /\ rpc' = "top" /\ ring' = Append(ring, rmsg)
    BY <1>9 DEF ReaderPost
  <2>3. StateInv'
    BY <1>1, <1>3, <2>2 DEF StateInv, Away
  <2>4. RequestInv'
    BY <1>1, <1>3, <2>2 DEF RequestInv
  <2>5. GrantInv'
    <3>1. SUFFICES ASSUME auths = <<>>, Grants(Coming)
                   PROVE  state' = "TLS_INIT" /\ WithReader'
      BY <1>3, <2>1 DEF GrantInv, Grants
    <3>2. state = "TLS_INIT" /\ rmsg # End
      BY <1>1, <2>2, <3>1 DEF GrantInv, WithReader, Away
    <3>3. rpc' = "top" /\ ring' # <<>>
      <4>1. ring' = Append(ring, rmsg) /\ rpc' = "top" /\ ring \in Seq(Messages \cup {End})
        BY <1>0, <2>2, <3>2 DEF TypeOK
      <4>2. rmsg \in Messages \cup {End}
        BY <1>0 DEF TypeOK
      <4> QED
        BY <4>1, <4>2
    <3> QED
      BY <2>2, <3>2, <3>3 DEF WithReader, Away
  <2> QED
    BY <2>3, <2>4, <2>5, SocketPartsNext
<1>10. CASE ReaderCleanup
  <2>1. /\ Coming' = Hand
        /\ Coming' = <<>> \/ (Coming # <<>> /\ Coming' = <<Head(Coming)>>)
    BY <1>0, <1>10, ReaderCleanupComing
  <2>2. /\ rpc = "cleanup" /\ rpc' = "close" /\ UNCHANGED <<state, dpc, main>>
    BY <1>1, <1>10 DEF ReaderCleanup, StateInv
  <2>3. StateInv'
    BY <1>1, <1>3, <2>2 DEF StateInv, Away
  <2>4. RequestInv'
    BY <1>1, <1>3, <2>2 DEF RequestInv
  <2>5. GrantInv'
    <3>1. ~ (auths = <<>> /\ Grants(Coming))
      BY <1>1, <2>2 DEF GrantInv, WithReader, Away
    <3>2. Grants(Coming') => Grants(Coming)
      <4>1. CASE Coming' = <<>>
        BY <4>1 DEF Grants
      <4>2. CASE Coming # <<>> /\ Coming' = <<Head(Coming)>>
        <5>1. Head(<<Head(Coming)>>) = Head(Coming)
          OBVIOUS
        <5> QED
          BY <4>2, <5>1 DEF Grants
      <4> QED
        BY <2>1, <4>1, <4>2
    <3> QED
      BY <1>3, <3>1, <3>2 DEF GrantInv, Grants
  <2> QED
    BY <2>3, <2>4, <2>5, SocketPartsNext
<1> QED
  BY <1>4, <1>5, <1>6, <1>7, <1>8, <1>9, <1>10 DEF Reads

(* Dispatch. *)
LEMMA HandleSocket ==
  ASSUME Inv, Handle, ~sigint
  PROVE  SocketInv'
<1>0. TypeOK /\ ChannelInv /\ DialogueInv /\ SocketInv
  BY DEF Inv
<1>1. StateInv /\ RequestInv /\ GrantInv
  BY <1>0, SocketParts
<1>2. Left
  BY <1>0, HandleDialogue
<1>3. /\ dpc = "handle" /\ dpc' \in {"top", "starttls", "lock"}
      /\ Coming # <<>> /\ Head(Coming) = dmsg /\ dmsg.tag \in Tags /\ table \in Tables
      /\ UNCHANGED <<server, rpc, polled, main>>
      /\ \/ \E i \in DOMAIN table : Handles(i, dmsg.tag) /\ Runs(i)
         \/ HandleOther
  <2>1. UNCHANGED <<rpc, polled, main>>
    BY DEF Handle, reading
  <2> QED
    BY <1>0, <2>1, HandleCases DEF TypeOK
<1>4. ASSUME NEW i \in DOMAIN table, Handles(i, dmsg.tag), Runs(i)
      PROVE  /\ state' = state \/ (state' = "DEAD" /\ dpc' = "top")
             /\ live' \subseteq live
             /\ dpc' = "lock" => dmsg.tag = "proceed" /\ ~Lacks(table, {"proceed"})
  <2>1. table[i] # NULL /\ table[i].query = dmsg.tag
    BY <1>3, <1>4, HandlesIts
  <2>2. CASE HandleHeader(i) \/ HandleFeatures(i)
    <3>1. state' = state /\ dpc' \in {"top", "starttls"} /\ live' \subseteq live
      BY <2>2 DEF HandleHeader, HandleFeatures, Features, Sasl
    <3> QED
      BY <3>1
  <2>3. CASE HandleProceed(i)
    BY <2>1, <2>3 DEF HandleProceed, Lacks
  <2>4. CASE HandleSuccess(i) \/ HandleFailure(i) \/ HandleError(i)
    BY <2>4 DEF HandleSuccess, HandleFailure, HandleError
  <2> QED
    BY <1>4, <2>2, <2>3, <2>4 DEF Runs
<1>5. /\ state' = state \/ (state' = "DEAD" /\ dpc' = "top")
      /\ live' \subseteq live
      /\ dpc' = "lock" => dmsg.tag = "proceed" /\ ~Lacks(table, {"proceed"})
  <2>1. HandleOther => state' = state /\ live' = live /\ dpc' = "top"
    BY DEF HandleOther
  <2> QED
    BY <1>3, <1>4, <2>1
<1>6. dpc' = "lock" => state = "TLS_INIT" /\ Away
  <2> SUFFICES ASSUME dpc' = "lock" PROVE state = "TLS_INIT" /\ Away
    OBVIOUS
  <2>1. Asked
    BY <1>0, <1>3, <1>5 DEF DialogueInv, Opened, Asking, Granted, Authenticating, Binding,
                            Sent, Lacks
  <2>2. auths = <<>> /\ Grants(Coming)
    BY <1>3, <1>5, <2>1 DEF Asked, Plain, Grants
  <2> QED
    BY <1>1, <1>3, <2>2 DEF GrantInv, WithReader
<1>7. StateInv'
  BY <1>1, <1>3, <1>5, <1>6 DEF StateInv, Away
<1>8. RequestInv'
  <2>1. ~ (out = <<"starttls">> /\ server # "closed")
    <3>1. out = <<"starttls">> /\ server # "closed" => Coming = <<>>
      BY <1>0, RequestIsSilent
    <3> QED
      BY <1>3, <3>1
  <2>2. out' = <<"starttls">> => out = <<"starttls">>
    <3>1. <<"auth">> # <<"starttls">> /\ <<"open", "bind">> # <<"starttls">>
      OBVIOUS
    <3> QED
      BY <1>2, <3>1 DEF Left
  <2> QED
    BY <1>3, <2>1, <2>2 DEF RequestInv
<1>9. GrantInv'
  BY <1>2 DEF Left, GrantInv, Grants
<1> QED
  BY <1>7, <1>8, <1>9, SocketPartsNext

LEMMA StartTlsSocket ==
  ASSUME Inv, StartTls, ~sigint
  PROVE  SocketInv'
<1>0. TypeOK /\ ChannelInv /\ DialogueInv /\ SocketInv
  BY DEF Inv
<1>1. StateInv /\ RequestInv /\ GrantInv
  BY <1>0, SocketParts
<1>2. /\ dpc \in {"starttls", "wait"} /\ dpc' \in {"wait", "top"}
      /\ UNCHANGED <<rpc, polled, rmsg, ring, net, server, auths, main>>
  BY DEF StartTls, reading
<1>3. Coming' = Coming
  BY <1>2, ElseComing
<1>4. Asking
  BY <1>0, <1>2 DEF DialogueInv, Opened, Asked, Granted, Authenticating, Binding, Sent, Securing
<1>5. live = {1} /\ streams = 1 /\ out = <<>> /\ ~Grants(Coming)
  BY <1>4, NoGrantInNothing DEF Asking, Plain
<1>6. GrantInv'
  BY <1>3, <1>5 DEF GrantInv, Grants
<1>7. CASE state = "INIT"
  <2>1. dpc' = "wait" /\ UNCHANGED <<state, out, live>>
    BY <1>7 DEF StartTls
  <2>2. StateInv'
    BY <1>1, <1>2, <1>7, <2>1 DEF StateInv
  <2>3. RequestInv'
    BY <1>5, <2>1 DEF RequestInv
  <2> QED
    BY <1>6, <2>2, <2>3, SocketPartsNext
<1>8. CASE state # "INIT"
  <2>1. dpc' = "top" /\ state' = "TLS_INIT" /\ live' = {}
    BY <1>5, <1>8 DEF StartTls
  <2>2. state = "POLL" /\ rpc \in {"recv", "unpoll"} /\ polled
    BY <1>0, <1>1, <1>2, <1>5, <1>8 DEF StateInv, TypeOK, States
  <2>3. StateInv'
    BY <1>1, <1>2, <2>1 DEF StateInv
  <2>4. RequestInv'
    <3>1. ASSUME server # "closed", rpc = "unpoll" PROVE FALSE
      <4>1. Coming = <<>>
        BY <1>0, <1>4, <3>1, RequestIsSilent
      <4>2. InRead = <<>>
        BY <1>0, <3>1, <4>1, NothingIsComing
      <4>3. rmsg = End
        <5>1. <<rmsg>> # <<>>
          OBVIOUS
        <5> QED
          BY <3>1, <4>2, <5>1 DEF InRead
      <4> QED
        BY <1>0, <3>1, <4>3 DEF ChannelInv
    <3> QED
      BY <1>2, <2>1, <2>2, <3>1 DEF RequestInv
  <2> QED
    BY <1>6, <2>3, <2>4, SocketPartsNext
<1> QED
  BY <1>7, <1>8

LEMMA TlsDoneSocket ==
  ASSUME Inv, TlsDone, ~sigint
  PROVE  SocketInv'
<1>0. TypeOK /\ ChannelInv /\ DialogueInv /\ SocketInv
  BY DEF Inv
<1>1. StateInv
  BY <1>0, SocketParts
<1>2. /\ dpc = "tls" /\ dpc' = "top" /\ state' \in {"RUN", "DEAD"}
      /\ UNCHANGED <<rpc, polled, rmsg, ring, net, main>>
  BY DEF TlsDone, reading
<1>3. 1 \notin live' /\ out' # <<"starttls">> /\ Follows(<<>>)
  BY <1>0, TlsDoneDialogue
<1>4. Coming' = Coming
  BY <1>2, ElseComing
<1>5. StateInv'
  BY <1>1, <1>2, <1>3 DEF StateInv
<1>6. RequestInv'
  BY <1>3 DEF RequestInv
<1>7. GrantInv'
  BY <1>3, <1>4, NoGrantInNothing DEF GrantInv, Grants
<1> QED
  BY <1>5, <1>6, <1>7, SocketPartsNext

LEMMA DispatchesSocket ==
  ASSUME Inv, Dispatches, ~sigint'
  PROVE  SocketInv'
<1>0. TypeOK /\ ChannelInv /\ DialogueInv /\ SocketInv /\ ~sigint
  <2>1. ~sigint
    BY DEF Dispatches, DispatchTop, DispatchGet, Handle, StartTls, TlsLock, TlsDone,
           DispatchClose
  <2> QED
    BY <2>1 DEF Inv
<1>1. StateInv /\ RequestInv /\ GrantInv
  BY <1>0, SocketParts
<1>2. CASE DispatchTop
  <2>1. /\ dpc = "top" /\ dpc' \in {"close", "get"} /\ (state = "DEAD" => dpc' = "close")
        /\ UNCHANGED <<state, rpc, polled, rmsg, ring, net, server, main, live, out, auths>>
    BY <1>2 DEF DispatchTop, reading, login
  <2>2. Coming' = Coming
    BY <2>1, ElseComing
  <2>3. StateInv'
    BY <1>1, <2>1 DEF StateInv, Away
  <2>4. RequestInv'
    BY <1>1, <2>1 DEF RequestInv
  <2>5. GrantInv'
    BY <1>1, <2>1, <2>2 DEF GrantInv, WithReader, Away, End, Grants
  <2> QED
    BY <2>3, <2>4, <2>5, SocketPartsNext
<1>3. CASE DispatchGet
  <2>1. /\ dpc = "get" /\ dpc' \in {"handle", "close", "aborted"} /\ ring # <<>>
        /\ (Head(ring) # End => dpc' = "handle")
        /\ UNCHANGED <<state, rpc, polled, rmsg, net, server, main, live, out, auths>>
    BY <1>3 DEF DispatchGet, reading, login
  <2>2. Coming' = Coming
    BY <1>0, <1>3, DispatchGetComing
  <2>3. StateInv'
    BY <1>1, <2>1 DEF StateInv, Away
  <2>4. RequestInv'
    BY <1>1, <2>1 DEF RequestInv
  <2>5. GrantInv'
    <3>1. SUFFICES ASSUME auths = <<>>, Grants(Coming)
                   PROVE  state' = "TLS_INIT" /\ WithReader'
      BY <2>1, <2>2 DEF GrantInv, Grants
    <3>2. state = "TLS_INIT" /\ Away
      BY <1>1, <2>1, <3>1 DEF GrantInv, WithReader
    <3>3. Head(ring) # End
      <4>1. ring \in Seq(Messages)
        BY <1>0, <3>2 DEF ChannelInv, Away
      <4>2. Head(ring) \in Messages
        BY <2>1, <4>1
      <4> QED
        BY <4>2, EndIsNoMessage
    <3> QED
      BY <2>1, <3>2, <3>3 DEF WithReader, Away
  <2> QED
    BY <2>3, <2>4, <2>5, SocketPartsNext
<1>4. CASE TlsLock
  <2>1. /\ dpc = "lock" /\ dpc' \in {"tls", "aborted"}
        /\ UNCHANGED <<state, rpc, polled, rmsg, ring, net, server, main, live, out, auths>>
    BY <1>4 DEF TlsLock, reading, login
  <2>2. Coming' = Coming
    BY <2>1, ElseComing
  <2>3. StateInv'
    BY <1>1, <2>1 DEF StateInv, Away
  <2>4. RequestInv'
    BY <1>1, <2>1 DEF RequestInv
  <2>5. GrantInv'
    BY <1>1, <2>1, <2>2 DEF GrantInv, WithReader, Away, End, Grants
  <2> QED
    BY <2>3, <2>4, <2>5, SocketPartsNext
<1>5. ~DispatchClose
  BY DEF DispatchClose
<1> QED
  BY <1>0, <1>2, <1>3, <1>4, <1>5, HandleSocket, StartTlsSocket, TlsDoneSocket DEF Dispatches

(* The service. *)
LEMMA ServerRepliesSocket ==
  ASSUME Inv, ServerReplies, ~sigint
  PROVE  SocketInv'
<1>0. TypeOK /\ ChannelInv /\ DialogueInv /\ SocketInv
  BY DEF Inv
<1>1. StateInv /\ RequestInv /\ GrantInv
  BY <1>0, SocketParts
<1>2. PICK reply \in Replies : net' = net \o reply
  BY DEF ServerReplies
<1>3. /\ server # "closed" /\ out # <<>> /\ out' = Tail(out)
      /\ UNCHANGED <<state, rpc, polled, rmsg, ring, dpc, dmsg, live, auths, main>>
  BY DEF ServerReplies, reading
<1>4. reply \in Seq(Messages) /\ reply # <<>>
  BY RepliesTyped
<1>5. Coming' = Coming \o reply \/ Coming' = Coming
  BY <1>0, <1>2, <1>3, <1>4, SaidComing DEF reading
<1>6. \/ out \in {<<"open">>, <<"auth">>, <<"bind">>, <<"open", "bind">>} /\ ~Asked
      \/ out = <<"starttls">>
  <2>1. CASE Opened \/ Authenticating \/ Binding
    <3>1. out \in {<<"open">>, <<"auth">>, <<"bind">>, <<"open", "bind">>}
      BY <1>3, <2>1 DEF Opened, Authenticating, Binding
    <3>2. out # <<"starttls">>
      <4>1. \A o \in {<<"open">>, <<"auth">>, <<"bind">>, <<"open", "bind">>} : o # <<"starttls">>
        OBVIOUS
      <4> QED
        BY <3>1, <4>1
    <3> QED
      BY <1>3, <3>1, <3>2 DEF Asked
  <2>2. CASE Asked
    BY <1>3, <2>2 DEF Asked
  <2> QED
    BY <1>0, <1>3, <2>1, <2>2 DEF DialogueInv, Asking, Granted
<1>7. out' # <<"starttls">>
  <2>1. out' \in {<<>>, <<"bind">>}
    <3>1. Tail(<<"open", "bind">>) = <<"bind">>
      OBVIOUS
    <3>2. ASSUME NEW x PROVE Tail(<<x>>) = <<>>
      <4>1. x \in {x}
        OBVIOUS
      <4> QED
        BY <4>1, LastOfOne
    <3>3. \/ out = <<"open", "bind">>
          \/ \E x : out = <<x>>
      BY <1>6
    <3> QED
      BY <1>3, <3>1, <3>2, <3>3
  <2>2. <<>> # <<"starttls">> /\ <<"bind">> # <<"starttls">>
    OBVIOUS
  <2> QED
    BY <2>1, <2>2
<1>8. StateInv'
  BY <1>1, <1>3 DEF StateInv, Away
<1>9. RequestInv'
  BY <1>7 DEF RequestInv
<1>10. GrantInv'
  <2>1. SUFFICES ASSUME auths = <<>>, Grants(Coming')
                 PROVE  state' = "TLS_INIT" /\ WithReader'
    BY <1>3 DEF GrantInv, Grants
  <2>2. WithReader' <=> WithReader
    BY <1>3 DEF WithReader, Away, End
  <2>3. CASE Grants(Coming)
    BY <1>1, <1>3, <2>1, <2>2, <2>3 DEF GrantInv
  <2>4. CASE ~Grants(Coming)
    <3>1. Coming \in Seq(Messages)
      BY <1>0 DEF DialogueInv
    <3>2. Coming = <<>> /\ Coming' = reply
      <4>1. Coming # <<>> => Head(Coming \o reply) = Head(Coming)
        BY <1>4, <3>1, Extended
      <4>2. Coming = <<>>
        BY <1>5, <2>1, <2>4, <4>1 DEF Grants
      <4>3. <<>> \o reply = reply
        BY <1>4, EmptyBefore
      <4> QED
        BY <1>5, <2>1, <4>2, <4>3 DEF Grants
    <3>3. Head(reply).tag = "proceed"
      BY <2>1, <3>2 DEF Grants
    <3>4. out = <<"starttls">>
      <4>1. Head(out) \in {"open", "auth", "bind"} => reply[1].tag # "proceed"
        BY DEF Replies, Stanza
      <4>2. Head(reply) = reply[1]
        BY RepliesTyped
      <4>3. \A o \in {<<"open">>, <<"auth">>, <<"bind">>, <<"open", "bind">>} :
              Head(o) \in {"open", "auth", "bind"}
        OBVIOUS
      <4> QED
        BY <1>6, <3>3, <4>1, <4>2, <4>3
    <3>5. state = "TLS_INIT" /\ rpc = "recv" /\ polled
      BY <1>1, <1>3, <3>4 DEF RequestInv
    <3>6. dpc # "handle" /\ ring = <<>>
      BY <1>0, <3>2, <3>5, NothingIsComing
    <3> QED
      BY <1>3, <2>2, <3>5, <3>6 DEF WithReader
  <2> QED
    BY <2>3, <2>4
<1> QED
  BY <1>8, <1>9, <1>10, SocketPartsNext

LEMMA ServerClosesSocket ==
  ASSUME Inv, ServerCloses, ~sigint
  PROVE  SocketInv'
<1>0. TypeOK /\ ChannelInv /\ DialogueInv /\ SocketInv
  BY DEF Inv
<1>1. StateInv /\ RequestInv /\ GrantInv
  BY <1>0, SocketParts
<1>2. PICK last \in {<<>>, <<Error>>} : net' = net \o last
  BY DEF ServerCloses, Error
<1>3. /\ server' = "closed"
      /\ UNCHANGED <<state, rpc, polled, rmsg, ring, dpc, dmsg, live, auths, main>>
  BY DEF ServerCloses, reading, login
<1>4. last \in Seq(Messages)
  BY <1>2, ErrorIsMessage, Alone, Nothing
<1>5. Coming' = Coming \o last \/ Coming' = Coming
  BY <1>0, <1>2, <1>3, <1>4, SaidComing DEF reading
<1>6. Coming \in Seq(Messages)
  BY <1>0 DEF DialogueInv
<1>7. StateInv' /\ RequestInv'
  BY <1>1, <1>3 DEF StateInv, RequestInv, Away
<1>8. Grants(Coming') => Grants(Coming)
  <2>1. CASE Coming # <<>>
    <3>1. Head(Coming \o last) = Head(Coming)
      BY <1>4, <1>6, <2>1, Extended
    <3> QED
      BY <1>5, <2>1, <3>1 DEF Grants
  <2>2. CASE Coming = <<>>
    <3>1. Coming' = <<>> \/ Coming' = <<Error>>
      <4>1. <<>> \o last = last
        BY <1>4, EmptyBefore
      <4> QED
        BY <1>2, <1>5, <2>2, <4>1
    <3>2. Head(<<Error>>) = Error
      OBVIOUS
    <3> QED
      BY <3>1, <3>2, ErrorIsMessage DEF Grants
  <2> QED
    BY <2>1, <2>2
<1>9. GrantInv'
  <2>1. WithReader' <=> WithReader
    BY <1>3 DEF WithReader, Away, End
  <2> QED
    BY <1>1, <1>3, <1>8, <2>1 DEF GrantInv, Grants
<1> QED
  BY <1>7, <1>9, SocketPartsNext

LEMMA SocketKept ==
  ASSUME Inv, Next, ~sigint'
  PROVE  SocketInv'
<1>1. ~Over
  BY DEF Over
<1>2. ~Ends
  <2>1. ASSUME Ends PROVE FALSE
    <3>1. ~sigint
      BY <2>1 DEF Ends, Quit, CancelReader, CancelDispatch, CancelReaderWait,
                  CancelDispatchWait, Joined
    <3>2. main = "run"
      BY <3>1 DEF Inv, SocketInv
    <3> QED
      BY <2>1, <3>1, <3>2 DEF Ends, Quit, CancelReader, CancelDispatch, CancelReaderWait,
                              CancelDispatchWait, Joined
  <2> QED
    BY <2>1
<1>3. ServerReplies \/ ServerCloses => ~sigint
  BY DEF ServerReplies, ServerCloses
<1> QED
  BY <1>1, <1>2, <1>3, ReadsSocket, DispatchesSocket, ServerRepliesSocket, ServerClosesSocket
     DEF Next
-----------------------------------------------------------------------------
LEMMA InitInv ==
  ASSUME Init
  PROVE  Inv
<1> DEFINE t == [i \in 1 .. QUERY_HDLR_MAX |-> NULL]
           n == 0
           a == 1
           r == StreamTable(t, a)
<1>1. t \in Tables /\ FilledTo(t, n) /\ \A S : Lacks(t, S)
  BY DEF Tables, FilledTo, Lacks
<1>2. /\ r \in Tables /\ FilledTo(r, 4)
      /\ Single(r, "?xml", 1) /\ Single(r, "stream:features", 1)
      /\ Lacks(r, {"proceed", "success", "failure"})
  <2>1. n \in 0 .. 6 /\ a \in 0 .. 2 /\ n + 4 = 4 /\ a = 1
    OBVIOUS
  <2> HIDE DEF t, n, a
  <2>2. /\ r \in Tables /\ FilledTo(r, n + 4)
        /\ Single(r, "?xml", a) /\ Single(r, "stream:features", a)
    BY <1>1, <2>1, StreamTableFilled
  <2>3. \A S : Lacks(t, S) /\ S \subseteq {"proceed", "success", "failure"} => Lacks(r, S)
    BY <1>1, <2>1, StreamTableFilled
  <2> QED
    BY <1>1, <2>1, <2>2, <2>3
<1>3. table = r
  BY DEF Init
<1> HIDE DEF t, n, a, r
<1>4. TypeOK
  <2>1. table \in Tables
    BY <1>2, <1>3
  <2>2. /\ ring \in Seq(Messages \cup {End}) /\ Len(ring) < RECV_MSG_MAX
        /\ net \in Seq(Messages) /\ auths \in Seq(Stages)
    <3>1. \A S : <<>> \in Seq(S)
      OBVIOUS
    <3>2. Len(<<>>) = 0
      OBVIOUS
    <3> QED
      BY <3>1, <3>2, HandshakeAssumption DEF Init
  <2> QED
    BY <2>1, <2>2, NobodySleeps DEF Init, TypeOK, States, Stages
<1>5. ChannelInv
  <2>1. <<>> \in Seq(Messages) /\ Len(<<>>) = 0
    OBVIOUS
  <2> QED
    BY <2>1 DEF Init, ChannelInv
<1>6. Coming = <<>>
  <2>1. Hand = <<>> /\ InRead = <<>> /\ ring = <<>> /\ net = <<>> /\ rpc = "top"
    BY DEF Init, Hand, InRead
  <2>2. <<>> \o (<<>> \o (<<>> \o <<>>)) = <<>>
    OBVIOUS
  <2> QED
    BY <2>1, <2>2 DEF Coming
<1>7. DialogueInv
  <2>1. Follows(<<>>) /\ Coming \in Seq(Messages)
    BY <1>6, Nothing DEF Follows
  <2>2. Opened
    BY <1>2, <1>3, <2>1 DEF Init, Opened, Securing
  <2> QED
    BY <2>1, <2>2 DEF DialogueInv
<1>8. WaitInv
  BY DEF Init, WaitInv
<1>9. SocketInv
  <2>1. StateInv
    BY DEF Init, StateInv
  <2>2. RequestInv
    <3>1. <<"open">> # <<"starttls">>
      OBVIOUS
    <3> QED
      BY <3>1 DEF Init, RequestInv
  <2>3. GrantInv
    BY <1>6 DEF GrantInv, Grants
  <2> QED
    BY <2>1, <2>2, <2>3, SocketParts
<1>10. rpc = "unpoll" => polled
  BY DEF Init
<1> QED
  BY <1>4, <1>5, <1>7, <1>8, <1>9, <1>10 DEF Inv

LEMMA NextInv ==
  ASSUME Inv, [Next]_vars
  PROVE  Inv'
<1>1. CASE Next
  <2>1. ~sigint' => SocketInv'
    BY <1>1, SocketKept
  <2> QED
    BY <1>1, <2>1, TypeKept, ChannelKept, DialogueStep, WaitKept, UnpollKept DEF Inv
<1>2. CASE UNCHANGED vars
  <2> USE <1>2 DEF vars
  <2>1. SameLogin
    BY DEF SameLogin
  <2>2. Coming' = Coming /\ dpc' = dpc /\ dmsg' = dmsg
    BY SameComing
  <2>3. TypeOK' /\ ChannelInv' /\ WaitInv' /\ (rpc = "unpoll" => polled)'
    BY DEF Inv, TypeOK, ChannelInv, WaitInv, End
  <2>4. DialogueInv'
    BY <2>1, <2>2, DialogueKept DEF Inv
  <2>5. ~sigint' => SocketInv'
    <3>1. StateInv' <=> StateInv
      BY DEF StateInv, Away
    <3>2. RequestInv' <=> RequestInv
      BY DEF RequestInv
    <3>3. GrantInv' <=> GrantInv
      BY <2>2 DEF GrantInv, Grants, WithReader, Away, End
    <3> QED
      BY <3>1, <3>2, <3>3, SocketParts, SocketPartsNext DEF Inv
  <2> QED
    BY <2>3, <2>4, <2>5 DEF Inv
<1> QED
  BY <1>1, <1>2

(* In every state of a login: what was read and not handled is, in order,    *)
(* what its stage of the dialogue lets the service say; the table holds the  *)
(* handlers of that stage; and while the session is not ending the state     *)
(* tells dispatch where the reader is (readstream's POLL, INIT, TLS_INIT).   *)
THEOREM HandshakeInvariant == Spec => []Inv
<1>1. Init => Inv
  BY InitInv
<1>2. Inv /\ [Next]_vars => Inv'
  BY NextInv
<1> QED
  BY <1>1, <1>2, PTL DEF Spec

(* Every variable keeps its type; the incoming ring and the table of         *)
(* handlers never fill, and the reader and dispatch never both sleep on      *)
(* _cond_readstream, so that no signal wakes the wrong one.                  *)
THEOREM HandshakeTypeCorrect == Spec => []TypeOK
<1>1. Inv => TypeOK
  BY DEF Inv
<1> QED
  BY <1>1, HandshakeInvariant, PTL

(* While xmpp_starttls_cb_() negotiates TLS the reader is not in a read.     *)
THEOREM SocketIsAlone == Spec => []SocketAlone
<1>1. Inv => SocketAlone
  BY DEF Inv, SocketInv, SocketAlone, Away
<1> QED
  BY <1>1, HandshakeInvariant, PTL

(* The handler of a header or of features that is about to run was given     *)
(* arguments that no other callback of that stream has freed.                *)
LEMMA InvArgsAlive ==
  ASSUME Inv
  PROVE  ArgsAlive
<1>0. TypeOK /\ ChannelInv /\ DialogueInv
  BY DEF Inv
<1> SUFFICES ASSUME dpc = "handle", dmsg.features # NULL,
                    NEW i \in DOMAIN table, Handles(i, dmsg.tag)
             PROVE  table[i].args \in live
  BY DEF ArgsAlive
<1>1. /\ dmsg \in Messages /\ dmsg.tag \in {"?xml", "stream:features"} /\ table \in Tables
  BY <1>0, ComingParts DEF Messages, TypeOK
<1>2. table[i] # NULL /\ table[i].query = dmsg.tag
  BY <1>1, HandlesIts DEF Tags
<1>3. Coming # <<>> /\ Head(Coming) = dmsg
  <2>1. Hand = <<dmsg>>
    BY <1>0, ComingParts
  <2>2. CASE rpc \in {"close", "gone"}
    BY <1>1, <2>1, <2>2 DEF Coming
  <2>3. CASE rpc \notin {"close", "gone"}
    <3>1. Behind \in Seq(Messages) /\ Coming = <<dmsg>> \o Behind
      BY <1>0, <2>1, <2>3, ComingParts
    <3> QED
      BY <1>1, <3>1, TailOfPreceded
  <2> QED
    BY <2>2, <2>3
<1>4. \A q \in {"proceed"} : dmsg # Stanza(q, NULL) /\ dmsg # Error
  BY DEF Stanza, Error
<1>5. ~Follows(<<>>) /\ ~Follows(<<Stanza("proceed", NULL)>>)
  BY <1>3, <1>4, FollowsReaches, ReachesNothing, ReachesOne
<1>6. Opened
  <2>1. ~Asking /\ ~Asked /\ ~Granted
    BY <1>5 DEF Asking, Asked, Granted
  <2>2. ~Sent
    BY <1>1, <1>2 DEF Sent, Lacks
  <2> QED
    BY <1>0, <2>1, <2>2 DEF DialogueInv, Authenticating, Binding
<1>7. live = {streams} /\ Single(table, "stream:features", streams)
  BY <1>6 DEF Opened
<1>8. dmsg.tag = "?xml" => Single(table, "?xml", streams)
  BY <1>1, <1>2, <1>6 DEF Opened, Lacks
<1> QED
  BY <1>1, <1>2, <1>7, <1>8 DEF Single

THEOREM ArgsAreAlive == Spec => []ArgsAlive
<1>1. Inv => ArgsAlive
  BY InvArgsAlive
<1> QED
  BY <1>1, HandshakeInvariant, PTL

(* Credentials are sent once, whatever the service offers on later streams,  *)
(* and where TLS is wanted and offered only after xmpp_starttls_cb_() set it *)
(* up.                                                                       *)
LEMMA InvAuthOnce ==
  ASSUME Inv
  PROVE  AuthOnce
<1>1. auths = <<>> \/ (Len(auths) = 1 /\ (UseTls /\ tlsOffered => auths[1] # "plain"))
  BY DEF Inv, DialogueInv, Opened, Asking, Asked, Granted, Plain, Authenticating, Binding, Sent
<1>2. auths \in Seq(Stages)
  BY DEF Inv, TypeOK
<1>3. CASE auths = <<>>
  BY <1>3 DEF AuthOnce
<1>4. CASE Len(auths) = 1 /\ (UseTls /\ tlsOffered => auths[1] # "plain")
  <2>1. DOMAIN auths = 1 .. 1
    BY <1>2, <1>4
  <2> QED
    BY <1>4, <2>1 DEF AuthOnce
<1> QED
  BY <1>1, <1>3, <1>4

THEOREM AuthIsOnce == Spec => []AuthOnce
<1>1. Inv => AuthOnce
  BY InvAuthOnce
<1> QED
  BY <1>1, HandshakeInvariant, PTL

(* The assertion of qh_register() does not fail: until the credentials are   *)
(* sent, after which nothing is registered, two slots are free at the end of *)
(* the table, for the two handlers of xmpp_sasl() or the one of              *)
(* xmpp_starttls(), and four while TLS is negotiated, for those of a stream. *)
RoomToRegister ==
  /\ auths = <<>> => FilledTo(table, QUERY_HDLR_MAX - 2)
  /\ dpc = "tls" => FilledTo(table, QUERY_HDLR_MAX - 4)

LEMMA InvRoomToRegister ==
  ASSUME Inv
  PROVE  RoomToRegister
<1>0. TypeOK /\ DialogueInv
  BY DEF Inv
<1>1. DOMAIN table = 1 .. QUERY_HDLR_MAX /\ QUERY_HDLR_MAX \in Nat /\ QUERY_HDLR_MAX > 10
  BY <1>0, HandshakeAssumption DEF TypeOK, Tables
<1>2. ASSUME NEW n \in Nat, NEW m \in Int, n =< m, FilledTo(table, n)
      PROVE  FilledTo(table, m)
  BY <1>1, <1>2 DEF FilledTo
<1>3. auths = <<>> => FilledTo(table, 4) \/ FilledTo(table, 5) \/ FilledTo(table, 9)
  <2>1. Sent => auths # <<>>
    <3>1. auths \in Seq(Stages)
      BY <1>0 DEF TypeOK
    <3> QED
      BY <3>1, OfLengthOne DEF Sent
  <2>2. Opened => FilledTo(table, 4) \/ FilledTo(table, 9)
    BY DEF Opened
  <2>3. Asking \/ Asked \/ Granted => FilledTo(table, 5)
    BY DEF Asking, Asked, Granted, Plain
  <2> QED
    BY <1>0, <2>1, <2>2, <2>3 DEF DialogueInv, Authenticating, Binding
<1>4. dpc = "tls" => FilledTo(table, 5)
  BY <1>0 DEF DialogueInv, Opened, Asking, Asked, Granted, Plain, Authenticating, Binding, Sent,
              Securing
<1>5. /\ 4 =< QUERY_HDLR_MAX - 2 /\ 5 =< QUERY_HDLR_MAX - 2 /\ 9 =< QUERY_HDLR_MAX - 2
      /\ 5 =< QUERY_HDLR_MAX - 4 /\ QUERY_HDLR_MAX - 2 \in Int /\ QUERY_HDLR_MAX - 4 \in Int
  BY <1>1
<1> QED
  BY <1>2, <1>3, <1>4, <1>5 DEF RoomToRegister

THEOREM NeverOverflows == Spec => []RoomToRegister
<1>1. Inv => RoomToRegister
  BY InvRoomToRegister
<1> QED
  BY <1>1, HandshakeInvariant, PTL
=============================================================================
