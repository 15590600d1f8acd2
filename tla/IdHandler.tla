------------------------------ MODULE IdHandler ------------------------------
(***************************************************************************)
(* Requests and their answers: the table of answer handlers of              *)
(* src/xmpp/id_handler.c, xmpp_send_iq() of src/xmpp/send.c and the routing *)
(* of an incoming stanza by src/threads/thread_dispatch.c.                  *)
(*                                                                         *)
(* Any thread sends requests; dispatch alone handles stanzas, and its       *)
(* callbacks send requests too.  Each critical section of _lock_id and of   *)
(* _lock_handlers is one action.  The scan of the table leaves its critical *)
(* section to run the callback of an expired handler, so the table may      *)
(* change in the middle of a scan.  All handlers here are non-permanent,    *)
(* which is how the source registers every one of them.                     *)
(***************************************************************************)
EXTENDS Naturals, Sequences, FiniteSets

CONSTANTS Callers,    \* the threads that send requests beside dispatch
          Dispatch,   \* the dispatch thread
          Requests,   \* the requests, each with its own callback
          IDH_SIZE,   \* the initial size of the table
          MaxPeer,    \* how many stanzas come from elsewhere (bound)
          NULL, PEER, EXPIRED

ASSUME IdHandlerAssumption ==
  /\ IDH_SIZE \in Nat \ {0} /\ MaxPeer \in Nat
  /\ IsFiniteSet(Requests)
  /\ Dispatch \notin Callers
  /\ {NULL, PEER, EXPIRED} \cap Requests = {}

VARIABLES
  lastId,    \* the counter _id
  handlers,  \* the table: a request, or NULL where the slot is free
  old,       \* requests registered more than 120 seconds ago
  pc, cur,   \* where each thread is in xmpp_send_iq(), and its request
  id,        \* the id a request was sent under, 0 before
  wire,      \* requests the server has still to answer
  answered,  \* requests whose answer dispatch has handled or dropped
  peers,     \* how many stanzas came from elsewhere
  dpc,       \* where dispatch is
  stanza,    \* the stanza it handles: its id, and the request it answers or PEER
  pos,       \* where the scan goes on
  calls,     \* how often the callback of a request ran
  got        \* what its callback was last given

vars == <<lastId, handlers, old, pc, cur, id, wire, answered, peers,
          dpc, stanza, pos, calls, got>>
sending == <<lastId, pc, cur, id>>

Threads == Callers \cup {Dispatch}
Ids == 1 .. Cardinality(Requests)
NoStanza == [id |-> 0, of |-> NULL]

Init ==
  /\ lastId = 0
  /\ handlers = [i \in 1 .. IDH_SIZE |-> NULL]
  /\ old = {}
  /\ pc = [t \in Threads |-> "idle"] /\ cur = [t \in Threads |-> NULL]
  /\ id = [r \in Requests |-> 0]
  /\ wire = {} /\ answered = {} /\ peers = 0
  /\ dpc = "idle" /\ stanza = NoStanza /\ pos = 1
  /\ calls = [r \in Requests |-> 0] /\ got = [r \in Requests |-> NULL]

-----------------------------------------------------------------------------
(* xmpp_send_iq(), with a callback *)

(* idh_generate_unique_id(), inside _lock_id.  Dispatch sends from callbacks. *)
Increment(t, r) ==
  /\ pc[t] = "idle"
  /\ t = Dispatch => dpc \in {"callback", "expiry", "query"}
  /\ id[r] = 0 /\ r \notin {cur[u] : u \in Threads}
  /\ lastId' = lastId + 1
  /\ cur' = [cur EXCEPT ![t] = r]
  /\ pc' = [pc EXCEPT ![t] = "incremented"]
  /\ UNCHANGED <<handlers, old, id, wire, answered, peers, dpc, stanza, pos, calls, got>>

(* ... and after _lock_id was released: sprintf() reads the counter again.  *)
Format(t) ==
  /\ pc[t] = "incremented"
  /\ id' = [id EXCEPT ![cur[t]] = lastId]
  /\ pc' = [pc EXCEPT ![t] = "named"]
  /\ UNCHANGED <<lastId, cur, handlers, old, wire, answered, peers, dpc, stanza,
                 pos, calls, got>>

(* A doubling whose memset() starts at the beginning of the table. *)
MutantRoom ==
  IF \E i \in DOMAIN handlers : handlers[i] = NULL THEN handlers
  ELSE [i \in 1 .. 2 * Len(handlers) |-> NULL]

(* The table, twice as long where no slot is free. *)
Room ==
  IF \E i \in DOMAIN handlers : handlers[i] = NULL THEN handlers
  ELSE handlers \o [i \in 1 .. Len(handlers) |-> NULL]

(* The last slot of the table. *)
MutantFirstFree(table) == Len(table)

FirstFree(table) ==
  CHOOSE i \in DOMAIN table :
    /\ table[i] = NULL
    /\ \A j \in 1 .. i - 1 : table[j] # NULL

(* The callback of an expired handler is run without releasing the lock.    *)
MutantRegister(t) ==
  /\ pc[t] = "named"
  /\ dpc # "expiry"
  /\ handlers' = [Room EXCEPT ![FirstFree(Room)] = cur[t]]
  /\ pc' = [pc EXCEPT ![t] = "registered"]
  /\ UNCHANGED <<lastId, cur, id, old, wire, answered, peers, dpc, stanza, pos, calls, got>>

(* idh_register(), inside _lock_handlers *)
Register(t) ==
  /\ pc[t] = "named"
  /\ handlers' = [Room EXCEPT ![FirstFree(Room)] = cur[t]]
  /\ pc' = [pc EXCEPT ![t] = "registered"]
  /\ UNCHANGED <<lastId, cur, id, old, wire, answered, peers, dpc, stanza, pos, calls, got>>

Post(t) ==
  /\ pc[t] = "registered"
  /\ wire' = wire \cup {cur[t]}
  /\ cur' = [cur EXCEPT ![t] = NULL]
  /\ pc' = [pc EXCEPT ![t] = "idle"]
  /\ UNCHANGED <<lastId, id, handlers, old, answered, peers, dpc, stanza, pos, calls, got>>

-----------------------------------------------------------------------------
(* thread_dispatch() and idh_handle() *)

Receive(s) ==
  /\ dpc = "idle"
  /\ stanza' = s
  /\ pos' = 1
  /\ dpc' = "scan"
  /\ UNCHANGED <<sending, handlers, old, calls, got>>

(* The server answers the requests in any order. *)
Answer(r) ==
  /\ r \in wire
  /\ Receive([id |-> id[r], of |-> r])
  /\ wire' = wire \ {r}
  /\ UNCHANGED <<answered, peers>>

(* A request or a message of another client or of the server, under an id   *)
(* its sender chose with the same "uid%08d".                                *)
FromPeer(i) ==
  /\ peers < MaxPeer
  /\ peers' = peers + 1
  /\ Receive([id |-> i, of |-> PEER])
  /\ UNCHANGED <<wire, answered>>

Matches(i) == handlers[i] # NULL /\ id[handlers[i]] = stanza.id
Expires(i) == handlers[i] # NULL /\ ~Matches(i) /\ handlers[i] \in old

(* Slot i is the next one of the scan that has something to run. *)
Stops(i) ==
  /\ i \in pos .. Len(handlers)
  /\ Matches(i) \/ Expires(i)
  /\ \A j \in pos .. i - 1 : ~Matches(j) /\ ~Expires(j)

(* The slot is freed inside the critical section, the callback runs outside. *)
RunCallback(i, what, l) ==
  /\ handlers' = [handlers EXCEPT ![i] = NULL]
  /\ calls' = [calls EXCEPT ![handlers[i]] = @ + 1]
  /\ got' = [got EXCEPT ![handlers[i]] = what]
  /\ old' = old \ {handlers[i]}
  /\ dpc' = l
  /\ UNCHANGED <<sending, wire, peers, stanza>>

HandleMatch(i) ==
  /\ dpc = "scan"
  /\ Stops(i) /\ Matches(i)
  /\ RunCallback(i, stanza.of, "callback")
  /\ answered' = answered \cup ({stanza.of} \ {PEER})
  /\ UNCHANGED pos

HandleExpired(i) ==
  /\ dpc = "scan"
  /\ Stops(i) /\ Expires(i)
  /\ RunCallback(i, EXPIRED, "expiry")
  /\ pos' = i + 1
  /\ UNCHANGED answered

(* Nobody expects it: an answer is dropped, anything else goes to the query  *)
(* handlers.                                                                *)
HandleNone ==
  /\ dpc = "scan"
  /\ \A i \in pos .. Len(handlers) : ~Stops(i)
  /\ dpc' = IF stanza.of = PEER THEN "query" ELSE "idle"
  /\ answered' = answered \cup ({stanza.of} \ {PEER})
  /\ UNCHANGED <<sending, handlers, old, wire, peers, stanza, pos, calls, got>>

Return ==
  /\ dpc \in {"callback", "expiry", "query"}
  /\ pc[Dispatch] = "idle"
  /\ dpc' = IF dpc = "expiry" THEN "scan" ELSE "idle"
  /\ UNCHANGED <<sending, handlers, old, wire, answered, peers, stanza, pos, calls, got>>

(* Time passes: idh_handle() reads the clock once, before it scans.         *)
Age(r) ==
  /\ dpc = "idle"
  /\ \E i \in DOMAIN handlers : handlers[i] = r
  /\ r \notin old
  /\ old' = old \cup {r}
  /\ UNCHANGED <<sending, handlers, wire, answered, peers, dpc, stanza, pos, calls, got>>

-----------------------------------------------------------------------------
SendStep(t) == Format(t) \/ Register(t) \/ Post(t)

Handle ==
  \/ \E i \in DOMAIN handlers : HandleMatch(i) \/ HandleExpired(i)
  \/ HandleNone
  \/ Return

Next ==
  \/ \E t \in Threads : SendStep(t) \/ \E r \in Requests : Increment(t, r)
  \/ \E r \in Requests : Answer(r) \/ Age(r)
  \/ \E i \in Ids : FromPeer(i)
  \/ Handle

Spec == Init /\ [][Next]_vars

(* Threads run and callbacks return; nobody need send or answer anything.   *)
Fairness == WF_vars(Handle) /\ \A t \in Threads : WF_vars(SendStep(t))

FairSpec == Spec /\ Fairness
-----------------------------------------------------------------------------
(* Every variable keeps its type. *)
TypeOK ==
  /\ lastId \in 0 .. Cardinality(Requests)
  /\ handlers \in Seq(Requests \cup {NULL}) /\ Len(handlers) >= IDH_SIZE
  /\ old \subseteq Requests
  /\ pc \in [Threads -> {"idle", "incremented", "named", "registered"}]
  /\ cur \in [Threads -> Requests \cup {NULL}]
  /\ id \in [Requests -> 0 .. lastId]
  /\ wire \subseteq Requests /\ answered \subseteq Requests
  /\ peers \in 0 .. MaxPeer
  /\ dpc \in {"idle", "scan", "callback", "expiry", "query"}
  /\ stanza \in [id : Nat, of : Requests \cup {NULL, PEER}]
  /\ pos \in Nat \ {0}
  /\ calls \in [Requests -> Nat]
  /\ got \in [Requests -> Requests \cup {NULL, PEER, EXPIRED}]

Registered ==
  {r \in Requests : id[r] # 0 /\ ~\E t \in Threads : cur[t] = r /\ pc[t] = "named"}

SlotsOf(r) == {i \in DOMAIN handlers : handlers[i] = r}

(* A callback runs at most once, and a registered one is never lost: it is  *)
(* in exactly one slot until it runs, whatever registers, expires or grows  *)
(* the table in the middle of a scan.                                       *)
OnceAndNotLost ==
  \A r \in Requests :
    Cardinality(SlotsOf(r)) + calls[r] = IF r \in Registered THEN 1 ELSE 0

DistinctIds ==
  \A q, r \in Requests : id[q] = id[r] /\ id[q] # 0 => q = r

(* As long as ids are distinct, a request that was answered had its callback *)
(* run, and no callback was given the answer to another request.            *)
AnswersReachTheirCallback ==
  DistinctIds =>
    \A r \in Requests :
      /\ r \in answered => calls[r] = 1
      /\ got[r] \in {NULL, PEER, EXPIRED, r}

(* Why both hold.  A thread in xmpp_send_iq() has a request of its own, that  *)
(* has its id once it is formatted; and each request takes one id.           *)
Sending ==
  /\ \A t \in Threads : cur[t] = NULL <=> pc[t] = "idle"
  /\ \A t, u \in Threads : cur[t] = cur[u] /\ cur[t] # NULL => t = u
  /\ \A t \in Threads : pc[t] # "idle" => (id[cur[t]] = 0 <=> pc[t] = "incremented")

Started == {r \in Requests : id[r] # 0 \/ \E t \in Threads : cur[t] = r}
Counted == lastId = Cardinality(Started)

(* A registered request is in one slot of the table until its callback runs. *)
SlotsInv ==
  /\ \A i, j \in DOMAIN handlers : handlers[i] = handlers[j] /\ handlers[i] # NULL => i = j
  /\ \A i \in DOMAIN handlers : handlers[i] # NULL => handlers[i] \in Registered
  /\ \A r \in Requests : calls[r] = IF r \in Registered /\ SlotsOf(r) = {} THEN 1 ELSE 0

(* An answer comes only after its handler was registered, and a scan leaves  *)
(* no handler of it behind.                                                  *)
ScanInv ==
  /\ wire \subseteq Registered
  /\ dpc # "idle" => stanza.of \in Requests \cup {PEER}
  /\ dpc # "idle" /\ stanza.of \in Requests =>
       /\ stanza.of \in Registered /\ stanza.id = id[stanza.of]
       /\ dpc \in {"scan", "expiry"} =>
            \A i \in DOMAIN handlers : i < pos => handlers[i] # stanza.of

Inv == TypeOK /\ Sending /\ Counted /\ SlotsInv /\ ScanInv /\ AnswersReachTheirCallback

(* A scan ends: dispatch always gets back to the next stanza, although the  *)
(* callbacks of a scan may register new handlers ahead of it.               *)
ScanEnds == (dpc # "idle") ~> (dpc = "idle")
=============================================================================
