------------------------------ MODULE Handshake ------------------------------
(***************************************************************************)
(* The login handshake: src/xmpp/get/xmpp_stream.c, xmpp_starttls.c and    *)
(* xmpp_sasl.c, the table of query handlers they use                       *)
(* (src/xmpp/query_handler.c), and how readstream leaves the socket to     *)
(* dispatch while TLS is negotiated (src/threads/thread_readstream.c).     *)
(*                                                                         *)
(* The reader announces by the state POLL that it waits for a message.     *)
(* Dispatch moves to TLS_INIT only then, so that the reader takes the      *)
(* <proceed/> and then stays away from the socket until TLS is set up.     *)
(* The session can end at any time: the user quits, the ping thread gives  *)
(* up, the server closes the connection; both threads are then cancelled.  *)
(*                                                                         *)
(* The rings are plain queues here (see SendRing and RecvRing).  The server *)
(* is external: it starts each stream with an XML declaration, alone or    *)
(* with the features behind it, and may offer TLS or not.                  *)
(***************************************************************************)
EXTENDS Naturals, Sequences

CONSTANTS QUERY_HDLR_MAX,  \* the slots of the handler table
          RECV_MSG_MAX,    \* the size of the incoming ring
          UseTls,          \* cvar.online_use_tls
          NULL, EOF,
          Reader, Dispatch

Mechanisms == {"starttls", "sasl", "bind"}
Tags == {"?xml", "stream:features", "stream:error", "proceed", "success", "failure", "iq"}
Handlers == [query : Tags \cup {"stream:stream"}, permanent : BOOLEAN, args : 0 .. 2]

(* The table and the ring have room for what one login registers and receives. *)
ASSUME HandshakeAssumption ==
  /\ QUERY_HDLR_MAX \in Nat /\ QUERY_HDLR_MAX > 10 /\ RECV_MSG_MAX \in Nat /\ RECV_MSG_MAX > 4
  /\ UseTls \in BOOLEAN /\ Reader # Dispatch
  /\ NULL \notin Mechanisms \cup Tags \cup Handlers \cup {Reader, Dispatch} /\ EOF \notin Tags

VARIABLES
  state,     \* session.state
  lock,      \* the owner of _lock_readstream, or NULL
  waiters,   \* who sleeps on _cond_readstream
  rpc, dpc,  \* where the reader and dispatch are
  polled,    \* the reader went through POLL for the read it is in
  rmsg,      \* what it read
  ring,      \* read and not yet dispatched
  dmsg,      \* what dispatch handles
  table,     \* query_handlers
  streams,   \* how often xmpp_stream() was called
  live,      \* the arguments of those calls that are not freed
  out, net,  \* what the client and the server have sent
  server,    \* the server's stage: "plain", "tls", "auth", "closed"
  auths,     \* over what credentials were sent, each time: "plain" or "tls"
  tlsOffered, \* the features of a plain stream have <starttls
  bound,     \* the resource was bound
  sigint,    \* the main thread was told that the session ended
  main       \* where the main thread is: "run", "join", "exited"

vars == <<state, lock, waiters, rpc, dpc, polled, rmsg, ring, dmsg, table, streams,
          live, out, net, server, tlsOffered, auths, bound, sigint, main>>
login == <<table, streams, live, out, auths, bound>>
reading == <<rpc, polled, rmsg>>

Stanza(tag, features) == [tag |-> tag, features |-> features]
End == Stanza(EOF, NULL)

-----------------------------------------------------------------------------
(* query_handler.c: a handler is known by the name of its query *)

FirstFree(t) ==
  CHOOSE i \in DOMAIN t : t[i] = NULL /\ \A j \in 1 .. i - 1 : t[j] # NULL

(* qh_register() *)
Registered(t, query, permanent, a) ==
  [t EXCEPT ![FirstFree(t)] = [query |-> query, permanent |-> permanent, args |-> a]]

(* qh_remove() *)
Removed(t, queries) ==
  [i \in DOMAIN t |-> IF t[i] # NULL /\ t[i].query \in queries THEN NULL ELSE t[i]]

QueryOf(i) == IF table[i] = NULL THEN NULL ELSE table[i].query

(* qh_handle(): the first handler of that name is the one that runs.        *)
Handles(i, tag) == QueryOf(i) = tag /\ \A j \in 1 .. i - 1 : QueryOf(j) # tag

(* Every handler is kept. *)
MutantConsumed(i) == table

Consumed(i) == IF table[i].permanent THEN table ELSE [table EXCEPT ![i] = NULL]

(* The four handlers of xmpp_stream(), registered for its a-th call.        *)
StreamTable(t, a) ==
  Registered(Registered(Registered(Registered(t,
    "stream:stream", FALSE, a), "?xml", FALSE, a), "stream:features", FALSE, a),
    "stream:error", TRUE, 0)

-----------------------------------------------------------------------------
(* main() calls xmpp_connect(), then starts the threads. *)
Init ==
  /\ state = "INIT" /\ lock = NULL /\ waiters = {}
  /\ rpc = "top" /\ polled = FALSE /\ rmsg = End
  /\ dpc = "top" /\ dmsg = End
  /\ ring = <<>>
  /\ table = StreamTable([i \in 1 .. QUERY_HDLR_MAX |-> NULL], 1)
  /\ streams = 1 /\ live = {1}
  /\ out = <<"open">> /\ net = <<>> /\ server = "plain"
  /\ auths = <<>> /\ bound = FALSE
  /\ tlsOffered \in BOOLEAN
  /\ sigint = FALSE /\ main = "run"

(* pthread_cond_signal(): at most one other thread sleeps.                  *)
Signal == waiters' = {}

-----------------------------------------------------------------------------
(* thread_readstream() *)

ReaderTop ==
  /\ rpc = "top"
  /\ rpc' = CASE state = "DEAD" -> "cleanup" [] state = "RUN" -> "recv" [] OTHER -> "poll"
  /\ polled' = FALSE
  /\ UNCHANGED <<state, lock, waiters, rmsg, ring, dpc, dmsg, login, net, server,
                 tlsOffered, sigint, main>>

(* A reader that does not wait for the end of the negotiation. *)
MutantReaderPoll ==
  /\ \/ rpc = "poll"
     \/ rpc = "wait" /\ Reader \notin waiters
  /\ lock = NULL
  /\ state' = IF state = "INIT" THEN "POLL" ELSE state
  /\ Signal
  /\ rpc' = "recv" /\ polled' = TRUE
  /\ UNCHANGED <<lock, rmsg, ring, dpc, dmsg, login, net, server, tlsOffered, sigint, main>>

(* The critical section before a read; pthread_cond_wait() leaves it.       *)
ReaderPoll ==
  /\ \/ rpc = "poll"
     \/ rpc = "wait" /\ Reader \notin waiters
  /\ lock = NULL
  /\ IF state = "TLS_INIT"
     THEN /\ waiters' = waiters \cup {Reader} /\ rpc' = "wait"
          /\ UNCHANGED <<state, polled>>
     ELSE /\ state' = IF state = "INIT" THEN "POLL" ELSE state
          /\ waiters' = IF state = "INIT" THEN {} ELSE waiters
          /\ rpc' = "recv" /\ polled' = TRUE
  /\ UNCHANGED <<lock, rmsg, ring, dpc, dmsg, login, net, server, tlsOffered, sigint, main>>

(* stream_read() *)
ReaderRecv ==
  /\ rpc = "recv"
  /\ \/ net # <<>> /\ rmsg' = Head(net) /\ net' = Tail(net)
     \/ net = <<>> /\ server = "closed" /\ rmsg' = End /\ UNCHANGED net
  /\ rpc' = IF polled THEN "unpoll" ELSE "post"
  /\ UNCHANGED <<state, lock, waiters, polled, ring, dpc, dmsg, login, server, tlsOffered,
                 sigint,
                 main>>

(* The critical section after a read.                                       *)
ReaderUnpoll ==
  /\ rpc = "unpoll" /\ lock = NULL
  /\ state' = IF state = "POLL" THEN "INIT" ELSE state
  /\ waiters' = IF state = "POLL" THEN {} ELSE waiters
  /\ rpc' = "post"
  /\ UNCHANGED <<lock, polled, rmsg, ring, dpc, dmsg, login, net, server, tlsOffered,
                 sigint, main>>

ReaderPost ==
  /\ rpc = "post"
  /\ IF rmsg = End
     THEN rpc' = "cleanup" /\ UNCHANGED ring
     ELSE rpc' = "top" /\ ring' = Append(ring, rmsg)
  /\ UNCHANGED <<state, lock, waiters, polled, rmsg, dpc, dmsg, login, net, server,
                 tlsOffered, sigint, main>>

(* thread_readstream_close(): the messages left are freed, and glibc's      *)
(* pthread_cond_destroy() waits until nobody sleeps on the condition.       *)
ReaderCleanup ==
  /\ rpc \in {"cleanup", "cancelled"}
  /\ waiters = {}
  /\ ring' = [i \in DOMAIN ring |-> End]
  /\ rpc' = IF rpc = "cleanup" THEN "close" ELSE "gone"
  /\ UNCHANGED <<state, lock, waiters, polled, rmsg, dpc, dmsg, login, net, server,
                 tlsOffered, sigint, main>>

(* thread_close() *)
ReaderClose ==
  /\ rpc = "close"
  /\ state' = "DEAD" /\ sigint' = TRUE /\ rpc' = "gone"
  /\ UNCHANGED <<lock, waiters, polled, rmsg, ring, dpc, dmsg, login, net, server,
                 tlsOffered, main>>

Reads == ReaderTop \/ ReaderPoll \/ ReaderRecv \/ ReaderUnpoll \/ ReaderPost
         \/ ReaderCleanup \/ ReaderClose

-----------------------------------------------------------------------------
(* thread_dispatch() and the callbacks of the handshake *)

(* The loop condition, the wait for a message, and the assertion that a     *)
(* session that is not dead gets one.                                       *)
DispatchTop ==
  /\ dpc = "top"
  /\ dpc' = IF state = "DEAD" THEN "close" ELSE "get"
  /\ UNCHANGED <<state, lock, waiters, reading, ring, dmsg, login, net, server, tlsOffered,
                 sigint, main>>

DispatchGet ==
  /\ dpc = "get" /\ ring # <<>>
  /\ dmsg' = Head(ring) /\ ring' = Tail(ring)
  /\ dpc' = IF Head(ring) # End THEN "handle"
            ELSE IF state = "DEAD" THEN "close" ELSE "aborted"
  /\ UNCHANGED <<state, lock, waiters, reading, login, net, server, tlsOffered, sigint, main>>

(* Their handlers are left behind. *)
MutantTidied(t) == t

(* After the features it was given xmpp_stream_cb_() removes their handlers. *)
Tidied(t) ==
  IF dmsg.tag = "stream:features" THEN t
  ELSE Removed(t, {"stream:features", "stream:stream"})

(* xmpp_sasl() *)
Sasl(t) ==
  /\ table' = Tidied(Registered(Registered(t, "success", FALSE, 0), "failure", FALSE, 0))
  /\ out' = Append(out, "auth")
  /\ auths' = Append(auths, IF streams = 1 THEN "plain" ELSE "tls")
  /\ dpc' = "top"

(* xmpp_features_cb_() with a handler's arguments; the negotiation of TLS   *)
(* goes on in another step.                                                 *)
Features(t, a) ==
  IF UseTls /\ dmsg.features = "starttls"
  THEN /\ table' = Registered(t, "proceed", FALSE, 0)
       /\ dpc' = "starttls"
       /\ UNCHANGED <<out, auths, live>>
  ELSE /\ Sasl(t) /\ live' = live \ {a}

HandleHeader(i) ==
  /\ table[i].query \in {"stream:stream", "?xml"}
  /\ IF dmsg.features = NULL
     THEN table' = Consumed(i) /\ dpc' = "top" /\ UNCHANGED <<out, auths, live>>
     ELSE Features(Consumed(i), table[i].args)
  /\ UNCHANGED <<state, bound>>

HandleFeatures(i) ==
  /\ table[i].query = "stream:features"
  /\ Features(Consumed(i), table[i].args)
  /\ UNCHANGED <<state, bound>>

HandleProceed(i) ==
  /\ table[i].query = "proceed"
  /\ table' = Consumed(i) /\ dpc' = "lock"
  /\ UNCHANGED <<state, out, auths, live, bound>>

HandleSuccess(i) ==
  /\ table[i].query = "success"
  /\ table' = Removed(Consumed(i), {"failure"})
  /\ out' = out \o <<"open", "bind">>
  /\ dpc' = "top"
  /\ UNCHANGED <<state, auths, live, bound>>

HandleFailure(i) ==
  /\ table[i].query = "failure"
  /\ table' = Removed(Consumed(i), {"success"})
  /\ state' = "DEAD" /\ dpc' = "top"
  /\ UNCHANGED <<out, auths, live, bound>>

HandleError(i) ==
  /\ table[i].query = "stream:error"
  /\ state' = "DEAD" /\ dpc' = "top"
  /\ UNCHANGED <<table, out, auths, live, bound>>

(* Nobody registered its name; an answer to the bind was expected by id.    *)
HandleOther ==
  /\ \A i \in DOMAIN table : ~Handles(i, dmsg.tag)
  /\ bound' = (bound \/ dmsg.tag = "iq")
  /\ dpc' = "top"
  /\ UNCHANGED <<state, table, out, auths, live>>

Handle ==
  /\ dpc = "handle"
  /\ \/ \E i \in DOMAIN table :
          /\ Handles(i, dmsg.tag)
          /\ \/ HandleHeader(i) \/ HandleFeatures(i) \/ HandleProceed(i)
             \/ HandleSuccess(i) \/ HandleFailure(i) \/ HandleError(i)
     \/ HandleOther
  /\ UNCHANGED <<lock, waiters, reading, ring, dmsg, streams, net, server, tlsOffered,
                 sigint, main>>

(* TLS is requested without waiting for the reader. *)
MutantStartTls ==
  /\ \/ dpc = "starttls"
     \/ dpc = "wait" /\ Dispatch \notin waiters
  /\ lock = NULL
  /\ state' = "TLS_INIT" /\ Signal
  /\ out' = Append(out, "starttls") /\ table' = Tidied(table)
  /\ live' = live \ {streams} /\ dpc' = "top"
  /\ UNCHANGED <<lock, reading, ring, dmsg, streams, auths, bound, net, server, tlsOffered,
                 sigint, main>>

(* The critical section of xmpp_starttls(), its request, and the end of the *)
(* callback that called it.                                                 *)
StartTls ==
  /\ \/ dpc = "starttls"
     \/ dpc = "wait" /\ Dispatch \notin waiters
  /\ lock = NULL
  /\ IF state = "INIT"
     THEN /\ waiters' = waiters \cup {Dispatch} /\ dpc' = "wait"
          /\ UNCHANGED <<state, out, live, table>>
     ELSE /\ state' = "TLS_INIT" /\ Signal
          /\ out' = Append(out, "starttls") /\ table' = Tidied(table)
          /\ live' = live \ {streams} /\ dpc' = "top"
  /\ UNCHANGED <<lock, reading, ring, dmsg, streams, auths, bound, net, server, tlsOffered,
                 sigint, main>>

(* xmpp_starttls_cb_(): the lock, and the assertion under it ...            *)
TlsLock ==
  /\ dpc = "lock" /\ lock = NULL
  /\ lock' = Dispatch
  /\ dpc' = IF state = "TLS_INIT" THEN "tls" ELSE "aborted"
  /\ UNCHANGED <<state, waiters, reading, ring, dmsg, login, net, server, tlsOffered,
                 sigint, main>>

(* ... and what follows tls_init().                                         *)
TlsDone ==
  /\ dpc = "tls"
  /\ \/ /\ state' = "RUN"
        /\ table' = StreamTable(table, streams + 1)
        /\ streams' = streams + 1 /\ live' = live \cup {streams + 1}
        /\ out' = Append(out, "open")
     \/ state' = "DEAD" /\ UNCHANGED <<table, streams, live, out>>
  /\ Signal
  /\ lock' = NULL /\ dpc' = "top"
  /\ UNCHANGED <<reading, ring, dmsg, auths, bound, net, server, tlsOffered, sigint, main>>

DispatchClose ==
  /\ dpc = "close"
  /\ state' = "DEAD" /\ sigint' = TRUE /\ dpc' = "gone"
  /\ UNCHANGED <<lock, waiters, reading, ring, dmsg, login, net, server, tlsOffered, main>>

Dispatches == DispatchTop \/ DispatchGet \/ Handle \/ StartTls \/ TlsLock \/ TlsDone
              \/ DispatchClose

-----------------------------------------------------------------------------
(* The end of the session *)

(* The ping thread gives up, or the user quits.                             *)
Over ==
  /\ main = "run" /\ ~sigint
  /\ state' = "DEAD" /\ sigint' = TRUE
  /\ UNCHANGED <<lock, waiters, reading, ring, dpc, dmsg, login, net, server, tlsOffered, main>>

(* threads_quit() *)
Quit ==
  /\ main = "run" /\ sigint
  /\ state' = "DEAD" /\ main' = "join"
  /\ UNCHANGED <<lock, waiters, reading, ring, dpc, dmsg, login, net, server, tlsOffered,
                 sigint>>

(* The reader is cancelled where it posts, not where it reads. *)
MutantCancelReader ==
  /\ main = "join" /\ rpc = "post"
  /\ rpc' = "cancelled"
  /\ UNCHANGED <<state, lock, waiters, polled, rmsg, ring, dpc, dmsg, login, net, server,
                 tlsOffered,
                 sigint, main>>

(* A thread is cancelled in recv(), sem_wait() or SSL_connect().            *)
CancelReader ==
  /\ main = "join" /\ rpc = "recv"
  /\ rpc' = "cancelled"
  /\ UNCHANGED <<state, lock, waiters, polled, rmsg, ring, dpc, dmsg, login, net, server,
                 tlsOffered,
                 sigint, main>>

CancelDispatch ==
  /\ main = "join" /\ dpc \in {"get", "tls"}
  /\ dpc' = "gone"
  /\ UNCHANGED <<state, lock, waiters, reading, ring, dmsg, login, net, server, tlsOffered,
                 sigint, main>>

(* A thread cancelled in pthread_cond_wait() locks the mutex again first.   *)
CancelReaderWait ==
  /\ main = "join" /\ rpc = "wait"
  /\ lock = NULL /\ lock' = Reader
  /\ waiters' = waiters \ {Reader} /\ rpc' = "cancelled"
  /\ UNCHANGED <<state, polled, rmsg, ring, dpc, dmsg, login, net, server, tlsOffered,
                 sigint, main>>

CancelDispatchWait ==
  /\ main = "join" /\ dpc = "wait"
  /\ lock = NULL /\ lock' = Dispatch
  /\ waiters' = waiters \ {Dispatch} /\ dpc' = "gone"
  /\ UNCHANGED <<state, reading, ring, dmsg, login, net, server, tlsOffered, sigint, main>>

Joined ==
  /\ main = "join" /\ rpc = "gone" /\ dpc = "gone"
  /\ main' = "exited"
  /\ UNCHANGED <<state, lock, waiters, reading, ring, dpc, dmsg, login, net, server,
                 tlsOffered, sigint>>

Ends == Quit \/ CancelReader \/ CancelDispatch \/ CancelReaderWait
        \/ CancelDispatchWait \/ Joined

-----------------------------------------------------------------------------
(* The server *)

Offer == CASE server = "plain" -> IF tlsOffered THEN "starttls" ELSE "sasl"
           [] server = "tls" -> "sasl"
           [] OTHER -> "bind"

Replies ==
  CASE Head(out) = "open" ->
         {<<Stanza("?xml", Offer)>>,
          <<Stanza("?xml", NULL), Stanza("stream:features", Offer)>>}
    [] Head(out) = "starttls" -> {<<Stanza("proceed", NULL)>>}
    [] Head(out) = "auth" -> {<<Stanza("success", NULL)>>, <<Stanza("failure", NULL)>>}
    [] OTHER -> {<<Stanza("iq", NULL)>>}

ServerReplies ==
  /\ server # "closed" /\ out # <<>>
  /\ \E reply \in Replies :
       /\ net' = net \o reply
       /\ server' = CASE Head(out) = "starttls" -> "tls"
                      [] reply[1].tag = "success" -> "auth"
                      [] OTHER -> server
  /\ out' = Tail(out)
  /\ UNCHANGED <<tlsOffered, state, lock, waiters, reading, ring, dpc, dmsg, table,
                 streams, live, auths,
                 bound, sigint, main>>

(* It closes the connection, with an error or without a word.               *)
ServerCloses ==
  /\ server # "closed" /\ server' = "closed"
  /\ \E last \in {<<>>, <<Stanza("stream:error", NULL)>>} : net' = net \o last
  /\ UNCHANGED <<tlsOffered, state, lock, waiters, reading, ring, dpc, dmsg, login, sigint,
                 main>>

Next ==
  /\ dpc # "aborted"
  /\ Reads \/ Dispatches \/ Over \/ Ends \/ ServerReplies \/ ServerCloses

Spec == Init /\ [][Next]_vars

(* The threads run, and a server that is there answers.  Nothing makes the  *)
(* session end or the connection close.                                     *)
Fairness == WF_vars(dpc # "aborted" /\ Reads) /\ WF_vars(dpc # "aborted" /\ Dispatches)
            /\ WF_vars(dpc # "aborted" /\ Ends) /\ WF_vars(dpc # "aborted" /\ ServerReplies)

FairSpec == Spec /\ Fairness
-----------------------------------------------------------------------------
States == {"DEAD", "INIT", "POLL", "TLS_INIT", "RUN"}
Stages == {"plain", "tls", "auth", "closed"}
Messages ==
  {m \in [tag : Tags, features : Mechanisms \cup {NULL}] :
     m.features # NULL => m.tag \in {"?xml", "stream:features"}}
Tables ==
  {t \in [1 .. QUERY_HDLR_MAX -> Handlers \cup {NULL}] :
     \A i \in DOMAIN t : t[i] # NULL => (t[i].permanent <=> t[i].query = "stream:error")}

(* Every variable keeps its type; the handshake does not fill the incoming  *)
(* ring, and the two threads never sleep on the condition at once, so that  *)
(* a signal cannot be taken by the wrong one.                               *)
TypeOK ==
  /\ state \in States
  /\ lock \in {NULL, Reader, Dispatch}
  /\ waiters \in (SUBSET {Reader, Dispatch}) \ {{Reader, Dispatch}}
  /\ ring \in Seq(Messages \cup {End}) /\ Len(ring) < RECV_MSG_MAX
  /\ net \in Seq(Messages) /\ {rmsg, dmsg} \subseteq Messages \cup {End}
  /\ rpc \in {"top", "poll", "wait", "recv", "unpoll", "post", "cleanup", "close",
              "cancelled", "gone"}
  /\ dpc \in {"top", "get", "handle", "starttls", "wait", "lock", "tls", "close",
              "aborted", "gone"}
  /\ streams \in 1 .. 2 /\ live \subseteq 1 .. 2
  /\ server \in Stages /\ auths \in Seq(Stages) /\ table \in Tables
  /\ tlsOffered \in BOOLEAN
  /\ main \in {"run", "join", "exited"}

(* While dispatch negotiates TLS the reader is away from the socket, unless *)
(* the session is ending.                                                   *)
SocketAlone == dpc = "tls" /\ ~sigint => rpc \notin {"recv", "unpoll"}

(* The handler that is about to run for a stream's header or features was   *)
(* given arguments that are still allocated.                                *)
ArgsAlive ==
  dpc = "handle" /\ dmsg.features # NULL =>
    \A i \in DOMAIN table : Handles(i, dmsg.tag) => table[i].args \in live

(* Credentials are sent once, whatever features the later streams bring.    *)
(* They are sent over TLS where the client wants it and the service offers   *)
(* it; to a service whose features lack <starttls xmpp_features_cb_() sends  *)
(* them in plain, cvar.online_use_tls or not.                                *)
AuthOnce ==
  /\ Len(auths) =< 1
  /\ UseTls /\ tlsOffered => "plain" \notin {auths[i] : i \in DOMAIN auths}

(* The main thread knows of the end of the session, or an assertion failed. *)
Told == sigint \/ dpc = "aborted"

(* The reader, which met the end of the connection, waits for dispatch to   *)
(* leave the condition that only the reader signals.                        *)
ReaderStuck == rpc = "cleanup" /\ waiters # {}

(* The login gets to its end: neither thread waits for the other for ever,  *)
(* unless the connection ends while dispatch waits for the reader.          *)
LoginEnds == <>(bound \/ Told \/ ReaderStuck)

(* A thread was cancelled with _lock_readstream locked.                     *)
Orphaned == \/ lock = Reader /\ rpc \in {"cancelled", "gone"}
            \/ lock = Dispatch /\ dpc = "gone"

(* A session that ended is left by both threads, unless one was cancelled   *)
(* with the mutex locked.                                                   *)
QuitUnlessOrphaned == sigint ~> (main = "exited" \/ dpc = "aborted" \/ Orphaned)

-----------------------------------------------------------------------------
(* Why they hold.  What the client read, or will read, and did not handle    *)
(* yet, in order: dispatch, the ring, the reader, the connection.            *)
Hand == IF dpc = "handle" THEN <<dmsg>> ELSE <<>>
InRead == IF rpc \in {"unpoll", "post"} /\ rmsg # End THEN <<rmsg>> ELSE <<>>
Coming == IF rpc \in {"close", "gone"} THEN Hand ELSE Hand \o (ring \o (InRead \o net))

(* That is d, or the beginning of it, and then maybe the service's last word. *)
Error == Stanza("stream:error", NULL)
Follows(d) == Coming = d \/ (server = "closed" /\ Coming = Append(d, Error))

ChannelInv ==
  /\ Len(ring) < 5
  /\ IF rpc \in {"close", "gone"} THEN ring \in Seq({End}) ELSE ring \in Seq(Messages)
  /\ dpc = "handle" => dmsg # End
  /\ rpc \in {"unpoll", "post"} /\ rmsg = End => server = "closed" /\ net = <<>>

(* What of a query is in the table. *)
Lacks(t, queries) == \A i \in DOMAIN t : t[i] # NULL => t[i].query \notin queries
Single(t, query, a) ==
  \E i \in DOMAIN t :
    /\ t[i] # NULL /\ t[i].query = query /\ t[i].args = a
    /\ \A j \in DOMAIN t : t[j] # NULL /\ t[j].query = query => j = i
FilledTo(t, n) == \A i \in DOMAIN t : i > n => t[i] = NULL

Securing == {"starttls", "wait", "lock", "tls"}

(* The stages of the dialogue.  A stream was opened: its header and its      *)
(* features are to come.                                                     *)
Offered == IF streams = 1 /\ tlsOffered THEN "starttls" ELSE "sasl"
Header(f) == Stanza("?xml", f)
Mechanism(f) == Stanza("stream:features", f)

Opened ==
  /\ auths = <<>> /\ live = {streams} /\ dpc \notin Securing
  /\ server \in {IF streams = 1 THEN "plain" ELSE "tls", "closed"} /\ (streams = 2 => UseTls)
  /\ Lacks(table, {"proceed", "success", "failure"}) /\ FilledTo(table, IF streams = 1 THEN 4 ELSE 9)
  /\ Single(table, "stream:features", streams)
  /\ \/ /\ Single(table, "?xml", streams)
        /\ \/ out = <<"open">> /\ Follows(<<>>)
           \/ /\ out = <<>>
              /\ \/ Follows(<<>>) \/ Follows(<<Header(Offered)>>) \/ Follows(<<Header(NULL)>>)
                 \/ Follows(<<Header(NULL), Mechanism(Offered)>>)
     \/ /\ Lacks(table, {"?xml"})
        /\ out = <<>> /\ (Follows(<<>>) \/ Follows(<<Mechanism(Offered)>>))

(* TLS was offered, and xmpp_starttls() is waiting for the reader; ...       *)
Plain == auths = <<>> /\ streams = 1 /\ UseTls /\ Lacks(table, {"?xml", "success", "failure"})
         /\ FilledTo(table, 5)

Asking ==
  /\ Plain /\ live = {1} /\ server \in {"plain", "closed"}
  /\ dpc \in {"starttls", "wait", "gone"}
  /\ dmsg.tag = "?xml" \/ Lacks(table, {"stream:features"})
  /\ Single(table, "proceed", 0)
  /\ out = <<>> /\ Follows(<<>>)

(* ... it was requested, and may be granted; ...                             *)
Asked ==
  /\ Plain /\ live = {} /\ dpc \notin Securing
  /\ Lacks(table, {"stream:features"}) /\ Single(table, "proceed", 0)
  /\ \/ out = <<"starttls">> /\ server \in {"plain", "closed"} /\ Follows(<<>>)
     \/ /\ out = <<>> /\ server \in {"tls", "closed"}
        /\ Follows(<<>>) \/ Follows(<<Stanza("proceed", NULL)>>)

(* ... it is negotiated, or that failed.                                     *)
Granted ==
  /\ Plain /\ live = {} /\ dpc \notin {"starttls", "wait"}
  /\ server \in {"tls", "closed"}
  /\ Lacks(table, {"stream:features", "proceed"})
  /\ out = <<>> /\ Follows(<<>>)

(* The credentials were sent, after which no handler answers to features;    *)
(* they may be accepted; ...                                                 *)
Sent ==
  /\ Len(auths) = 1 /\ (UseTls /\ tlsOffered => auths[1] # "plain") /\ dpc \notin Securing
  /\ Lacks(table, {"?xml", "stream:features", "proceed"})

Authenticating ==
  /\ Sent /\ Single(table, "success", 0)
  /\ \/ out = <<"auth">> /\ Follows(<<>>)
     \/ /\ out = <<>>
        /\ \/ Follows(<<>>) \/ Follows(<<Stanza("success", NULL)>>)
           \/ Follows(<<Stanza("failure", NULL)>>)

(* ... then the stream is opened once more and the resource bound.           *)
Late(n) == Len(Coming) =< n + (IF server = "closed" THEN 1 ELSE 0)

Binding ==
  /\ Sent /\ Lacks(table, {"success"})
  /\ \/ out = <<"open", "bind">> /\ Late(0)
     \/ out = <<"bind">> /\ Late(2)
     \/ out = <<>> /\ Late(3)

DialogueInv ==
  /\ Coming \in Seq(Messages)
  /\ Opened \/ Asking \/ Asked \/ Granted \/ Authenticating \/ Binding

(* Nobody sleeps on the condition in a state in which the other may begin to. *)
WaitInv ==
  /\ Reader \in waiters => rpc = "wait" /\ state \in {"TLS_INIT", "DEAD"}
  /\ Dispatch \in waiters => dpc = "wait" /\ state \in {"INIT", "DEAD"}

(* Unless the session is ending: the state POLL means that the reader is in  *)
(* a read, and dispatch leaves INIT only then, so that this is the read that *)
(* takes the <proceed/>, after which the reader stays off the socket.        *)
Away == rpc \in {"top", "poll", "wait"}

SocketInv ==
  /\ main = "run" /\ rpc \notin {"gone", "cancelled"}
  /\ state = "DEAD" => dpc \in {"top", "close"}
  /\ state = "POLL" => rpc \in {"recv", "unpoll"} /\ polled
  /\ 1 \in live => state \notin {"TLS_INIT", "RUN"}
  /\ dpc \in {"lock", "tls"} => state = "TLS_INIT" /\ Away
  /\ out = <<"starttls">> /\ server # "closed" => state = "TLS_INIT" /\ rpc = "recv" /\ polled
  /\ auths = <<>> /\ Coming # <<>> /\ Head(Coming).tag = "proceed" =>
       /\ state = "TLS_INIT"
       /\ \/ Away /\ (dpc = "handle" \/ ring # <<>>)
          \/ rpc \in {"unpoll", "post"} /\ dpc # "handle" /\ ring = <<>> /\ rmsg # End
          \/ rpc = "recv" /\ polled /\ dpc # "handle" /\ ring = <<>>

Inv ==
  /\ TypeOK /\ ChannelInv /\ DialogueInv /\ WaitInv
  /\ rpc = "unpoll" => polled
  /\ ~sigint => SocketInv
=============================================================================
