------------------------------- MODULE Manager -------------------------------
(***************************************************************************)
(* The D-Bus front end: wbd instances (src/dbus/wbd.c), each with a name on    *)
(* the session bus, and the manager (src/dbus/wbm.c) that lists the instances, *)
(* starts them through the bus, and starts those again that vanish.           *)
(*                                                                         *)
(* The bus is external: it hands the manager the calls and the changes of     *)
(* ownership in one order, and starts the program of a service file for a     *)
(* name that nobody owns.  A call to the manager blocks the instance's glib    *)
(* loop; it fails when the manager dies meanwhile.  The instance is quit by    *)
(* its D-Bus method: the other threads that may end it are in Shutdown.        *)
(***************************************************************************)
EXTENDS Naturals, FiniteSets, Sequences

CONSTANTS Instances,    \* their bus names
          MaxUser,      \* bound: the calls of third parties
          MaxCrashes,   \* bound: the deaths of instances and of the manager
          MaxManagers   \* bound: the managers started

ASSUME ManagerAssumption ==
  MaxUser \in Nat /\ MaxCrashes \in Nat /\ MaxManagers \in Nat \ {0}

VARIABLES
  st,          \* the process of each instance, by where its glib loop is
  wbm,         \* wbm # NULL: it has a proxy of the manager
  seen,        \* the manager it has seen appear, 0: none
  mngr,        \* the manager that runs, 0: none
  started,     \* the managers started
  consuming,   \* it has a thread that consumes the queue
  activating,  \* the bus has been asked to start the manager
  mngrFile,    \* the service file of the manager
  files,       \* the instances with a service file
  watches,     \* the manager's watch_instance records, state "lost" with a timeout
  exported,    \* the ids exported by its object manager
  uniq,        \* uniq_id
  queue,       \* create_queue
  inbox,       \* what the bus has for the manager
  user, crashes,
  quit         \* history: those whose InstanceExit was answered, and not created since

instance == <<st, wbm, seen>>
manager == <<mngr, started, consuming, activating, watches, exported, uniq, queue>>
disk == <<mngrFile, files>>
counts == <<user, crashes>>
mngrVars == <<instance, manager, disk, inbox, counts, quit>>

MngrInit ==
  /\ st = [i \in Instances |-> "none"] /\ wbm = [i \in Instances |-> FALSE]
  /\ seen = [i \in Instances |-> 0]
  /\ mngr = 0 /\ started = 0 /\ consuming = FALSE /\ activating = TRUE /\ mngrFile = FALSE /\ files = {}
  /\ watches = {} /\ exported = {} /\ uniq = 0 /\ queue = <<>> /\ inbox = <<>>
  /\ user = 0 /\ crashes = 0 /\ quit = {}

Named(i) == st[i] \notin {"none", "starting"}
Told(m) == inbox' = IF mngr = 0 THEN inbox ELSE Append(inbox, m)

-----------------------------------------------------------------------------
(* The bus *)

(* StartServiceByName *)
Launched(i) == IF st[i] = "none" /\ i \in files THEN [st EXCEPT ![i] = "starting"] ELSE st

(* A new watch asks for its owner, and has it started if there is none *)
WatchAnswered(w) ==
  /\ w \in watches /\ w.state = "new" /\ st[w.of] # "starting"
  /\ IF st[w.of] = "none" /\ w.of \in files
       THEN st' = Launched(w.of) /\ UNCHANGED <<watches, inbox>>
       ELSE /\ watches' = (watches \ {w}) \cup {[w EXCEPT !.state = "asked"]}
            /\ inbox' = Append(inbox, [t |-> "owner", id |-> w.id, owned |-> Named(w.of)])
            /\ UNCHANGED st
  /\ UNCHANGED <<wbm, seen, mngr, started, consuming, activating, exported, uniq, queue, disk, counts, quit>>

-----------------------------------------------------------------------------
(* The instance *)

(* dbus_api_setup() and on_bus_acquired(): once logged in, the name is owned and
   the manager watched, which has the bus start it *)
BusAcquired(i) ==
  /\ st[i] = "starting" /\ st' = [st EXCEPT ![i] = "idle"]
  /\ Told([t |-> "came", of |-> i])
  /\ activating' = (activating \/ (mngr = 0 /\ mngrFile))
  /\ UNCHANGED <<wbm, seen, mngr, started, consuming, watches, exported, uniq, queue, disk, counts, quit>>

(* on_mngr_name_appeared(), first half: the proxy *)
MngrNameAppeared(i) ==
  /\ st[i] = "idle" /\ seen[i] = 0 /\ mngr # 0
  /\ st' = [st EXCEPT ![i] = "connected"]
  /\ wbm' = [wbm EXCEPT ![i] = TRUE] /\ seen' = [seen EXCEPT ![i] = mngr]
  /\ UNCHANGED <<manager, disk, inbox, counts, quit>>

(* A call to the manager through the proxy: the bus starts the manager it is meant
   for, and the call fails if it cannot *)
CallsManager(i, m, waiting, failed) ==
  /\ IF mngr # 0
       THEN /\ st' = [st EXCEPT ![i] = waiting] /\ Told(m) /\ UNCHANGED activating
       ELSE IF mngrFile
         THEN ~activating /\ activating' = TRUE /\ UNCHANGED <<st, inbox>>
         ELSE st' = [st EXCEPT ![i] = failed] /\ UNCHANGED <<activating, inbox>>
  /\ UNCHANGED <<wbm, seen, mngr, started, consuming, watches, exported, uniq, queue, disk, counts, quit>>

(* and second half: InstanceReady *)
CallInstanceReady(i) ==
  /\ st[i] = "connected"
  /\ CallsManager(i, [t |-> "ready", of |-> i, waits |-> TRUE], "calling", "idle")

(* on_mngr_name_vanished(): the bus is asked for another manager *)
MngrNameVanished(i) ==
  /\ st[i] = "idle" /\ seen[i] \notin {0, mngr}
  /\ wbm' = [wbm EXCEPT ![i] = FALSE] /\ seen' = [seen EXCEPT ![i] = 0]
  /\ activating' = (activating \/ (mngr = 0 /\ mngrFile))
  /\ UNCHANGED <<st, mngr, started, consuming, watches, exported, uniq, queue, disk, inbox, counts, quit>>

(* on_handle_quit(), dbus_api_quit(1): InstanceExit if it knows of a manager *)
Quit(i) ==
  /\ st[i] = "idle" /\ user < MaxUser /\ user' = user + 1
  /\ st' = [st EXCEPT ![i] = IF wbm[i] THEN "leaving" ELSE "ended"]
  /\ UNCHANGED <<wbm, seen, manager, disk, inbox, crashes, quit>>
CallInstanceExit(i) ==
  /\ st[i] = "leaving"
  /\ CallsManager(i, [t |-> "exit", of |-> i, waits |-> TRUE], "exiting", "ended")

(* on_handle_restart(), dbus_api_quit(0): the service file stays *)
Restart(i) ==
  /\ st[i] = "idle" /\ wbm[i] /\ user < MaxUser /\ user' = user + 1
  /\ st' = [st EXCEPT ![i] = "ended"]
  /\ UNCHANGED <<wbm, seen, manager, disk, inbox, crashes, quit>>

(* The process is gone, and its name with it: nobody waits for its calls *)
Unwaited(m, i) == IF m.t \in {"ready", "exit"} /\ m.of = i THEN [m EXCEPT !.waits = FALSE] ELSE m
Gone(i) ==
  /\ st' = [st EXCEPT ![i] = "none"] /\ wbm' = [wbm EXCEPT ![i] = FALSE]
  /\ seen' = [seen EXCEPT ![i] = 0]
  /\ inbox' = [k \in DOMAIN inbox |-> Unwaited(inbox[k], i)]
                \o IF Named(i) /\ mngr # 0 THEN <<[t |-> "gone", of |-> i]>> ELSE <<>>
  /\ UNCHANGED <<manager, disk, user, quit>>

(* dbus_api_enter() returns *)
LoopEnds(i) == st[i] = "ended" /\ Gone(i) /\ UNCHANGED crashes
InstanceDies(i) ==
  st[i] # "none" /\ crashes < MaxCrashes /\ crashes' = crashes + 1 /\ Gone(i)

-----------------------------------------------------------------------------
(* The manager *)

Received(t) == mngr # 0 /\ inbox # <<>> /\ Head(inbox).t = t /\ inbox' = Tail(inbox)
WatchesOf(i) == {w \in watches : w.of = i}

(* main() and on_bus_acquired().  The thread of the queue ends at once if it tests
   create_thread before main has stored it *)
ManagerStarts ==
  /\ activating /\ mngr = 0 /\ started < MaxManagers
  /\ started' = started + 1 /\ mngr' = started + 1 /\ activating' = FALSE
  /\ mngrFile' = TRUE /\ consuming' \in BOOLEAN
  /\ watches' = {} /\ exported' = {} /\ uniq' = 0 /\ queue' = <<>> /\ inbox' = <<>>
  /\ UNCHANGED <<instance, files, counts, quit>>

(* on_handle_create() *)
Create ==
  /\ Received("create")
  /\ files' = files \cup {Head(inbox).of} /\ queue' = Append(queue, Head(inbox).of)
  /\ quit' = quit \ {Head(inbox).of}
  /\ UNCHANGED <<instance, mngr, started, consuming, activating, watches, exported, uniq, mngrFile, counts>>

(* on_handle_instance_ready() *)
InstanceReady ==
  /\ Received("ready")
  /\ LET i == Head(inbox).of
     IN  /\ files' = files \cup {i}
         /\ watches' = watches \cup {[id |-> uniq + 1, of |-> i, state |-> "new"]}
         /\ st' = IF Head(inbox).waits THEN [st EXCEPT ![i] = "idle"] ELSE st
  /\ uniq' = uniq + 1 /\ exported' = exported \cup {uniq + 1}
  /\ UNCHANGED <<wbm, seen, mngr, started, consuming, activating, queue, mngrFile, counts, quit>>

MutantInstanceExit ==                         \* the service file stays
  /\ Received("exit")
  /\ LET i == Head(inbox).of
     IN  /\ quit' = IF Head(inbox).waits THEN quit \cup {i} ELSE quit
         /\ st' = IF Head(inbox).waits THEN [st EXCEPT ![i] = "ended"] ELSE st
  /\ UNCHANGED <<wbm, seen, manager, disk, counts>>

(* on_handle_instance_exit(), delete_service_file() *)
InstanceExit ==
  /\ Received("exit")
  /\ LET i == Head(inbox).of
     IN  /\ files' = files \ {i}
         /\ quit' = IF Head(inbox).waits THEN quit \cup {i} ELSE quit
         /\ st' = IF Head(inbox).waits THEN [st EXCEPT ![i] = "ended"] ELSE st
  /\ UNCHANGED <<wbm, seen, manager, mngrFile, counts>>

(* on_instance_name_vanished(), for each of ws, the watches of i *)
Vanished(ws, i) ==
  /\ exported' = exported \ {w.id : w \in ws}
  /\ IF i \in files
       THEN /\ watches' = (watches \ ws) \cup {[w EXCEPT !.state = "lost"] : w \in ws}
            /\ queue' = queue \o [n \in 1 .. Cardinality(ws) |-> i]
       ELSE watches' = watches \ ws /\ UNCHANGED queue

OwnerLost ==
  /\ Received("gone")
  /\ LET i == Head(inbox).of IN Vanished({w \in WatchesOf(i) : w.state = "owned"}, i)
  /\ UNCHANGED <<instance, mngr, started, consuming, activating, uniq, disk, counts, quit>>

(* on_instance_name_appeared(): the instance comes back, and will be watched anew
   once it is ready *)
OwnerCame ==
  /\ Received("came")
  /\ watches' = {w \in watches : w.of # Head(inbox).of \/ w.state # "lost"}
  /\ UNCHANGED <<instance, mngr, started, consuming, activating, exported, uniq, queue, disk, counts, quit>>

MutantOwnerKnown ==                           \* without the test of timeout_id
  /\ Received("owner")
  /\ \E w \in watches :
       /\ w.id = Head(inbox).id
       /\ IF Head(inbox).owned
            THEN watches' = watches \ {w} /\ UNCHANGED <<exported, queue>>
            ELSE Vanished({w}, w.of)
  /\ UNCHANGED <<instance, mngr, started, consuming, activating, uniq, disk, counts, quit>>

(* Either, when a new watch learns of its owner *)
OwnerKnown ==
  /\ Received("owner")
  /\ \E w \in watches :
       /\ w.id = Head(inbox).id
       /\ IF Head(inbox).owned
            THEN /\ watches' = (watches \ {w}) \cup {[w EXCEPT !.state = "owned"]}
                 /\ UNCHANGED <<exported, queue>>
            ELSE Vanished({w}, w.of)
  /\ UNCHANGED <<instance, mngr, started, consuming, activating, uniq, disk, counts, quit>>

MutantInstanceTimeout(w) ==                   \* the timeout is not repeated
  /\ mngr # 0 /\ w \in watches /\ w.state = "lost" /\ w.of \notin {queue[k] : k \in DOMAIN queue}
  /\ inbox = <<>> /\ st[w.of] = "none"
  /\ watches' = watches \ {w}
  /\ UNCHANGED <<instance, mngr, started, consuming, activating, exported, uniq, queue, disk, inbox, counts, quit>>

(* on_instance_timeout(): 300 s without the instance, long after its last start *)
InstanceTimeout(w) ==
  /\ mngr # 0 /\ w \in watches /\ w.state = "lost" /\ w.of \notin {queue[k] : k \in DOMAIN queue}
  /\ inbox = <<>> /\ st[w.of] = "none"
  /\ IF w.of \in files
       THEN queue' = Append(queue, w.of) /\ UNCHANGED watches
       ELSE watches' = watches \ {w} /\ UNCHANGED queue
  /\ UNCHANGED <<instance, mngr, started, consuming, activating, exported, uniq, disk, inbox, counts, quit>>

(* create_queue_consumer_thread() *)
ConsumeQueue ==
  /\ mngr # 0 /\ consuming /\ queue # <<>> /\ queue' = Tail(queue)
  /\ st' = Launched(Head(queue))
  /\ UNCHANGED <<wbm, seen, mngr, started, consuming, activating, watches, exported, uniq, disk, inbox,
                 counts, quit>>

(* What a manager's end leaves: a call that is under way fails *)
ManagerGone ==
  /\ mngr' = 0 /\ consuming' = FALSE /\ inbox' = <<>>
  /\ watches' = {} /\ exported' = {} /\ queue' = <<>> /\ uniq' = 0
  /\ st' = [i \in Instances |-> CASE st[i] = "calling" -> "idle"
                                  [] st[i] = "exiting" -> "ended"
                                  [] OTHER             -> st[i]]
  /\ UNCHANGED <<wbm, seen, started, activating, files, quit>>

(* on_handle_quit() of the manager *)
ManagerQuits ==
  /\ mngr # 0 /\ inbox # <<>> /\ Head(inbox).t = "quit"
  /\ mngrFile' = FALSE /\ ManagerGone /\ UNCHANGED counts
ManagerDies ==
  /\ mngr # 0 /\ crashes < MaxCrashes /\ crashes' = crashes + 1
  /\ ManagerGone /\ UNCHANGED <<mngrFile, user>>

(* A third party calls Create or Quit *)
UserCall ==
  /\ mngr # 0 /\ user < MaxUser /\ user' = user + 1
  /\ \E m \in {[t |-> "create", of |-> i] : i \in Instances} \cup {[t |-> "quit"]} :
       inbox' = Append(inbox, m)
  /\ UNCHANGED <<instance, manager, disk, crashes, quit>>

ManagerStep ==
  \/ Create \/ InstanceReady \/ InstanceExit \/ OwnerLost \/ OwnerCame \/ OwnerKnown
  \/ ManagerQuits
InstanceStep(i) ==
  \/ BusAcquired(i) \/ MngrNameAppeared(i) \/ MngrNameVanished(i)
  \/ CallInstanceReady(i) \/ CallInstanceExit(i) \/ LoopEnds(i)
MngrNext ==
  \/ ManagerStarts \/ ManagerStep \/ ConsumeQueue \/ ManagerDies \/ UserCall
  \/ \E w \in watches : WatchAnswered(w) \/ InstanceTimeout(w)
  \/ \E i \in Instances : InstanceStep(i) \/ Quit(i) \/ Restart(i) \/ InstanceDies(i)

MngrSpec == MngrInit /\ [][MngrNext]_mngrVars

(* The glib loops, the bus and the queue's thread go on *)
FairSpec ==
  /\ MngrSpec
  /\ WF_mngrVars(ManagerStarts) /\ WF_mngrVars(ManagerStep) /\ WF_mngrVars(ConsumeQueue)
  /\ WF_mngrVars(\E w \in watches : WatchAnswered(w))
  /\ WF_mngrVars(\E w \in watches : InstanceTimeout(w))
  /\ \A i \in Instances : WF_mngrVars(InstanceStep(i))

-----------------------------------------------------------------------------
(* Properties *)

Messages ==
  [t : {"create", "came", "gone"}, of : Instances]
    \cup [t : {"ready", "exit"}, of : Instances, waits : BOOLEAN]
    \cup [t : {"owner"}, id : Nat, owned : BOOLEAN] \cup [t : {"quit"}]
Watches == [id : 1 .. uniq, of : Instances, state : {"new", "asked", "owned", "lost"}]

(* Every variable has its type, and a watch is exported exactly while it has not
   lost its instance. *)
MngrTypeOK ==
  /\ st \in [Instances -> {"none", "starting", "idle", "connected", "calling", "leaving",
                       "exiting", "ended"}]
  /\ wbm \in [Instances -> BOOLEAN] /\ seen \in [Instances -> 0 .. started]
  /\ consuming \in BOOLEAN /\ started \in Nat /\ mngr \in {0, started} /\ uniq \in Nat
  /\ files \subseteq Instances /\ quit \subseteq Instances
  /\ inbox \in Seq(Messages) /\ queue \in Seq(Instances) /\ watches \subseteq Watches
  /\ IsFiniteSet(watches) /\ exported \subseteq 1 .. uniq

(* When the manager has nothing to do and no instance is about to call it, it
   lists the instances that run and no other, through deaths, restarts and its own.
   It may list one twice: when the instance calls for the manager that appeared and
   its successor answers, it calls again for that one; and when the instance ends
   before its new watch is up, the watch has it started, and takes the new life for
   the old. *)
Quiet ==
  /\ mngr # 0 /\ inbox = <<>> /\ queue = <<>>
  /\ \A w \in watches : w.state \notin {"new", "asked"}
  /\ \A i \in Instances : \/ st[i] = "none"
                          \/ st[i] = "idle" /\ seen[i] = mngr
Listed == {w.of : w \in {x \in watches : x.id \in exported}}
ListsTheRunning == Quiet => Listed = {i \in Instances : st[i] = "idle"}

(* An instance that was told to quit, and whose manager answered it, is not started
   again before a third party creates it, whatever watches, timeouts and queued
   starts, late calls and older lives there are of it: dbus_api_quit(1) has the
   manager delete its service file, and only then lets the name go. *)
StaysDown ==
  [][\A i \in quit : st[i] = "none" => st'[i] = "none"]_mngrVars

(* The inductive invariant behind both, in named parts.  A manager that is gone leaves
   nothing, and an instance that is not on the bus has not seen any. *)
Is(k, t, i) == inbox[k].t = t /\ inbox[k].of = i
Says(k, i) == Is(k, "ready", i) \/ Is(k, "exit", i)
Pending(t, i) == \E k \in DOMAIN inbox : Is(k, t, i)
OrphansInv ==
  /\ mngr = 0 => inbox = <<>> /\ watches = {}
  /\ \A i \in Instances : st[i] \in {"none", "starting"} => seen[i] = 0

(* An instance waits for one call, and nothing of it comes behind that call. *)
CallInv ==
  \A i \in Instances : \A k \in DOMAIN inbox : Says(k, i) /\ inbox[k].waits =>
    /\ st[i] = IF inbox[k].t = "ready" THEN "calling" ELSE "exiting"
    /\ \A l \in k + 1 .. Len(inbox) : ~Says(l, i) /\ ~Is(l, "gone", i)

(* Who has quit has no service file, and nothing is under way that makes one. *)
DownInv ==
  \A i \in quit : st[i] \in {"ended", "none"} /\ i \notin files /\ ~Pending("ready", i)

(* Watches are told apart by their ids, exported while their instance is not lost, and
   answered once. *)
Answers(k, w) == inbox[k].t = "owner" /\ inbox[k].id = w.id
IdsInv ==
  /\ \A w, x \in watches : w.id = x.id => w = x
  /\ \A w \in watches : w.id \in exported <=> w.state # "lost"
AskedInv ==
  \A k \in DOMAIN inbox : inbox[k].t = "owner" =>
    /\ inbox[k].id \in 1 .. uniq
    /\ \A w \in watches : Answers(k, w) => w.state = "asked"
    /\ \A l \in k + 1 .. Len(inbox) : inbox[l].t = "owner" => inbox[l].id # inbox[k].id

(* A watch that has, or is about to have, an owner will hear when it goes. *)
OwnedInv ==
  /\ \A w \in watches : w.state = "owned" => Named(w.of) \/ Pending("gone", w.of)
  /\ \A k \in DOMAIN inbox : \A w \in watches : Answers(k, w) /\ inbox[k].owned =>
       Named(w.of) \/ \E l \in k + 1 .. Len(inbox) : Is(l, "gone", w.of)

(* The manager an instance was ready for watches it in this life of it. *)
Guards(w) ==
  w.state \in {"new", "owned"} \/ \E k \in DOMAIN inbox : Answers(k, w) /\ inbox[k].owned
Watched(i) == \E w \in watches : w.of = i /\ Guards(w)
RegisteredInv ==
  \A i \in Instances : mngr # 0 /\ st[i] = "idle" /\ seen[i] = mngr =>
    Watched(i) /\ ~Pending("gone", i)

MngrInv ==
  /\ MngrTypeOK /\ OrphansInv /\ CallInv /\ DownInv
  /\ IdsInv /\ AskedInv /\ OwnedInv /\ RegisteredInv

(* An instance that is gone while the manager watches it, and of which there is a
   service file, is started again, if not at once then after a timeout; unless the
   manager goes first, or the thread of its queue ended as it began.  (An instance
   that takes its name and ends before it is ready is not: its coming freed the
   watch.) *)
CameBack(i) == \E k \in DOMAIN inbox : inbox[k] = [t |-> "came", of |-> i]
Respawned ==
  \A i \in Instances :
    (mngr # 0 /\ consuming /\ st[i] = "none" /\ WatchesOf(i) # {} /\ i \in files /\ ~CameBack(i))
      ~> (mngr = 0 \/ st[i] # "none" \/ i \notin files)
=============================================================================
