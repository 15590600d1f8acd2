------------------------------ MODULE Gameroom ------------------------------
(***************************************************************************)
(* The game room the client is in: session.gameroom and the requests,       *)
(* answers and notices that change it (the gameroom callbacks and          *)
(* xmpp_iq_join_channel.c under src/xmpp_wf/get/ and result/), with the     *)
(* chat room beside it (src/xmpp/get/xmpp_presence.c, src/xmpp/room.c).     *)
(*                                                                         *)
(* Each masterserver answers in the order it was asked, and so does the     *)
(* chat service; what comes from two of them arrives in any order.  A       *)
(* handler is one action: dispatch runs them one after the other, and a     *)
(* command is taken to run between two of them.  The masterservers and the  *)
(* chat service are not in the repository; they are modelled by what the    *)
(* handlers expect of them, and may refuse any request.                     *)
(***************************************************************************)
EXTENDS Naturals, SequencesExt

CONSTANTS Channels,      \* the masterservers
          Home,          \* the one joined at login
          RoomIds,       \* the room ids each of them uses
          MatchRooms,    \* the rooms with an <auto_start> node: quickplay matches
          LeaveOnStart,  \* cvar.wb_leave_on_start
          JoinGlobal,    \* cvar.wb_join_global_rooms
          MaxCommands, MaxNotices, MaxFaults,  \* bounds of the environment
          GLOBAL, NULL

ASSUME GameroomAssumption ==
  /\ Home \in Channels /\ RoomIds # {} /\ MatchRooms \subseteq Channels \X RoomIds
  /\ LeaveOnStart \in BOOLEAN /\ JoinGlobal \in BOOLEAN
  /\ MaxCommands \in Nat /\ MaxNotices \in Nat /\ MaxFaults \in Nat
  /\ GLOBAL \notin RoomIds /\ "first" \notin RoomIds \cup {NULL}
  /\ NULL \notin RoomIds \cup Channels \cup (Channels \X RoomIds)

VARIABLES
  channel,  \* session.online.channel
  gr,       \* session.gameroom
  status,   \* session.online.status
  safe,     \* cvar.wb_safemaster
  chats,    \* session.xmpp.rooms: the chat rooms whose entry was confirmed
  global,   \* session.online.global_chat
  crashed,  \* the client has followed a null pointer
  wire,     \* the requests each masterserver has to answer
  moves,    \* the presences the chat service has to answer
  seat,     \* where each masterserver has the client
  member,   \* the chat rooms the service has it in
  spent,    \* what the environment has used of its bounds
  crossed,  \* history: a change of channel overlapped a change of room
  late      \* history: an answer came after its handler expired

client == <<channel, gr, status, safe, chats, global, crashed>>
server == <<seat, member>>
roomVars == <<client, wire, moves, server, spent, crossed, late>>

RoomJids == Channels \X RoomIds
Chats == Channels \X (RoomIds \cup {GLOBAL})
Statuses == {"unready", "ready", "restricted"}

(* What a masterserver tells of a room: the nodes it sends, whether the      *)
(* session runs and the status of our own player.                            *)
Nodes == {"all", "core", "params", "session"}
NoSync == [room |-> NULL, nodes |-> "none", running |-> FALSE, own |-> "unready"]

(* arg: the room to join, the status to set, or the attempt at opening;      *)
(* then: what is done once a room is open.                                   *)
Request(op, arg, then) == [op |-> op, arg |-> arg, then |-> then, live |-> TRUE]

NoRoom == [jid |-> NULL, of |-> NULL, leaving |-> FALSE, joined |-> FALSE,
           desired |-> "unready", curr |-> "unready", players |-> FALSE, match |-> FALSE]
Seat(id, running, own) == [id |-> id, running |-> running, own |-> own]
NoSeat == Seat(NULL, FALSE, "unready")

RoomInit ==
  /\ channel = Home
  /\ gr = NoRoom /\ status = "lobby" /\ safe = FALSE
  /\ global = IF JoinGlobal THEN <<channel, GLOBAL>> ELSE NULL
  /\ chats = {} /\ member = {}
  /\ crashed = FALSE
  /\ wire = [c \in Channels |-> <<>>]
  /\ moves = IF JoinGlobal THEN <<[op |-> "enter", chat |-> global, live |-> TRUE]>> ELSE <<>>
  /\ seat = [c \in Channels |-> NoSeat]
  /\ spent = [commands |-> 0, notices |-> 0, faults |-> 0]
  /\ crossed = FALSE /\ late = FALSE

-----------------------------------------------------------------------------
(* Sending *)

Post(queues, c, qs) == [queues EXCEPT ![c] = @ \o qs]

When(condition, q) == IF condition THEN <<q>> ELSE <<>>

(* xmpp_presence(): nothing for no room, for a room to leave whose entry was *)
(* not confirmed, and for a room to enter that was.                          *)
Presence(m) == When(m.chat # NULL /\ ((m.op = "leave") <=> (m.chat \in chats)), m)
Leaving(chat) == [op |-> "leave", chat |-> chat, live |-> TRUE]
Entering(chat) == [op |-> "enter", chat |-> chat, live |-> TRUE]

InFlight(ops) == \E c \in Channels : \E q \in Range(wire[c]) : q.op \in ops

(* xmpp_iq_gameroom_leave() *)
MayLeave == ~gr.leaving /\ gr.jid # NULL
LeaveRequest == Request("leave", NULL, "none")

-----------------------------------------------------------------------------
(* gameroom_sync(): the new state of g and the requests that follow.  The    *)
(* structure it parses into is fresh, so every node sent counts as changed.  *)

HasCore(y) == y.nodes \in {"all", "core"}
HasSession(y) == y.nodes \in {"all", "session"}
HasMatch(y) == y.nodes = "all" /\ y.room \in MatchRooms

GameroomSync(g, y) ==
  [g EXCEPT
     !.of = y.room,
     !.joined = IF HasSession(y) THEN y.running ELSE @,
     !.desired = IF HasSession(y) /\ ~y.running /\ g.joined THEN "ready" ELSE @,
     !.curr = IF HasCore(y) THEN y.own ELSE @,
     !.match = IF y.nodes = "all" THEN HasMatch(y) ELSE @]

AutoReady(g, y) ==
  LET new == GameroomSync(g, y)
  IN /\ y.nodes \in {"all", "core", "params"} /\ ~HasMatch(y)
     /\ ~g.leaving /\ ~safe
     /\ new.curr # new.desired /\ new.curr # "restricted"

SyncRequests(g, y) ==
  When(HasSession(y) /\ y.running /\ ~g.joined, Request("session_join", NULL, "none"))
  \o When(AutoReady(g, y), Request("setplayer", GameroomSync(g, y).desired, "none"))

(* It counts the players of the room it knew before. *)
SyncCrashes(g, y) == y.nodes \in {"all", "core", "params"} /\ ~g.players

(* gameroom_sync_free(), gameroom_sync_init() *)
Freed(g) == [g EXCEPT !.of = NULL, !.players = FALSE, !.match = FALSE]
MutantCleared(g) == Freed(g)  \* gameroom_sync_init() is forgotten
Cleared(g) == [g EXCEPT !.of = NULL, !.players = TRUE, !.match = FALSE]

(* What join and open do with the room they got; its name is built with the *)
(* channel of the moment.                                                    *)
EnterRoom(y) ==
  LET jid == <<channel, y.room[2]>>
      g == [Cleared(gr) EXCEPT !.jid = jid, !.desired = "ready"]
  IN /\ gr' = GameroomSync(g, y)
     /\ status' = "room"
     /\ moves' = moves \o Presence(Leaving(gr.jid)) \o Presence(Leaving(global))
                       \o Presence(Entering(jid))
EntryRequests(y) == SyncRequests([Cleared(gr) EXCEPT !.desired = "ready"], y)

(* What being out of the room means: leave, kick and expiry of the mission. *)
OutOfRoom(g) ==
  /\ gr' = [Freed(g) EXCEPT !.jid = NULL]
  /\ status' = "lobby"
  /\ moves' = moves \o Presence(Leaving(gr.jid)) \o Presence(Entering(global))

-----------------------------------------------------------------------------
(* Commands *)

RoomOps == {"join", "open", "leave", "missions"}

Command ==
  /\ ~crashed /\ spent.commands < MaxCommands
  /\ spent' = [spent EXCEPT !.commands = @ + 1]
  /\ UNCHANGED <<channel, status, safe, chats, global, crashed, moves, server, late>>

(* xmpp_iq_join_channel(), then another request. *)
SwitchTo(c, arg, then) ==
  /\ wire' = Post(wire, c, <<Request("switch", arg, then)>>)
  /\ crossed' = (crossed \/ gr.jid # NULL \/ InFlight(RoomOps \cup {"switch"}))
  /\ UNCHANGED gr

(* A request about the room, to the current channel. *)
Ask(q) ==
  /\ wire' = Post(wire, channel, <<q>>)
  /\ crossed' = (crossed \/ (q.op \in RoomOps /\ InFlight({"switch"})))

(* xmpp_iq_gameroom_join(), for an invitation, a quickplay offer, a follow. *)
Join(c, r) ==
  /\ Command
  /\ IF c = channel
     THEN Ask(Request("join", r, "none")) /\ UNCHANGED gr
     ELSE SwitchTo(c, r, "none")

(* cmd_open(): a PvP room is configured once it is open. *)
Open(c, then) ==
  /\ Command
  /\ IF c = channel
     THEN Ask(Request("open", "first", then)) /\ UNCHANGED gr
     ELSE SwitchTo(c, "first", then)

(* cmd_safe(), which switches even to the channel it is on. *)
Safe(c) == Command /\ SwitchTo(c, "first", "safe")

(* cmd_channel() *)
Channel(c) == Command /\ SwitchTo(c, NULL, "none")

(* cmd_leave() *)
Leave ==
  /\ Command /\ MayLeave
  /\ gr' = [gr EXCEPT !.leaving = TRUE]
  /\ Ask(LeaveRequest)

(* cmd_ready(), cmd_unready() *)
SetPlayer(s) ==
  /\ Command
  /\ gr' = [gr EXCEPT !.desired = s]
  /\ Ask(Request("setplayer", s, "none"))

(* cmd_master(), cmd_name(), cmd_change(): requests answered by a sync. *)
Edit ==
  /\ Command
  /\ Ask(Request("edit", NULL, "none"))
  /\ UNCHANGED gr

Commands ==
  \/ \E c \in Channels, r \in RoomIds : Join(c, r)
  \/ \E c \in Channels, then \in {"none", "edit"} : Open(c, then)
  \/ \E c \in Channels : Safe(c) \/ Channel(c)
  \/ Leave
  \/ \E s \in {"ready", "unready"} : SetPlayer(s)
  \/ Edit

-----------------------------------------------------------------------------
(* The masterservers, as the callbacks expect them.  A request is granted or *)
(* refused when its answer is handed over: nothing can tell when, before     *)
(* that, the masterserver made up its mind.                                  *)

SyncOf(c, s, nodes) ==
  [room |-> <<c, s.id>>, nodes |-> nodes,
   running |-> HasSession([nodes |-> nodes]) /\ s.running,
   own |-> IF HasCore([nodes |-> nodes]) THEN s.own ELSE "unready"]

Told(res, s, y, faults) == [res |-> res, seat |-> s, sync |-> y, faults |-> faults]
Granted(c, s, nodes) == Told("ok", s, IF nodes = "none" THEN NoSync ELSE SyncOf(c, s, nodes), 0)

JoinGrants(c, r) == {Granted(c, Seat(r, running, "unready"), "all") : running \in BOOLEAN}
OpenGrants(c) == {Granted(c, Seat(r, FALSE, "unready"), "all") : r \in RoomIds}
PlayerGrants(c, s) ==
  {Granted(c, Seat(seat[c].id, seat[c].running, own), nodes) :
     own \in {s, "restricted"}, nodes \in {"all", "core"}}
StayGrants(c, nodes) == {Granted(c, seat[c], nodes)}
Grants(c) ==
  LET q == Head(wire[c])
      seated == seat[c].id # NULL
  IN CASE q.op = "join"         -> JoinGrants(c, q.arg)
       [] q.op = "open"         -> OpenGrants(c)
       [] q.op = "leave"        -> IF seated THEN {Granted(c, NoSeat, "none")} ELSE {}
       [] q.op = "setplayer"    -> IF seated THEN PlayerGrants(c, q.arg) ELSE {}
       [] q.op = "edit"         -> IF seated THEN StayGrants(c, "all") ELSE {}
       [] q.op = "session_join" -> IF seat[c].running THEN StayGrants(c, "none") ELSE {}
       [] OTHER                 -> StayGrants(c, "none")

(* It refuses what makes no sense to it, a mission of yesterday, and now and *)
(* then anything else.                                                       *)
Refusals(c) ==
  IF Grants(c) = {} THEN {Told("error", seat[c], NoSync, 0)}
  ELSE {Told("error", seat[c], NoSync, 1)} \cup
       (IF Head(wire[c]).op = "open" THEN {Told("stale", seat[c], NoSync, 0)} ELSE {})

Outcomes(c) == {a \in Grants(c) \cup Refusals(c) : spent.faults + a.faults <= MaxFaults}

-----------------------------------------------------------------------------
(* Answers and notices, as dispatch hands them to their callbacks *)

(* The callback of the oldest request to c is given the answer a.            *)
Handle(c, op, a) ==
  /\ ~crashed
  /\ wire[c] # <<>> /\ Head(wire[c]).live /\ Head(wire[c]).op = op
  /\ seat' = [seat EXCEPT ![c] = a.seat]
  /\ spent' = [spent EXCEPT !.faults = @ + a.faults]
  /\ UNCHANGED <<chats, member, crossed, late>>

Popped(c) == [wire EXCEPT ![c] = Tail(@)]
Failed(c) ==
  wire' = Popped(c) /\ UNCHANGED <<channel, gr, status, safe, global, crashed, moves>>

(* xmpp_iq_gameroom_join_cb() *)
JoinAnswered(c, a) ==
  /\ Handle(c, "join", a)
  /\ IF a.res # "ok" THEN Failed(c) ELSE
     /\ EnterRoom(a.sync)
     /\ wire' = Post(Popped(c), channel, EntryRequests(a.sync))
     /\ UNCHANGED <<channel, safe, global, crashed>>

(* xmpp_iq_gameroom_open_cb(): the mission list may have changed overnight;  *)
(* it is fetched anew and the room tried once more.                          *)
OpenAnswered(c, a) ==
  LET q == Head(wire[c])
      edit == Request("edit", NULL, "none")
  IN
  /\ Handle(c, "open", a)
  /\ CASE a.res = "stale" /\ q.arg = "first" ->
            /\ wire' = Post(Popped(c), channel, <<Request("missions", "retry", q.then)>>)
            /\ UNCHANGED <<channel, gr, status, safe, global, crashed, moves>>
       [] a.res = "ok" ->
            /\ EnterRoom(a.sync)
            /\ safe' = (safe \/ q.then = "safe")
            /\ wire' = Post(Popped(c), channel,
                            EntryRequests(a.sync) \o When(q.then = "safe", edit)
                                                  \o When(q.then # "none", edit))
            /\ UNCHANGED <<channel, global, crashed>>
       [] OTHER -> Failed(c)

(* _open_updated_list(): the mission may not be in the new list.             *)
MissionsAnswered(c, a) ==
  /\ Handle(c, "missions", a)
  /\ \/ Failed(c)
     \/ /\ a.res = "ok"
        /\ wire' = Post(Popped(c), channel,
                        <<Request("open", Head(wire[c]).arg, Head(wire[c]).then)>>)
        /\ UNCHANGED <<channel, gr, status, safe, global, crashed, moves>>

(* The flag is only reset where the room is left.                            *)
MutantLeaving(c, a) ==
  /\ Handle(c, "leave", a)
  /\ IF a.res # "ok"
     THEN UNCHANGED <<gr, status, safe, moves>>
     ELSE OutOfRoom([gr EXCEPT !.leaving = FALSE]) /\ safe' = FALSE
  /\ wire' = Popped(c)
  /\ UNCHANGED <<channel, global, crashed>>

(* An error is not told from success.                                        *)
MutantLeaveAnswered(c, a) ==
  /\ Handle(c, "leave", a)
  /\ OutOfRoom([gr EXCEPT !.leaving = FALSE]) /\ safe' = FALSE
  /\ wire' = Popped(c)
  /\ UNCHANGED <<channel, global, crashed>>

(* xmpp_iq_gameroom_leave_cb() *)
LeaveAnswered(c, a) ==
  LET g == [gr EXCEPT !.leaving = FALSE] IN
  /\ Handle(c, "leave", a)
  /\ IF a.res # "ok"
     THEN gr' = g /\ UNCHANGED <<status, safe, moves>>
     ELSE OutOfRoom(g) /\ safe' = FALSE
  /\ wire' = Popped(c)
  /\ UNCHANGED <<channel, global, crashed>>

(* gameroom_sync() on the state g, from any of the callbacks that use it.    *)
ApplySync(queues, g, y) ==
  /\ IF SyncCrashes(g, y)
     THEN crashed' = TRUE /\ UNCHANGED gr /\ wire' = queues
     ELSE /\ gr' = GameroomSync(g, y)
          /\ wire' = Post(queues, channel, SyncRequests(g, y))
          /\ UNCHANGED crashed
  /\ UNCHANGED <<channel, status, safe, global, moves>>

(* xmpp_iq_gameroom_setplayer_cb() *)
PlayerAnswered(c, a) ==
  /\ Handle(c, "setplayer", a)
  /\ IF a.res # "ok" THEN Failed(c)
     ELSE ApplySync(Popped(c), [gr EXCEPT !.joined = FALSE], a.sync)

(* The callbacks of promote_to_host, setname, setinfo and update_pvp.        *)
EditAnswered(c, a) ==
  /\ Handle(c, "edit", a)
  /\ IF a.res # "ok" THEN Failed(c) ELSE ApplySync(Popped(c), gr, a.sync)

(* xmpp_iq_session_join_cb(): to stay, for the time cmd_stay() gave, because *)
(* the variables say so or in a safe room; or else to leave.                 *)
SessionJoinAnswered(c, a) ==
  /\ Handle(c, "session_join", a)
  /\ \/ a.res # "ok" /\ Failed(c)
     \/ /\ a.res = "ok"
        /\ status' = "playing"
        /\ wire' = Post(Popped(c), channel,
                        When(gr.match, Request("setplayer", "unready", "none")))
        /\ gr' = IF gr.match THEN [gr EXCEPT !.desired = "unready"] ELSE gr
        /\ UNCHANGED <<channel, safe, global, crashed, moves>>
     \/ /\ a.res = "ok" /\ LeaveOnStart /\ ~safe
        /\ wire' = Post(Popped(c), channel, When(MayLeave, LeaveRequest))
        /\ gr' = IF MayLeave THEN [gr EXCEPT !.leaving = TRUE] ELSE gr
        /\ UNCHANGED <<channel, status, safe, global, crashed, moves>>

(* xmpp_iq_join_channel_cb(): the old room is left on the old channel, the   *)
(* request that waited for the channel goes to the new one.                  *)
SwitchAnswered(c, a) ==
  LET q == Head(wire[c])
      next == CASE q.arg = NULL -> <<>>
                [] q.arg = "first" -> <<Request("open", q.arg, q.then)>>
                [] OTHER -> <<Request("join", q.arg, "none")>>
      logout == When(channel # c, Request("logout", NULL, "none"))
  IN
  /\ Handle(c, "switch", a)
  /\ IF a.res # "ok"
     THEN /\ wire' = Post(Popped(c), c, logout)
          /\ UNCHANGED <<channel, gr, status, global, moves>>
     ELSE /\ channel' = c
          /\ status' = "lobby"
          /\ gr' = IF MayLeave THEN [gr EXCEPT !.leaving = TRUE] ELSE gr
          /\ wire' = Post(Post(Post(Popped(c), channel, When(MayLeave, LeaveRequest)),
                               c, next),
                          channel, logout)
          /\ IF JoinGlobal /\ global # <<c, GLOBAL>>
             THEN /\ global' = <<c, GLOBAL>>
                  /\ moves' = moves \o Presence(Leaving(IF gr.jid = NULL THEN global ELSE NULL))
                                    \o Presence(Entering(<<c, GLOBAL>>))
             ELSE UNCHANGED <<global, moves>>
  /\ UNCHANGED <<safe, crashed>>

MasterAnswers(c) ==
  /\ wire[c] # <<>>
  /\ \E a \in Outcomes(c) :
       \/ JoinAnswered(c, a) \/ OpenAnswered(c, a) \/ MissionsAnswered(c, a)
       \/ LeaveAnswered(c, a) \/ PlayerAnswered(c, a) \/ EditAnswered(c, a)
       \/ SessionJoinAnswered(c, a) \/ SwitchAnswered(c, a)

(* Nobody waits for the answer: it comes after its handler has expired, or   *)
(* it is that of channel_logout, which takes the client out of its room.     *)
Unheard(c) ==
  /\ ~crashed /\ wire[c] # <<>>
  /\ LET q == Head(wire[c]) IN
     \E a \in Outcomes(c) :
       /\ ~q.live \/ q.op = "logout"
       /\ seat' = [seat EXCEPT ![c] = IF q.op = "logout" THEN NoSeat ELSE a.seat]
       /\ spent' = [spent EXCEPT !.faults = @ + a.faults]
  /\ wire' = Popped(c)
  /\ UNCHANGED <<client, moves, member, crossed, late>>

(* What happens in the room: masterserver c seats the client as s.           *)
Notice(c, s) ==
  /\ ~crashed
  /\ seat[c].id # NULL /\ spent.notices < MaxNotices
  /\ spent' = [spent EXCEPT !.notices = @ + 1]
  /\ seat' = [seat EXCEPT ![c] = s]
  /\ UNCHANGED <<chats, member, crossed, late>>

(* xmpp_iq_gameroom_sync_cb() *)
SyncNotified(c, s, nodes) ==
  /\ Notice(c, s)
  /\ IF gr.jid # NULL THEN ApplySync(wire, gr, SyncOf(c, s, nodes))
     ELSE UNCHANGED <<channel, gr, status, safe, global, crashed, wire, moves>>

SessionNotified(c) ==
  \E nodes \in {"all", "session"} : SyncNotified(c, [seat[c] EXCEPT !.running = ~@], nodes)
RoomNotified(c) == \E nodes \in {"core", "params"} : SyncNotified(c, seat[c], nodes)

(* xmpp_iq_gameroom_on_kicked_cb(), xmpp_iq_gameroom_on_expired_cb()         *)
KickNotified(c) ==
  /\ Notice(c, NoSeat)
  /\ OutOfRoom(gr)
  /\ UNCHANGED <<channel, safe, global, crashed, wire>>

(* The type of the answer is not looked at.                                  *)
MutantPresence ==
  /\ ~crashed /\ moves # <<>>
  /\ moves' = Tail(moves)
  /\ LET m == Head(moves)
         Moved(rooms) == IF m.op = "leave" THEN rooms \ {m.chat} ELSE rooms \cup {m.chat}
     IN /\ chats' = IF m.live THEN Moved(chats) ELSE chats
        /\ \/ member' = Moved(member) /\ UNCHANGED spent
           \/ /\ spent.faults < MaxFaults /\ spent' = [spent EXCEPT !.faults = @ + 1]
              /\ UNCHANGED member
  /\ UNCHANGED <<channel, gr, status, safe, global, crashed, wire, seat, crossed, late>>

(* The chat service answers, and xmpp_presence_cb_() takes note.             *)
PresenceAnswered ==
  /\ ~crashed /\ moves # <<>>
  /\ moves' = Tail(moves)
  /\ LET m == Head(moves)
         Moved(rooms) == IF m.op = "leave" THEN rooms \ {m.chat} ELSE rooms \cup {m.chat}
     IN \/ /\ member' = Moved(member)
           /\ chats' = IF m.live THEN Moved(chats) ELSE chats
           /\ UNCHANGED spent
        \/ /\ spent.faults < MaxFaults /\ spent' = [spent EXCEPT !.faults = @ + 1]
           /\ UNCHANGED <<member, chats>>
  /\ UNCHANGED <<channel, gr, status, safe, global, crashed, wire, seat, crossed, late>>

(* idh_handle(): a handler older than 120 seconds is called without a        *)
(* message.  Only that of leave does something then.                         *)
Expire(c) ==
  /\ ~crashed /\ spent.faults < MaxFaults
  /\ \E i \in DOMAIN wire[c] :
       /\ wire[c][i].live /\ wire[c][i].op # "logout"
       /\ wire' = [wire EXCEPT ![c][i].live = FALSE]
       /\ gr' = IF wire[c][i].op = "leave" THEN [gr EXCEPT !.leaving = FALSE] ELSE gr
  /\ late' = TRUE
  /\ spent' = [spent EXCEPT !.faults = @ + 1]
  /\ UNCHANGED <<channel, status, safe, chats, global, crashed, moves, server, crossed>>

ExpirePresence ==
  /\ ~crashed /\ spent.faults < MaxFaults
  /\ \E i \in DOMAIN moves : moves[i].live /\ moves' = [moves EXCEPT ![i].live = FALSE]
  /\ late' = TRUE
  /\ spent' = [spent EXCEPT !.faults = @ + 1]
  /\ UNCHANGED <<client, wire, server, crossed>>

RoomNext ==
  \/ Commands
  \/ \E c \in Channels : \/ MasterAnswers(c) \/ Unheard(c) \/ Expire(c)
                         \/ SessionNotified(c) \/ RoomNotified(c) \/ KickNotified(c)
  \/ PresenceAnswered \/ ExpirePresence

RoomSpec == RoomInit /\ [][RoomNext]_roomVars

-----------------------------------------------------------------------------
(* Properties *)

Rest == moves = <<>> /\ \A c \in Channels : wire[c] = <<>>

Requests ==
  [op : {"join"}, arg : RoomIds, then : {"none"}, live : BOOLEAN]
    \cup [op : {"setplayer"}, arg : {"unready", "ready"}, then : {"none"}, live : BOOLEAN]
    \cup [op : {"open"}, arg : {"first", "retry"}, then : {"none", "edit", "safe"},
          live : BOOLEAN]
    \cup [op : {"missions"}, arg : {"retry"}, then : {"none", "edit", "safe"}, live : BOOLEAN]
    \cup [op : {"switch"}, arg : RoomIds \cup {NULL, "first"},
          then : {"none", "edit", "safe"}, live : BOOLEAN]
    \cup [op : {"leave", "edit", "session_join", "logout"}, arg : {NULL}, then : {"none"},
          live : BOOLEAN]
Gamerooms ==
  [jid : RoomJids \cup {NULL}, of : RoomJids \cup {NULL}, leaving : BOOLEAN, joined : BOOLEAN,
   desired : {"unready", "ready"}, curr : Statuses, players : BOOLEAN, match : BOOLEAN]
Seats == [id : RoomIds \cup {NULL}, running : BOOLEAN, own : Statuses]

(* Every variable has its type: each request the argument its callback reads. *)
RoomTypeOK ==
  /\ channel \in Channels /\ gr \in Gamerooms /\ status \in {"lobby", "room", "playing"}
  /\ {safe, crashed, crossed, late} \subseteq BOOLEAN
  /\ chats \subseteq Chats /\ member \subseteq Chats /\ global \in Chats \cup {NULL}
  /\ wire \in [Channels -> Seq(Requests)]
  /\ moves \in Seq([op : {"leave", "enter"}, chat : Chats, live : BOOLEAN])
  /\ seat \in [Channels -> Seats]
  /\ spent \in [commands : Nat, notices : Nat, faults : Nat]

(* The flag that keeps a second leave from being sent is set exactly while   *)
(* one is outstanding, whichever channel it went to and however it ends: an  *)
(* answer, an error or an expiry; and there is one at most.  It would else   *)
(* block every later leave.                                                  *)
Outstanding(c, i) == i \in DOMAIN wire[c] /\ wire[c][i].op = "leave" /\ wire[c][i].live
LeavingIsAnswered ==
  /\ gr.leaving <=> \E c \in Channels : \E i \in DOMAIN wire[c] : Outstanding(c, i)
  /\ \A c, d \in Channels : \A i \in DOMAIN wire[c], j \in DOMAIN wire[d] :
       Outstanding(c, i) /\ Outstanding(d, j) => c = d /\ i = j

(* When everything is answered the client and the masterserver of its channel *)
(* agree on the room it is in, and its public status says so; unless a change *)
(* of channel overlapped one of room, or an answer came late.                 *)
AgreeAtRest ==
  Rest /\ ~crashed /\ ~crossed /\ ~late =>
    /\ gr.jid = IF seat[channel].id = NULL THEN NULL ELSE <<channel, seat[channel].id>>
    /\ (status = "lobby") <=> (gr.jid = NULL)

(* In a room its list of players exists, so that no notice finds it freed;   *)
(* and what is known of a room is known of the room the client is in.  The   *)
(* client never follows the freed list, and never applies another room's     *)
(* state, but after the overlaps AgreeAtRest excepts as well.                *)
SyncIsOfTheRoom ==
  /\ gr.jid # NULL => gr.players
  /\ ~crossed /\ ~late => ~crashed /\ (gr.jid # NULL => gr.of = gr.jid)

(* The list of chat rooms, from which presences are suppressed, is the one   *)
(* the service has, once everything is answered in time.                     *)
ChatsAgree == Rest /\ ~late => chats = member

(* The inductive invariant behind them, in named parts.  What the chat service *)
(* answered was heard, the list of players is there in a room, and a           *)
(* masterserver knows nothing of a client it has in no room.                   *)
ChatsInv == ~late => chats = member /\ \A i \in DOMAIN moves : moves[i].live
PlayersInv == gr.jid # NULL => gr.players
SeatInv == \A c \in Channels : seat[c].id = NULL => seat[c] = NoSeat

(* While no change of channel overlaps one of room and nothing is late: what  *)
(* is about a room goes to the channel and nowhere else, a channel is left to  *)
(* the others, and a change of channel is alone, from no room and before no    *)
(* logout of its queue;                                                        *)
At(c, i, ops) == i \in DOMAIN wire[c] /\ wire[c][i].op \in ops
FlightInv ==
  ~crossed /\ ~late =>
    /\ \A c \in Channels : \A i \in DOMAIN wire[c] :
         /\ wire[c][i].live
         /\ At(c, i, RoomOps \cup {"logout"}) => (c = channel <=> wire[c][i].op # "logout")
         /\ At(c, i, {"switch"}) => gr.jid = NULL /\ ~InFlight(RoomOps)
    /\ \A c, d \in Channels : \A i \in DOMAIN wire[c], j \in DOMAIN wire[d] :
         At(c, i, {"switch"}) => /\ At(d, j, {"switch"}) => c = d /\ i = j
                                 /\ At(d, j, {"logout"}) /\ c = d => j < i
(* and where the client is, which is where it takes itself to be.            *)
PlaceInv ==
  ~crossed /\ ~late =>
    /\ ~crashed
    /\ \A c \in Channels : c # channel => seat[c].id = NULL
    /\ gr.jid = IF seat[channel].id = NULL THEN NULL ELSE <<channel, seat[channel].id>>
    /\ gr.jid # NULL => gr.of = gr.jid
    /\ (status = "lobby") <=> (gr.jid = NULL)

RoomInv ==
  /\ RoomTypeOK /\ LeavingIsAnswered /\ ChatsInv /\ PlayersInv /\ SeatInv
  /\ FlightInv /\ PlaceInv
=============================================================================
