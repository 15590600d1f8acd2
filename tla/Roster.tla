-------------------------------- MODULE Roster --------------------------------
(***************************************************************************)
(* The friends (src/friend.c) and clan mates (src/clanmate.c) of several bots   *)
(* that run this code and know each other.  A bot tells its status to every     *)
(* peer whose jid it has (src/status.c); the peer's answer is ignored, but an    *)
(* error, or no answer within 120 s, makes it offline in the list, and a peer    *)
(* without a jid is told nothing more.  The status is set by the dispatcher and  *)
(* by the ping thread, which tells it again every few minutes.                   *)
(*                                                                         *)
(* External: the service, which keeps who is whose friend and who is in the      *)
(* clan, answers and notifies at once, and hands each bot its stanzas in one     *)
(* order.  A stanza for a bot without a session comes back as an error; those a  *)
(* bot has not read when it dies are lost.                                       *)
(***************************************************************************)
EXTENDS Naturals, SequencesExt

CONSTANTS Bots,
          Statuses,      \* the values of session.online.status while online
          FirstStatus,   \* the one of the lobby
          Policies,      \* what cvar has a bot do with requests
          Scenarios      \* who are friends and in the clan to begin with, and what
                         \* may happen, how often (a bound)

(* Commands, changes of status, and faults: a session ends, an answer is late *)
Events == {"add", "remove", "invite", "leave", "change", "fault"}

ASSUME RosterAssumption ==
  /\ FirstStatus \in Statuses /\ {"off", "left"} \cap Statuses = {}
  /\ Policies \subseteq {"accept", "refuse", "postpone"}
  /\ \A f \in Scenarios : /\ f.pairs \subseteq {{b, x} : b, x \in Bots} /\ f.clan \subseteq Bots
                           /\ f.budget \in [Events -> Nat]

VARIABLES
  on,        \* the bot has a session
  status,    \* session.online.status
  list,      \* session.profile.friends and .clanmates, the newest first
  inClan,    \* session.profile.clan.id # 0
  pending,   \* its requests that wait for an answer
  ping,      \* where the ping thread is in status_set()
  inbox,     \* the stanzas on their way to the bot
  pairs, clan,                   \* what the service knows
  budget,    \* the events that may still happen
  unfriended, \* history: <<b, x>>: x removed b as a friend during b's session
  missed      \* history: <<k, b, x>>: the last b had of x was an error or no answer

session == <<status, list, inClan, pending, ping>>
vars == <<on, session, inbox, pairs, clan, budget, unfriended, missed>>

Kinds == {"friend", "mate"}
Idle == [pc |-> "idle"]
NoSession ==
  /\ on = [b \in Bots |-> FALSE]
  /\ status = [b \in Bots |-> FirstStatus]
  /\ list = [b \in Bots |-> [k \in Kinds |-> <<>>]]
  /\ inClan = [b \in Bots |-> FALSE]
  /\ pending = [b \in Bots |-> {}]
  /\ ping = [b \in Bots |-> Idle]

Init ==
  /\ NoSession
  /\ inbox = [b \in Bots |-> <<>>]
  /\ \E f \in Scenarios : pairs = f.pairs /\ clan = f.clan /\ budget = f.budget
  /\ unfriended = {} /\ missed = {}

Happens(e) == budget[e] > 0 /\ budget' = [budget EXCEPT ![e] = @ - 1]

-----------------------------------------------------------------------------
(* The lists *)

At(l, x) == SelectInSeq(l, LAMBDA e : e.nick = x)
Nicks(l) == {e.nick : e \in Range(l)}
Reachable(l) == {e.nick : e \in {y \in Range(l) : y.jid}}
Entry(x, s, known) == [nick |-> x, st |-> s, jid |-> known]

ListAdd(l, e) == <<e>> \o l
ListRemove(l, x) == IF At(l, x) = 0 THEN l ELSE RemoveAt(l, At(l, x))

(* friend_list_update() *)
MutantFriendListUpdate(l, e) ==
  IF At(l, e.nick) = 0 THEN ListAdd(l, e) ELSE ReplaceAt(l, At(l, e.nick), e)
FriendListUpdate(l, e) == IF At(l, e.nick) = 0 THEN l ELSE ReplaceAt(l, At(l, e.nick), e)
(* clanmate_list_update(), with a nickname *)
MutantClanmateListUpdate(l, e) == ListAdd(l, e)
ClanmateListUpdate(l, e) ==
  IF At(l, e.nick) = 0 THEN ListAdd(l, e) ELSE ReplaceAt(l, At(l, e.nick), e)
Update(k, l, e) == IF k = "friend" THEN FriendListUpdate(l, e) ELSE ClanmateListUpdate(l, e)

-----------------------------------------------------------------------------
(* The service and the network *)

Friends(b) == {x \in Bots \ {b} : {b, x} \in pairs}
StatusOf(x) == IF on[x] THEN status[x] ELSE "off"
Seen(x) == Entry(x, StatusOf(x), on[x])
SeenAll(X) == SetToSeq({Seen(x) : x \in X})

(* ib, and ms[x] for each x that has a session *)
Delivered(ib, ms) == [x \in Bots |-> IF on[x] /\ x \in DOMAIN ms THEN ib[x] \o ms[x] ELSE ib[x]]

Update_(b, m, s) == [t |-> "update", from |-> b, k |-> m.k, n |-> m.n, st |-> s]
Error(m) == [t |-> "error", m |-> m]

(* The requests ms of b with status s reach their peers or come back *)
Posted(ib, b, ms, s) ==
  [x \in Bots |->
     ib[x] \o IF x = b THEN SetToSeq({Error(m) : m \in {y \in ms : ~on[y.to]}})
              ELSE IF on[x] THEN SetToSeq({Update_(b, m, s) : m \in {y \in ms : y.to = x}})
              ELSE <<>>]

-----------------------------------------------------------------------------
(* xmpp_iq_peer_status_update_friend() and xmpp_iq_peer_clan_member_update_clanmate()
   over lists ls: a request, with a handler, to each peer that has a jid *)

Free(b, k, x) ==
  CHOOSE n \in 1 .. Cardinality(pending[b]) + 1 : [k |-> k, to |-> x, n |-> n] \notin pending[b]
Requests(b, ls) ==
  UNION {{[k |-> k, to |-> x, n |-> Free(b, k, x)] : x \in Reachable(ls[k])} : k \in DOMAIN ls}
Tells(b, ib, ls, s) ==
  /\ pending' = [pending EXCEPT ![b] = @ \cup Requests(b, ls)]
  /\ inbox' = Posted(ib, b, Requests(b, ls), s)

Received(b, t) == on[b] /\ inbox[b] # <<>> /\ Head(inbox[b]).t = t
Rest(b) == [inbox EXCEPT ![b] = Tail(@)]
service == <<pairs, clan, budget, unfriended>>

(* b has heard of the peers xs, which have jids *)
Heard(b, k, xs) == missed' = missed \ {<<k, b, x>> : x \in xs}

(* xmpp_iq_friend_list_cb() *)
FriendList(b) ==
  /\ Received(b, "friend_list")
  /\ LET l == Reverse(Head(inbox[b]).who)
     IN  /\ list' = [list EXCEPT ![b]["friend"] = l]
         /\ Tells(b, Rest(b), [k \in {"friend"} |-> l], status[b])
  /\ Heard(b, "friend", Bots)
  /\ UNCHANGED <<on, status, inClan, ping, service>>

ClanInfo(b) ==
  /\ Received(b, "clan_info")
  /\ LET l == FoldLeft(ClanmateListUpdate, <<>>,
                      SelectSeq(Head(inbox[b]).who, LAMBDA e : e.nick # b))
     IN  /\ list' = [list EXCEPT ![b]["mate"] = l]
         /\ Tells(b, Rest(b), [k \in {"mate"} |-> l], status[b])
  /\ inClan' = [inClan EXCEPT ![b] = TRUE] /\ Heard(b, "mate", Bots)
  /\ UNCHANGED <<on, status, ping, service>>

(* A peer tells its status, and is answered: the jid is kept unless it says it goes *)
Updated(b, k, gone) ==
  /\ Received(b, "update") /\ Head(inbox[b]).k = k
  /\ LET m == Head(inbox[b])
     IN  /\ list' = [list EXCEPT ![b][k] = Update(k, @, Entry(m.from, m.st, m.st \notin gone))]
         /\ inbox' = Delivered(Rest(b),
                       [x \in {m.from} |-> <<[t |-> "result", m |-> [k |-> k, to |-> b, n |-> m.n]]>>])
         /\ Heard(b, k, {m.from})
  /\ UNCHANGED <<on, status, inClan, pending, ping, service>>

(* xmpp_iq_peer_status_update_cb() *)
PeerStatusUpdate(b) == Updated(b, "friend", {"off", "left"})
(* xmpp_iq_peer_clan_member_update_cb(): STATUS_LEFT does not count as gone *)
PeerClanMemberUpdate(b) == Updated(b, "mate", {"off"})

(* Their callbacks *)
PeerAnswered(b) ==
  /\ Received(b, "result")
  /\ pending' = [pending EXCEPT ![b] = @ \ {Head(inbox[b]).m}]
  /\ inbox' = Rest(b)
  /\ UNCHANGED <<on, status, list, inClan, ping, service, missed>>

(* xmpp_iq_peer_status_update_cb() and xmpp_iq_peer_clan_member_update_cb(), on an error *)
MutantUnreachable(b, m) ==
  /\ pending' = [pending EXCEPT ![b] = @ \ {m}] /\ missed' = missed \cup {<<m.k, b, m.to>>}
  /\ UNCHANGED list
Unreachable(b, m) ==
  /\ pending' = [pending EXCEPT ![b] = @ \ {m}]
  /\ list' = [list EXCEPT ![b][m.k] = Update(m.k, @, Entry(m.to, "off", FALSE))]
  /\ missed' = missed \cup {<<m.k, b, m.to>>}
PeerError(b) ==
  /\ Received(b, "error")
  /\ IF Head(inbox[b]).m \in pending[b] THEN Unreachable(b, Head(inbox[b]).m)
                                        ELSE UNCHANGED <<pending, list, missed>>
  /\ inbox' = Rest(b)
  /\ UNCHANGED <<on, status, inClan, ping, service>>

(* or when it expires: there is nothing to wait for, or the answer is late *)
Answerable(b, m) ==
  \/ \E i \in DOMAIN inbox[b] : inbox[b][i].t \in {"result", "error"} /\ inbox[b][i].m = m
  \/ \E i \in DOMAIN inbox[m.to] : LET r == inbox[m.to][i]
                                   IN  r.t = "update" /\ r.from = b /\ r.k = m.k /\ r.n = m.n
  \/ ping[b].pc = "made" /\ m \in ping[b].ms
Expire(b) ==
  /\ on[b]
  /\ \E m \in pending[b] :
       /\ Unreachable(b, m)
       /\ \/ ~Answerable(b, m) /\ UNCHANGED budget
          \/ Happens("fault")
  /\ UNCHANGED <<on, status, inClan, ping, inbox, pairs, clan, unfriended>>

-----------------------------------------------------------------------------
(* status_set() *)

(* by the dispatcher: entering or leaving a room, a match *)
StatusSet(b, s) ==
  /\ on[b] /\ s # status[b] /\ Happens("change")
  /\ status' = [status EXCEPT ![b] = s]
  /\ Tells(b, inbox, list[b], s)
  /\ UNCHANGED <<on, list, inClan, ping, pairs, clan, unfriended, missed>>

(* by the ping thread, which passes what it read (its period of 300 s is longer than a
   request waits), *)
PingReads(b) ==
  /\ on[b] /\ ping[b] = Idle /\ pending[b] = {}
  /\ ping' = [ping EXCEPT ![b] = [pc |-> "read", st |-> status[b]]]
  /\ UNCHANGED <<on, status, list, inClan, pending, inbox, service, missed>>
(* stores it and writes the requests, *)
PingWrites(b) ==
  /\ on[b] /\ ping[b].pc = "read"
  /\ status' = [status EXCEPT ![b] = ping[b].st]
  /\ ping' = [ping EXCEPT ![b] = [pc |-> "made", st |-> ping[b].st, ms |-> Requests(b, list[b])]]
  /\ pending' = [pending EXCEPT ![b] = @ \cup Requests(b, list[b])]
  /\ UNCHANGED <<on, list, inClan, inbox, service, missed>>
(* and posts them, maybe after those of the dispatcher *)
PingPosts(b) ==
  /\ on[b] /\ ping[b].pc = "made"
  /\ inbox' = Posted(inbox, b, ping[b].ms, ping[b].st)
  /\ ping' = [ping EXCEPT ![b] = Idle]
  /\ UNCHANGED <<on, status, list, inClan, pending, service, missed>>

-----------------------------------------------------------------------------
(* Friends *)

(* cmd_add() *)
CmdAdd(b, x) ==
  /\ on[b] /\ Happens("add") /\ x \notin Friends(b) \cup {b}
  /\ inbox' = Delivered(inbox, [y \in {x} |-> <<[t |-> "request", from |-> b]>>])
  /\ UNCHANGED <<on, session, pairs, clan, unfriended, missed>>

(* NOTIF_FRIEND_REQUEST: if it is confirmed and accepted, the service tells both *)
FriendRequest(b) ==
  /\ Received(b, "request")
  /\ LET x == Head(inbox[b]).from
     IN  \E p \in Policies :
           IF p = "accept" /\ x \notin Friends(b)
             THEN /\ pairs' = pairs \cup {{b, x}}
                  /\ inbox' = Delivered(Rest(b), [y \in {b, x} |->
                       <<[t |-> "befriended", who |-> Seen(IF y = b THEN x ELSE b)]>>])
             ELSE inbox' = Rest(b) /\ UNCHANGED pairs
  /\ UNCHANGED <<on, session, clan, budget, unfriended, missed>>

(* NOTIF_FRIEND_REQUEST_RESULT *)
FriendRequestResult(b) ==
  /\ Received(b, "befriended")
  /\ LET e == Head(inbox[b]).who
     IN  /\ list' = [list EXCEPT ![b]["friend"] = ListAdd(@, e)]
         /\ Tells(b, Rest(b), [k \in {"friend"} |-> <<e>>], status[b])
         /\ Heard(b, "friend", IF e.jid THEN {e.nick} ELSE {})
  /\ UNCHANGED <<on, status, inClan, ping, service>>

(* cmd_remove(): the service does not tell the other *)
CmdRemove(b, x) ==
  /\ on[b] /\ Happens("remove") /\ x \in Friends(b)
  /\ pairs' = pairs \ {{b, x}}
  /\ unfriended' = unfriended \cup {<<x, b>>}
  /\ inbox' = Delivered(inbox, [y \in {b} |-> <<[t |-> "removed", who |-> x]>>])
  /\ UNCHANGED <<on, session, clan, missed>>
FriendRemoved(b) ==
  /\ Received(b, "removed")
  /\ list' = [list EXCEPT ![b]["friend"] = ListRemove(@, Head(inbox[b]).who)]
  /\ inbox' = Rest(b)
  /\ UNCHANGED <<on, status, inClan, pending, ping, service, missed>>

-----------------------------------------------------------------------------
(* The clan *)

(* cmd_clan_invite() *)
CmdClanInvite(b, x) ==
  /\ on[b] /\ Happens("invite") /\ b \in clan /\ x \notin clan
  /\ inbox' = Delivered(inbox, [y \in {x} |-> <<[t |-> "clan_invite"]>>])
  /\ UNCHANGED <<on, session, pairs, clan, unfriended, missed>>

(* NOTIF_CLAN_INVITE: not even refused by a bot that is in a clan *)
ClanInvite(b) ==
  /\ Received(b, "clan_invite")
  /\ \E p \in Policies :
       IF ~inClan[b] /\ p = "accept" /\ b \notin clan
         THEN /\ clan' = clan \cup {b}
              /\ inbox' = Delivered(Rest(b), [y \in clan \cup {b} |->
                   IF y = b THEN <<[t |-> "clan_info", who |-> SeenAll(clan \cup {b})]>>
                            ELSE <<[t |-> "member", who |-> Seen(b), in |-> TRUE]>>])
         ELSE inbox' = Rest(b) /\ UNCHANGED clan
  /\ UNCHANGED <<on, session, pairs, budget, unfriended, missed>>

(* xmpp_iq_clan_leave() *)
CmdClanLeave(b) ==
  /\ on[b] /\ Happens("leave") /\ b \in clan
  /\ clan' = clan \ {b}
  /\ inbox' = Delivered(inbox, [y \in clan |->
       IF y = b THEN <<[t |-> "clan_left"]>>
                ELSE <<[t |-> "member", who |-> Entry(b, "off", FALSE), in |-> FALSE]>>])
  /\ UNCHANGED <<on, session, pairs, unfriended, missed>>
(* its callback leaves clan.id as it was *)
ClanLeft(b) ==
  /\ Received(b, "clan_left")
  /\ list' = [list EXCEPT ![b]["mate"] = <<>>]
  /\ inbox' = Rest(b)
  /\ UNCHANGED <<on, status, inClan, pending, ping, service, missed>>

(* xmpp_iq_clan_members_updated_cb(): who left keeps the nickname it is known by, and
   stays in the list *)
MembersUpdated(b) ==
  /\ Received(b, "member")
  /\ LET m == Head(inbox[b])
     IN  /\ list' = IF m.in \/ m.who.nick \in Nicks(list[b]["mate"])
                      THEN [list EXCEPT ![b]["mate"] = ClanmateListUpdate(@, m.who)] ELSE list
         /\ Heard(b, "mate", IF m.who.jid THEN {m.who.nick} ELSE {})
  /\ inbox' = Rest(b)
  /\ UNCHANGED <<on, status, inClan, pending, ping, service>>

-----------------------------------------------------------------------------
(* Sessions *)

Login(b) ==
  /\ ~on[b] /\ on' = [on EXCEPT ![b] = TRUE]
  /\ inbox' = [inbox EXCEPT ![b] =
       <<[t |-> "friend_list", who |-> SeenAll(Friends(b))]>>
         \o IF b \in clan THEN <<[t |-> "clan_info", who |-> SeenAll(clan)]>> ELSE <<>>]
  /\ unfriended' = {u \in unfriended : u[1] # b}
  /\ UNCHANGED <<session, pairs, clan, budget, missed>>

Ended(b) ==
  /\ Happens("fault")
  /\ on' = [on EXCEPT ![b] = FALSE]
  /\ status' = [status EXCEPT ![b] = FirstStatus]
  /\ list' = [list EXCEPT ![b] = [k \in Kinds |-> <<>>]]
  /\ inClan' = [inClan EXCEPT ![b] = FALSE]
  /\ pending' = [pending EXCEPT ![b] = {}]
  /\ ping' = [ping EXCEPT ![b] = Idle]
  /\ missed' = {u \in missed : u[2] # b}
  /\ UNCHANGED <<pairs, clan, unfriended>>
Dies(b) == on[b] /\ Ended(b) /\ inbox' = [inbox EXCEPT ![b] = <<>>]
(* The reading thread meets the end of the stream: status_set(STATUS_LEFT) *)
Leaves(b) ==
  /\ on[b] /\ Ended(b)
  /\ inbox' = [Posted(inbox, b, Requests(b, list[b]), "left") EXCEPT ![b] = <<>>]

Dispatch(b) ==
  \/ FriendList(b) \/ ClanInfo(b) \/ PeerStatusUpdate(b) \/ PeerClanMemberUpdate(b)
  \/ PeerAnswered(b) \/ PeerError(b)
  \/ FriendRequest(b) \/ FriendRequestResult(b) \/ FriendRemoved(b)
  \/ ClanInvite(b) \/ ClanLeft(b) \/ MembersUpdated(b)
Ping(b) == PingReads(b) \/ PingWrites(b) \/ PingPosts(b)
User(b) ==
  \/ \E x \in Bots : CmdAdd(b, x) \/ CmdRemove(b, x) \/ CmdClanInvite(b, x)
  \/ CmdClanLeave(b)

Next ==
  \E b \in Bots :
    \/ Dispatch(b) \/ Expire(b) \/ Ping(b) \/ User(b) \/ Login(b) \/ Dies(b) \/ Leaves(b)
    \/ \E s \in Statuses : StatusSet(b, s)

Spec == Init /\ [][Next]_vars

(* The dispatcher and the ping thread go on, and a handler expires that nothing answers *)
FairSpec ==
  Spec /\ \A b \in Bots : WF_vars(Dispatch(b)) /\ WF_vars(Ping(b)) /\ WF_vars(Expire(b))

-----------------------------------------------------------------------------
(* Properties *)

(* Every variable has its type. *)
TypeOK ==
  /\ on \in [Bots -> BOOLEAN] /\ status \in [Bots -> Statuses] /\ inClan \in [Bots -> BOOLEAN]
  /\ \A b \in Bots : \A k \in Kinds : \A e \in Range(list[b][k]) :
       e.nick \in Bots \ {b} /\ e.st \in Statuses \cup {"off", "left"} /\ e.jid \in BOOLEAN
  /\ \A b \in Bots : pending[b] \subseteq [k : Kinds, to : Bots \ {b}, n : Nat \ {0}]
  /\ pairs \subseteq {{b, x} : b, x \in Bots} /\ clan \subseteq Bots
  /\ missed \subseteq Kinds \X Bots \X Bots

(* When a bot has handled what it was sent, its friends are those the service has for
   it, whatever answers of peers came late or from before they were removed; but one
   that removed it is still there, until it logs in again. *)
FriendsOfTheService ==
  \A b \in Bots : on[b] /\ inbox[b] = <<>> =>
    /\ Friends(b) \subseteq Nicks(list[b]["friend"])
    /\ \A x \in Nicks(list[b]["friend"]) \ Friends(b) : <<b, x>> \in unfriended

(* And its clan mates are at least the other members, each of them once, also when
   errors and updates cross the invitation or the leave of one. *)
MatesOfTheClan ==
  \A b \in Bots : on[b] /\ inbox[b] = <<>> =>
    /\ b \in clan => clan \ {b} \subseteq Nicks(list[b]["mate"])
    /\ IsInjective([i \in DOMAIN list[b]["mate"] |-> list[b]["mate"][i].nick])

(* Two bots that know each other see each other's last status in the end, and see that
   the other is gone, whatever requests of one of them were lost with a session or
   answered late: only who has no jid is told nothing, and who is told takes the jid.
   But when each has missed the other, neither has a jid to tell anything, for ever. *)
Related(k, b, x) == IF k = "friend" THEN x \in Friends(b) ELSE {b, x} \subseteq clan
Shows(k, b, x) ==
  LET l == list[b][k]
  IN  At(l, x) # 0 /\ IF on[x] THEN l[At(l, x)].jid /\ l[At(l, x)].st = status[x]
                               ELSE ~l[At(l, x)].jid
Blind(k, b, x) == {<<k, b, x>>, <<k, x, b>>} \subseteq missed
ViewsAgree ==
  \A b, x \in Bots : \A k \in Kinds :
    b = x \/ (<>[](on[b] /\ Related(k, b, x)) => <>[](Shows(k, b, x) \/ Blind(k, b, x)))
=============================================================================
