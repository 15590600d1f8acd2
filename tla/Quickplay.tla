------------------------------ MODULE Quickplay ------------------------------
(***************************************************************************)
(* The search for a quickplay match: several clients that run this code,     *)
(* one of which gathers a group with preinvites and has the service search   *)
(* for it (src/quickplay.c, src/cmd/cmd_quickplay.c, and the preinvite and   *)
(* quickplay handlers of src/xmpp_wf/).                                      *)
(*                                                                         *)
(* What one client, or the service, sends to another arrives in order.  The  *)
(* service is not in the repository; it is modelled by what the handlers     *)
(* expect: it searches for one group per player, tells all of the group when *)
(* that begins and ends, and offers a match before it calls it a success.    *)
(* The rooms themselves, which an accepted preinvite leaves and an accepted  *)
(* offer joins, are those of module Gameroom.                                *)
(*                                                                         *)
(* A client's commands run on its main thread, beside dispatch's handlers:   *)
(* quickplay_open() may be overtaken between its check and what it sets.     *)
(* The other commands are one step.                                          *)
(***************************************************************************)
EXTENDS Naturals, Sequences, FiniteSetsExt, SequencesExt

CONSTANTS Players,      \* the clients
          Service,      \* the masterservers and k01
          Choosy,       \* wb_qp_search_started or wb_qp_search_non_started is off
          MaxUid,       \* bound: the groups opened
          MaxCommands,  \* bound: the other commands, and the bare offers
          NULL

ASSUME QuickplayAssumption ==
  /\ Service \notin Players /\ Choosy \in BOOLEAN
  /\ MaxUid \in Nat \ {0} /\ MaxCommands \in Nat
  /\ NULL \notin Players \cup Nat \cup {Service}
  /\ NULL \notin Seq([who : Players, accepted : BOOLEAN])

VARIABLES
  pre,       \* session.quickplay.pre_uid: the group opened or joined
  uid,       \* session.quickplay.uid: the group that is searched for
  group,     \* session.quickplay.group: newest first
  master,    \* session.quickplay.master
  tryAgain,  \* session.quickplay.try_again
  opening,   \* who is in quickplay_open(), past its check
  net,       \* net[s][r]: what s has sent to r
  searches,  \* the service's: for whom it searches under each uid
  offered,   \* the service's: the players whose answer to an offer it awaits
  opened,    \* the uids used
  commands,  \* the commands and bare offers used
  agreed,    \* history: who has opened each uid or accepted a preinvite to it
  dropped,   \* history: the uids each player has cancelled, no guest
  begun,     \* history: the uids whose search each player heard begin
  overtaken, \* history: who opened its group after a search of its own began
  mixed      \* history: a search could take the group of another uid

groups == <<pre, uid, group, master, overtaken>>
session == <<groups, tryAgain>>
service == <<searches, offered>>
opens == <<opened, opening>>
history == <<agreed, dropped, begun, mixed>>
vars == <<session, net, service, opens, commands, history>>

Uids == 1 .. MaxUid
Parties == Players \cup {Service}

Init ==
  /\ pre = [p \in Players |-> NULL] /\ uid = pre /\ group = pre /\ master = pre
  /\ tryAgain = [p \in Players |-> FALSE]
  /\ net = [s \in Parties |-> [r \in Parties |-> <<>>]]
  /\ searches = [u \in Uids |-> {}] /\ offered = [u \in Uids |-> {}]
  /\ opened = 0 /\ commands = 0 /\ opening = [p \in Players |-> FALSE]
  /\ agreed = [u \in Uids |-> {}] /\ mixed = FALSE
  /\ dropped = [p \in Players |-> {}] /\ begun = dropped /\ overtaken = opening

-----------------------------------------------------------------------------
(* Messages *)

Invite(u) == [type |-> "preinvite_invite", uid |-> u]
Response(u, accepted) == [type |-> "preinvite_response", uid |-> u, accepted |-> accepted]
Cancel(u) == [type |-> "preinvite_cancel", uid |-> u]
Search(u, with, tries) == [type |-> "quickplay", uid |-> u, with |-> with, tries |-> tries]
SearchCancel == [type |-> "quickplay_cancel"]
OfferResponse(u, result) == [type |-> "offer_response", uid |-> u, result |-> result]
Notice(type, u) == [type |-> type, uid |-> u]
Proposal(u, bare) == [type |-> "offer", uid |-> u, bare |-> bare]

(* queues after s has sent m to each of rs *)
SentTo(queues, s, rs, m) ==
  [queues EXCEPT ![s] = [r \in Parties |-> IF r \in rs THEN Append(@[r], m) ELSE @[r]]]

(* r takes the oldest message of s *)
Taken(s, r) == [net EXCEPT ![s][r] = Tail(@)]
Receives(s, r, type) == net[s][r] # <<>> /\ Head(net[s][r]).type = type

Member(p, accepted) == [who |-> p, accepted |-> accepted]
Whom(g) == IF g = NULL THEN {} ELSE {g[i].who : i \in DOMAIN g}
Accepted(g) ==
  IF g = NULL THEN {} ELSE {g[i].who : i \in {j \in DOMAIN g : g[j].accepted}}
Made(g) == IF g = NULL THEN <<>> ELSE g

(* quickplay_free() *)
MutantForgotten(p) ==
  /\ pre' = [pre EXCEPT ![p] = NULL]
  /\ group' = [group EXCEPT ![p] = NULL] /\ master' = [master EXCEPT ![p] = NULL]
  /\ UNCHANGED <<uid, overtaken>>

Forgotten(p) ==
  /\ pre' = [pre EXCEPT ![p] = NULL] /\ uid' = [uid EXCEPT ![p] = NULL]
  /\ group' = [group EXCEPT ![p] = NULL] /\ master' = [master EXCEPT ![p] = NULL]
  /\ overtaken' = [overtaken EXCEPT ![p] = FALSE]

-----------------------------------------------------------------------------
(* Commands *)

Command ==
  /\ commands < MaxCommands /\ commands' = commands + 1
  /\ UNCHANGED <<service, opens, tryAgain>>

(* quickplay_open(): the check, ...                                          *)
Opening(p) ==
  /\ opened < MaxUid /\ ~opening[p] /\ uid[p] = NULL
  /\ opening' = [opening EXCEPT ![p] = TRUE]
  /\ UNCHANGED <<session, net, service, opened, commands, history>>

(* ... and the new uid.  The group of an earlier one stays, and so does a    *)
(* search that dispatch has heard begin since the check.                     *)
Open(p) ==
  /\ opening[p] /\ opened < MaxUid
  /\ opening' = [opening EXCEPT ![p] = FALSE]
  /\ opened' = opened + 1
  /\ pre' = [pre EXCEPT ![p] = opened']
  /\ agreed' = [agreed EXCEPT ![opened'] = @ \cup {p}]
  /\ mixed' = (mixed \/ pre[p] # NULL \/ group[p] # NULL)
  /\ overtaken' = [overtaken EXCEPT ![p] = uid[p] # NULL]
  /\ UNCHANGED <<uid, group, master, tryAgain, net, service, commands, dropped, begun>>

(* quickplay_preinvite() *)
Preinvite(p, q) ==
  /\ Command /\ pre[p] # NULL
  /\ group' = [group EXCEPT ![p] = <<Member(q, FALSE)>> \o Made(@)]
  /\ net' = SentTo(net, p, {q}, Invite(pre[p]))
  /\ UNCHANGED <<pre, uid, master, overtaken, history>>

(* quickplay_start() *)
Start(p) ==
  /\ Command /\ pre[p] # NULL
  /\ group' = [group EXCEPT ![p] = Made(@)]
  /\ net' = SentTo(net, p, {Service}, Search(pre[p], Accepted(group[p]), 0))
  /\ UNCHANGED <<pre, uid, master, overtaken, history>>

(* What p ends by a cancel: what it opened or searches for, and no guest does. *)
Ended(p) == IF master[p] = NULL THEN {pre[p], uid[p]} \ {NULL} ELSE {}

(* The group is freed before its members are told.                           *)
MutantCancelCommand(p) ==
  /\ Command
  /\ net' = IF uid[p] = NULL THEN net ELSE SentTo(net, p, {Service}, SearchCancel)
  /\ dropped' = [dropped EXCEPT ![p] = @ \cup Ended(p)]
  /\ Forgotten(p)
  /\ UNCHANGED <<agreed, begun, mixed>>

(* quickplay_cancel(): as often as they are in it, the group's members are   *)
(* told; the service only of a search that it has said to have started.      *)
CancelCommand(p) ==
  LET told == IF pre[p] = NULL THEN net ELSE SentTo(net, p, Whom(group[p]), Cancel(pre[p]))
  IN /\ Command
     /\ net' = IF uid[p] = NULL THEN told ELSE SentTo(told, p, {Service}, SearchCancel)
     /\ dropped' = [dropped EXCEPT ![p] = @ \cup Ended(p)]
     /\ Forgotten(p)
     /\ UNCHANGED <<agreed, begun, mixed>>

(* Another room is joined, or the client is put out of its room: group and    *)
(* search are forgotten, and nobody is told.                                 *)
RoomChanged(p) ==
  /\ Command /\ Forgotten(p)
  /\ UNCHANGED <<net, history>>

-----------------------------------------------------------------------------
(* What the clients tell each other *)

Handler == UNCHANGED <<service, opens, commands>>

(* A preinvite is accepted during a search as well.                          *)
MutantPreinvited(p, s) ==
  LET u == Head(net[s][p]).uid
      accepted == pre[p] = NULL
  IN
  /\ Receives(s, p, "preinvite_invite") /\ Handler
  /\ net' = SentTo(Taken(s, p), p, {s}, Response(u, accepted))
  /\ IF accepted
     THEN /\ pre' = [pre EXCEPT ![p] = u] /\ master' = [master EXCEPT ![p] = s]
          /\ agreed' = [agreed EXCEPT ![u] = @ \cup {p}]
          /\ dropped' = [dropped EXCEPT ![p] = @ \ {u}]
     ELSE UNCHANGED <<pre, master, agreed, dropped>>
  /\ mixed' = (mixed \/ (accepted /\ group[p] # NULL))
  /\ UNCHANGED <<uid, group, tryAgain, overtaken, begun>>

(* xmpp_iq_preinvite_invite_cb(): a client that is in no group accepts, or   *)
(* rejects as wb_safemaster and wb_accept_room_invitations tell it to.       *)
Preinvited(p, s) == \E accepted \in {pre[p] = NULL /\ uid[p] = NULL, FALSE} :
  LET u == Head(net[s][p]).uid IN
  /\ Receives(s, p, "preinvite_invite") /\ Handler
  /\ net' = SentTo(Taken(s, p), p, {s}, Response(u, accepted))
  /\ IF accepted
     THEN /\ pre' = [pre EXCEPT ![p] = u] /\ master' = [master EXCEPT ![p] = s]
          /\ agreed' = [agreed EXCEPT ![u] = @ \cup {p}]
          /\ dropped' = [dropped EXCEPT ![p] = @ \ {u}]
     ELSE UNCHANGED <<pre, master, agreed, dropped>>
  /\ mixed' = (mixed \/ (accepted /\ group[p] # NULL))
  /\ UNCHANGED <<uid, group, tryAgain, overtaken, begun>>

(* With wb_postpone_room_invitations it is not answered.                     *)
Postponed(p, s) ==
  /\ Receives(s, p, "preinvite_invite") /\ Handler
  /\ net' = Taken(s, p)
  /\ UNCHANGED <<session, history>>

(* The place of s in the group: the first found, from the newest. *)
PlaceOf(s, g) == Min({i \in DOMAIN g : g[i].who = s})

(* A response of an earlier group counts for this one.                       *)
MutantResponded(p, s) ==
  LET m == Head(net[s][p])
      g == group[p]
      known == s \in Whom(g) /\ pre[p] # NULL
  IN
  /\ Receives(s, p, "preinvite_response") /\ Handler
  /\ net' = IF g = NULL \/ known THEN Taken(s, p)
            ELSE SentTo(Taken(s, p), p, {s}, Cancel(m.uid))
  /\ group' = IF ~known THEN group
              ELSE [group EXCEPT ![p] = IF m.accepted THEN [@ EXCEPT ![PlaceOf(s, g)].accepted = TRUE]
                                        ELSE RemoveAt(@, PlaceOf(s, g))]
  /\ UNCHANGED <<pre, uid, master, tryAgain, overtaken, history>>

(* quickplay_preinvite_response(): one that comes too late is answered with  *)
(* a cancel, but not once the group is gone.                                 *)
Responded(p, s) ==
  LET m == Head(net[s][p])
      g == group[p]
      known == s \in Whom(g) /\ pre[p] = m.uid
  IN
  /\ Receives(s, p, "preinvite_response") /\ Handler
  /\ net' = IF g = NULL \/ known THEN Taken(s, p)
            ELSE SentTo(Taken(s, p), p, {s}, Cancel(m.uid))
  /\ group' = IF ~known THEN group
              ELSE [group EXCEPT ![p] = IF m.accepted THEN [@ EXCEPT ![PlaceOf(s, g)].accepted = TRUE]
                                        ELSE RemoveAt(@, PlaceOf(s, g))]
  /\ UNCHANGED <<pre, uid, master, tryAgain, overtaken, history>>

(* xmpp_iq_preinvite_cancel_cb(), whatever uid is cancelled.  This client    *)
(* sends no cancel of the kind that a guest would.                           *)
PreinviteCanceled(p, s) ==
  /\ Receives(s, p, "preinvite_cancel") /\ Handler
  /\ net' = Taken(s, p)
  /\ pre' = [pre EXCEPT ![p] = NULL] /\ master' = [master EXCEPT ![p] = NULL]
  /\ UNCHANGED <<uid, group, tryAgain, overtaken, history>>

-----------------------------------------------------------------------------
(* What the service tells a client *)

Told(p, type) ==
  /\ Receives(Service, p, type) /\ Handler
  /\ UNCHANGED <<agreed, dropped>>

(* quickplay_started() *)
Started(p) ==
  LET u == Head(net[Service][p]).uid IN
  /\ Told(p, "started")
  /\ net' = Taken(Service, p)
  /\ IF pre[p] = u
     THEN /\ uid' = [uid EXCEPT ![p] = u] /\ pre' = [pre EXCEPT ![p] = NULL]
          /\ tryAgain' = [tryAgain EXCEPT ![p] = FALSE]
          /\ begun' = [begun EXCEPT ![p] = @ \cup {u}]
     ELSE UNCHANGED <<uid, pre, tryAgain, begun>>
  /\ UNCHANGED <<group, master, overtaken, mixed>>

(* Any offer is taken.                                                       *)
MutantOffer(p) ==
  LET u == Head(net[Service][p]).uid IN
  /\ Told(p, "offer")
  /\ net' = SentTo(Taken(Service, p), p, {Service}, OfferResponse(u, TRUE))
  /\ UNCHANGED <<session, begun, mixed>>

(* xmpp_iq_gameroom_offer_cb(): any offer is taken during a search, and a    *)
(* bare one, whose token is empty, always; but not a match in a state not    *)
(* wanted, and the next success is then not ours.                            *)
Offer(p) ==
  LET o == Head(net[Service][p])
      u == o.uid
  IN
  /\ Told(p, "offer")
  /\ \/ /\ net' = SentTo(Taken(Service, p), p, {Service},
                         OfferResponse(u, uid[p] # NULL \/ o.bare))
        /\ UNCHANGED tryAgain
     \/ /\ Choosy
        /\ net' = SentTo(Taken(Service, p), p, {Service}, OfferResponse(u, FALSE))
        /\ tryAgain' = [tryAgain EXCEPT ![p] = TRUE]
  /\ UNCHANGED <<groups, begun, mixed>>

(* quickplay_succeeded() *)
Succeeded(p) ==
  /\ Told(p, "succeeded")
  /\ net' = Taken(Service, p)
  /\ IF ~tryAgain[p] /\ uid[p] = Head(net[Service][p]).uid THEN Forgotten(p)
     ELSE UNCHANGED groups
  /\ tryAgain' = [tryAgain EXCEPT ![p] = FALSE]
  /\ UNCHANGED <<begun, mixed>>

(* quickplay_canceled() *)
Canceled(p) ==
  /\ Told(p, "canceled")
  /\ net' = Taken(Service, p)
  /\ IF uid[p] = Head(net[Service][p]).uid THEN Forgotten(p)
     ELSE UNCHANGED groups
  /\ UNCHANGED <<tryAgain, begun, mixed>>

(* The room of a match is joined. *)
Joined(p) ==
  /\ Told(p, "joined")
  /\ net' = Taken(Service, p)
  /\ Forgotten(p)
  /\ UNCHANGED <<tryAgain, begun, mixed>>

(* xmpp_iq_gameroom_quickplay_cb(): the mission has expired, the client asks *)
(* for the missions, unless it does not know the expired one either.         *)
MissionExpired(p) ==
  LET u == Head(net[Service][p]).uid IN
  /\ Told(p, "expired")
  /\ net' \in {Taken(Service, p), SentTo(Taken(Service, p), p, {Service}, Notice("missions", u))}
  /\ UNCHANGED <<session, begun, mixed>>

(* _quickplay_updated_list(): the search is tried once more, with the uid of *)
(* then and the group of now, if the mission is still there.                 *)
MissionsUpdated(p) ==
  LET u == Head(net[Service][p]).uid IN
  /\ Told(p, "missions")
  /\ \/ /\ net' = SentTo(Taken(Service, p), p, {Service}, Search(u, Accepted(group[p]), 1))
        /\ mixed' = (mixed \/ (pre[p] # u /\ group[p] # NULL))
     \/ net' = Taken(Service, p) /\ UNCHANGED mixed
  /\ UNCHANGED <<session, begun>>

-----------------------------------------------------------------------------
(* The service *)

Serves == UNCHANGED <<session, opens, history>>

Searching(p) == \E u \in Uids : p \in searches[u]

(* It begins a search, refuses it, or finds the mission expired. *)
SearchRequested(p) ==
  LET m == Head(net[p][Service])
      all == {p} \cup m.with
  IN
  /\ Receives(p, Service, "quickplay") /\ Serves /\ UNCHANGED commands
  /\ \/ /\ searches[m.uid] = {} /\ \A q \in all : ~Searching(q)
        /\ searches' = [searches EXCEPT ![m.uid] = all]
        /\ net' = SentTo(Taken(p, Service), Service, all, Notice("started", m.uid))
     \/ net' = Taken(p, Service) /\ UNCHANGED searches
     \/ /\ m.tries = 0
        /\ net' = SentTo(Taken(p, Service), Service, {p}, Notice("expired", m.uid))
        /\ UNCHANGED searches
  /\ UNCHANGED offered

MissionsAsked(p) ==
  /\ Receives(p, Service, "missions") /\ Serves /\ UNCHANGED commands
  /\ net' = SentTo(Taken(p, Service), Service, {p}, Head(net[p][Service]))
  /\ UNCHANGED service

(* It cancels the search the sender is in. *)
SearchCanceled(p) ==
  LET theirs == {u \in Uids : p \in searches[u]} IN
  /\ Receives(p, Service, "quickplay_cancel") /\ Serves /\ UNCHANGED commands
  /\ searches' = [u \in Uids |-> IF u \in theirs THEN {} ELSE searches[u]]
  /\ offered' = [u \in Uids |-> IF u \in theirs THEN {} ELSE offered[u]]
  /\ net' = IF theirs = {} THEN Taken(p, Service)
            ELSE LET u == CHOOSE v \in theirs : TRUE
                 IN SentTo(Taken(p, Service), Service, searches[u], Notice("canceled", u))

(* It proposes a match; the offers may be bare of a token, all or none of them. *)
Match(u) ==
  /\ searches[u] # {} /\ offered[u] = {} /\ Serves
  /\ offered' = [offered EXCEPT ![u] = searches[u]]
  /\ \E bare \in BOOLEAN :
       /\ bare => commands < MaxCommands
       /\ commands' = IF bare THEN commands + 1 ELSE commands
       /\ net' = SentTo(SentTo(net, Service, searches[u], Proposal(u, bare)),
                        Service, searches[u], Notice("succeeded", u))
  /\ UNCHANGED searches

(* Every offer has an id, and is answered once: the oldest answer of p is to *)
(* the offer that stands if no later one of that search is under way.        *)
Stands(p) ==
  LET u == Head(net[p][Service]).uid
      others == Range(Tail(net[p][Service])) \cup Range(net[Service][p])
  IN p \in offered[u] /\ \A m \in others : m.type \in {"offer", "offer_response"} => m.uid # u

(* An answer that comes when the offer is over is ignored. *)
OfferAnswered(p) ==
  LET m == Head(net[p][Service])
      taken == Stands(p) /\ m.result
  IN
  /\ Receives(p, Service, "offer_response") /\ Serves /\ UNCHANGED commands
  /\ \/ net' = Taken(p, Service)
     \/ taken /\ net' = SentTo(Taken(p, Service), Service, {p}, Notice("joined", m.uid))
  /\ offered' = IF Stands(p) THEN [offered EXCEPT ![m.uid] = @ \ {p}] ELSE offered
  /\ searches' = IF taken THEN [searches EXCEPT ![m.uid] = @ \ {p}] ELSE searches

Next ==
  \/ \E p \in Players :
       \/ Opening(p) \/ Open(p) \/ Start(p) \/ CancelCommand(p) \/ RoomChanged(p)
       \/ \E q \in Players \ {p} :
            \/ Preinvite(p, q) \/ Preinvited(p, q) \/ Postponed(p, q)
            \/ Responded(p, q) \/ PreinviteCanceled(p, q)
       \/ Started(p) \/ Offer(p) \/ Succeeded(p) \/ Canceled(p) \/ Joined(p) \/ MissionExpired(p)
       \/ MissionsUpdated(p) \/ MissionsAsked(p) \/ SearchRequested(p) \/ SearchCanceled(p) \/ OfferAnswered(p)
  \/ \E u \in Uids : Match(u)

Spec == Init /\ [][Next]_vars

-----------------------------------------------------------------------------
(* Properties *)

Messages ==
  [type : {"preinvite_invite", "preinvite_cancel", "started", "succeeded",
           "canceled", "joined", "expired", "missions"}, uid : Uids]
  \cup [type : {"offer"}, uid : Uids, bare : BOOLEAN]
  \cup [type : {"preinvite_response"}, uid : Uids, accepted : BOOLEAN]
  \cup [type : {"quickplay"}, uid : Uids, with : SUBSET Players, tries : {0, 1}]
  \cup [type : {"quickplay_cancel"}]
  \cup [type : {"offer_response"}, uid : Uids, result : BOOLEAN]

Net == [Parties -> [Parties -> Seq(Messages)]]

Members(p) == [who : Players \ {p}, accepted : BOOLEAN]

SessionOK ==
  /\ pre \in [Players -> Uids \cup {NULL}] /\ uid \in [Players -> Uids \cup {NULL}]
  /\ master \in [Players -> Players \cup {NULL}]
  /\ tryAgain \in [Players -> BOOLEAN] /\ overtaken \in [Players -> BOOLEAN]
  /\ DOMAIN group = Players
  /\ \A p \in Players : group[p] # NULL => group[p] \in Seq(Members(p))

ServiceOK ==
  /\ searches \in [Uids -> SUBSET Players] /\ offered \in [Uids -> SUBSET Players]
  /\ \A u \in Uids : offered[u] \subseteq searches[u]

CountsOK ==
  /\ opened \in 0 .. MaxUid /\ commands \in 0 .. MaxCommands
  /\ opening \in [Players -> BOOLEAN]
  /\ agreed \in [Uids -> SUBSET Players] /\ mixed \in BOOLEAN

TypeOK == SessionOK /\ net \in Net /\ ServiceOK /\ CountsOK

Rest == \A s, r \in Parties : net[s][r] = <<>>

(* A client is in one group at most, before or during its search; but for    *)
(* one whose quickplay_open() was overtaken by the beginning of a search     *)
(* between its check and the new uid.                                        *)
OneGroupAtATime == \A p \in Players : pre[p] = NULL \/ uid[p] = NULL \/ overtaken[p]

(* When all is said, a client that waits for a search is in a search of the  *)
(* service: no notice of its end was taken for another's or missed, however  *)
(* cancel, offer and success crossed.                                        *)
WaitsForASearch == Rest => \A p \in Players : uid[p] # NULL => p \in searches[uid[p]]

(* Nobody is searched for who has neither opened that group nor accepted an  *)
(* invitation to it; unless a group was opened, or another's joined, over an *)
(* earlier one, whose members it then inherits, or an expired search retried *)
(* over another's.                                                           *)
GroupAgreed == ~mixed => \A u \in Uids : searches[u] \subseteq agreed[u]

(* What the agreement rests on while the messages are under way.  A group's  *)
(* uid, and whatever is sent about it on the way to a search, is its         *)
(* sender's to send.                                                         *)
SoundBy(agreement, mix, s, r, m) ==
  /\ m.type = "preinvite_response" /\ m.accepted => s \in agreement[m.uid]
  /\ m.type = "quickplay" =>
       s \in agreement[m.uid] /\ (~mix => m.with \subseteq agreement[m.uid])
  /\ m.type \in {"expired", "missions"} =>
       (IF s = Service THEN r ELSE s) \in agreement[m.uid]

Sound(s, r, m) == SoundBy(agreed, mixed, s, r, m)

FlightInv == \A s, r \in Parties : \A m \in Range(net[s][r]) : Sound(s, r, m)

GroupSound(p) ==
  pre[p] # NULL =>
    p \in agreed[pre[p]] /\ (~mixed => Accepted(group[p]) \subseteq agreed[pre[p]])

GroupInv == \A p \in Players : GroupSound(p)

(* Where the notices q under way to a client that waits for u lead it: place *)
(* 0 stands for the client as it is now, another place for a search begun.   *)
Waits(q, u, j, v) == IF j = 0 THEN u = v ELSE q[j] = Notice("started", v)
Quiet(q, j, i) == \A k \in j + 1 .. i - 1 : q[k].type # "started"

(* By place i it has heard that the search it waits for since j is over: of   *)
(* a success only when it has just taken the match.                          *)
Over(q, again, j, i, v) ==
  \E k \in j + 1 .. i - 1 :
    q[k] = Notice("canceled", v) \/ (k = 1 /\ ~again /\ q[k] = Notice("succeeded", v))

(* A match is a success once offered, whatever the client says of it.        *)
Paired(q, again) ==
  /\ \A i \in DOMAIN q :
       q[i].type = "offer" => i + 1 \in DOMAIN q /\ q[i + 1] = Notice("succeeded", q[i].uid)
  /\ again => q # <<>> /\ Head(q).type = "succeeded"

(* Offers are of the search the client then waits for, and none begins       *)
(* before that is over.                                                      *)
Ordered(q, u, again) ==
  \A j \in 0 .. Len(q), v \in Uids : \A i \in j + 1 .. Len(q) :
    Waits(q, u, j, v) /\ Quiet(q, j, i) =>
      /\ q[i].type = "offer" => q[i].uid = v
      /\ q[i].type = "started" => Over(q, again, j, i, v)

(* The client is in the searches of mine, or will have heard that it is not. *)
Tracked(q, u, again, mine) ==
  /\ \A v, w \in mine : v = w
  /\ \A j \in 0 .. Len(q), v \in Uids :
       Waits(q, u, j, v) /\ Quiet(q, j, Len(q) + 1) =>
         v \in mine \/ (mine = {} /\ Over(q, again, j, Len(q) + 1, v))

(* Answer i of a takes the match of v, and no answer about v is later. *)
Takes(a, i, v) ==
  /\ a[i] = OfferResponse(v, TRUE)
  /\ \A k \in DOMAIN a : k > i => ~(a[k].type = "offer_response" /\ a[k].uid = v)

Offers(m, v) == m.type = "offer" /\ m.uid = v

(* An offer that stands is under way if a search begins later; and who has   *)
(* taken it waits no longer, or not once it hears of the success.            *)
Owed(q, a, u, again, asked) ==
  \A v \in asked :
    \/ \E i \in DOMAIN q : Offers(q[i], v) /\ Quiet(q, i, Len(q) + 1)
    \/ /\ \A i \in DOMAIN q : q[i].type # "started"
       /\ (\E i \in DOMAIN a : Takes(a, i, v)) =>
            u = NULL \/ (q # <<>> /\ Head(q) = Notice("succeeded", u) /\ ~again)

Followed(q, a, u, again, mine, asked) ==
  /\ Paired(q, again) /\ Ordered(q, u, again)
  /\ Tracked(q, u, again, mine) /\ Owed(q, a, u, again, asked)

InSearch(p) == {u \in Uids : p \in searches[u]}
Asked(p) == {u \in Uids : p \in offered[u]}

SearchInv ==
  \A p \in Players :
    Followed(net[Service][p], net[p][Service], uid[p], tryAgain[p], InSearch(p), Asked(p))

(* How often q is in a group, and how often m is under way. *)
Entries(q, g) == Cardinality({i \in DOMAIN Made(g) : Made(g)[i].who = q})
Times(m, queue) == Cardinality({i \in DOMAIN queue : queue[i] = m})

WaitsFor(q, p, u) == pre[q] = u /\ master[q] = p

(* Each invitation of p to the group u that it opened, and each refusal of   *)
(* one, has its own place there, as has the guest that waits: there are so   *)
(* many places, out is under way from p to q, and back from q to p.          *)
Listed(places, out, back, u, waits) ==
  Times(Invite(u), out) + Times(Response(u, FALSE), back) + (IF waits THEN 1 ELSE 0) =< places

CanceledAfter(queue, i) == \E k \in DOMAIN queue : k > i /\ queue[k].type = "preinvite_cancel"

(* Of a group that p has cancelled, a cancel follows each invitation that is *)
(* under way to q, and reaches q if it waits.                                *)
Warned(queue, u, waits) ==
  /\ \A i \in DOMAIN queue : queue[i] = Invite(u) => CanceledAfter(queue, i)
  /\ waits => CanceledAfter(queue, 0)

(* What p owes q, who may be its guest. *)
Hosted(p, q) ==
  /\ pre[p] # NULL /\ master[p] = NULL =>
       Listed(Entries(q, group[p]), net[p][q], net[q][p], pre[p], WaitsFor(q, p, pre[p]))
  /\ \A u \in dropped[p] \ begun[p] : Warned(net[p][q], u, WaitsFor(q, p, u))

(* Nothing is said of a group before it is opened. *)
UidsOpened ==
  /\ \A p \in Players : pre[p] \in (1 .. opened) \cup {NULL}
  /\ \A s, r \in Players : \A m \in Range(net[s][r]) : m.uid \in 1 .. opened
  /\ dropped \in [Players -> SUBSET (1 .. opened)]
  /\ begun \in [Players -> SUBSET (1 .. opened)]

GuestInv ==
  /\ UidsOpened
  /\ \A p \in Players : pre[p] \notin dropped[p] /\ uid[p] \in begun[p] \cup {NULL}
  /\ \A p \in Players : \A q \in Players \ {p} : Hosted(p, q)

Inv == TypeOK /\ OneGroupAtATime /\ FlightInv /\ GroupInv /\ GroupAgreed

(* A client only takes a match of the search it waits for, although offers   *)
(* are not told apart by uid; but for a bare offer, which it takes always.   *)
OwnMatch(p) ==
  LET sent == net'[p][Service] IN
  Len(sent) > Len(net[p][Service]) /\ Last(sent).type = "offer_response" /\ Last(sent).result
    => uid[p] = Last(sent).uid \/ Head(net[Service][p]).bare

TakesItsMatch == [][\A p \in Players : OwnMatch(p)]_vars

(* Nobody goes on waiting for a group whose master has cancelled it before   *)
(* its search began, at whatever point between invitation and answer.  Once  *)
(* that began quickplay_cancel() tells the group nothing and drops the       *)
(* acceptances that come: a guest the search does not have then waits on.    *)
CancelReachesGuests ==
  Rest => \A p, q \in Players :
            pre[q] # NULL /\ master[q] = p => pre[q] \notin dropped[p] \ begun[p]
=============================================================================
