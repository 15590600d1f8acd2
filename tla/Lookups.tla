-------------------------------- MODULE Lookups --------------------------------
(***************************************************************************)
(* The calls of the D-Bus interface (src/dbus/methods) and the whispers that need *)
(* the service: each allocates arguments, sends a request, and is answered by a   *)
(* chain of callbacks, each with arguments of its own that it has to free.  They  *)
(* start in the thread of the D-Bus loop, or in the dispatcher for a whisper; the *)
(* callbacks run in the dispatcher, and the end of a whois in a thread of its own.*)
(*                                                                         *)
(* Then the two calls that answer from a cache, the buddies and the crown         *)
(* challenge, which the dispatcher declares invalid when the data change.         *)
(*                                                                         *)
(* A call is the stack of the frames (the struct cb_args) whose callbacks are     *)
(* still to run, the innermost first; the heap holds those not freed.  External:  *)
(* the service's answers, the loop of GLib, geoip_get_info().  A request that is  *)
(* not answered expires as an error (IdHandler); shop_get_offers is answered as   *)
(* in QueryCache.                                                             *)
(***************************************************************************)
EXTENDS Naturals, SequencesExt

CONSTANTS Calls,       \* the calls of a run (a bound)
          Rooms,       \* the game rooms of a channel
          BatchSize,   \* GAMEROOM_GET_BATCH_SIZE
          MaxChanges   \* changes of the lists (a bound)

ASSUME LookupsAssumption == Rooms \in Nat /\ BatchSize \in Nat \ {0} /\ MaxChanges \in Nat

VARIABLES
  calls,     \* the calls, see above
  lists,     \* session.profile.friends and .clanmates, session.wf.missions (versions)
  asked,     \* mission lists that are asked for
  marking,   \* the dispatcher has changed a list and will call dbus_api_update_buddy_list()
  invalid,   \* the `invalidated' of buddies.c and crown_challenge.c
  cached,    \* what they have built
  building,  \* the data that the D-Bus thread is building from
  missed,    \* history: the caches whose data changed with no mark, or while being built
  changes

caches == <<lists, asked, marking, invalid, cached, building, missed, changes>>
vars == <<calls, caches>>

Caches == {"buddies", "crown"}
NotBuilding == [k |-> "none"]
NoCall == [m |-> "none", stack |-> <<>>, heap |-> {}, replies |-> <<>>, rooms |-> 0,
           thread |-> FALSE, last |-> "none"]

Init ==
  /\ calls = [c \in Calls |-> NoCall]
  /\ lists = [friends |-> 0, mates |-> 0, missions |-> 0]
  /\ asked = 0 /\ marking = FALSE /\ changes = 0
  /\ invalid = [k \in Caches |-> TRUE]
  /\ cached = [k \in Caches |-> <<>>]
  /\ building = NotBuilding /\ missed = {}

-----------------------------------------------------------------------------
(* Frames *)

Top(r) == Head(r.stack)
Asking(r, fs) == [r EXCEPT !.stack = fs, !.heap = @ \cup Range(fs)]
Frees(r) == [r EXCEPT !.stack = Tail(@), !.heap = @ \ {Top(r)}]
(* Nobody is called back *)
Drops(r) == [r EXCEPT !.stack = <<>>]
Replies(r, v) == [r EXCEPT !.replies = Append(@, v)]

(* The requests allocate arguments of their own, and are sent *)
ProfileInfoGetStatus(fs) == <<"status">> \o fs
GetLastSeenDate(fs) == <<"last_seen">> \o fs
PeerPlayerInfoOf(fs) == <<"peer_info">> \o fs
SendInvitation(fs) == <<"send_invitation">> \o fs
GetMasterServers(fs) == <<"servers">> \o fs
GameroomGet(fs) == <<"gameroom_get">> \o fs

(* The outermost callbacks: warfacebot_complete_...(), or a message to who whispers,
   and g_free(a) *)
Completes(r, v) == Frees(Replies(r, v))
WhoisCb(r, v) == Completes(r, v)
WhoisWhisperCb(r, v) == Completes(r, v)
LastDbusCb(r, v) == Completes(r, v)
LastWhisperCb(r, v) == Completes(r, v)
PeerPlayerInfoDbusCb(r, v) == Completes(r, v)
BuddyAddCb(r, v) == Completes(r, v)
ShopOffersCb(r, v) == Completes(r, v)
(* once per server, then without one *)
ChannelStatsCb(r, v) == Completes(r, v)
(* which does not free its arguments *)
RoomGetCb(r, v) == Drops(Replies(r, v))

(* cmd_whisper_cb(): the message is sent to who has an online_id and a nickname *)
NoAddressee == {"none", "no_jid", "no_nick"}
CmdWhisperCb(r, info) == Frees(IF info \in NoAddressee THEN r ELSE Replies(r, "sent"))

-----------------------------------------------------------------------------
(* The callbacks between: what they make of the call r when called with a value *)

LastCb(r, v) == IF Top(r) = "last_dbus" THEN LastDbusCb(r, v) ELSE LastWhisperCb(r, v)
WhoisTo(r, v) == IF Top(r) = "whois_dbus" THEN WhoisCb(r, v) ELSE WhoisWhisperCb(r, v)

(* get_last_seen_date_cb() *)
LastSeenDateCb(r) == LastCb(Frees(r), "found")

(* cmd_last_cb(): with no profile_id its arguments are lost *)
CmdLastCb(r, info) ==
  IF info = "none" THEN LastCb(Frees(r), "error")
  ELSE IF info = "no_pid" THEN Drops(r)
  ELSE Asking(r, GetLastSeenDate(r.stack))

(* whois_complete_call() *)
WhoisComplete(r) == WhoisTo(Frees(r), "found")

(* cmd_whois_cb(): a thread looks the address up *)
MutantCmdWhoisCb(r, info) ==
  IF info = "none" THEN WhoisTo(Frees(r), "error")
  ELSE IF info = "no_ip" THEN WhoisComplete(r)
  ELSE [r EXCEPT !.thread = TRUE, !.heap = @ \ {Top(r)}]
CmdWhoisCb(r, info) ==
  IF info = "none" THEN WhoisTo(Frees(r), "error")
  ELSE IF info = "no_ip" THEN WhoisComplete(r)
  ELSE [r EXCEPT !.thread = TRUE]

(* cmd_profile_info_get_status_dbus_cb(): with no online_id the assertion of
   jid_to_str() ends the client *)
MutantPeerStatusCb(r, info) ==
  IF info \in {"none", "no_jid"} THEN Drops(r) ELSE Asking(r, PeerPlayerInfoOf(r.stack))
PeerStatusCb(r, info) ==
  IF info = "none" THEN PeerPlayerInfoDbusCb(r, "error")
  ELSE IF info = "no_jid" THEN Drops(r)
  ELSE Asking(r, PeerPlayerInfoOf(r.stack))

(* cmd_stats_cb() *)
CmdStatsCb(r) == ChannelStatsCb(Frees(r), "found")

StatusCb(r, info) ==
  CASE Top(r) = "cmd_last" -> CmdLastCb(r, info)
    [] Top(r) = "cmd_whois" -> CmdWhoisCb(r, info)
    [] Top(r) = "cmd_whisper" -> CmdWhisperCb(r, info)
    [] Top(r) = "peer_info_dbus" -> PeerStatusCb(r, info)

-----------------------------------------------------------------------------
(* The calls *)

Begins(c, m, fs) ==
  /\ calls[c] = NoCall
  /\ calls' = [calls EXCEPT ![c] = [NoCall EXCEPT !.m = m, !.stack = fs, !.heap = Range(fs)]]
  /\ UNCHANGED caches
FromDbus == building = NotBuilding

(* cmd_whois(), of a D-Bus call or a whisper *)
CmdWhois(c, caller) == Begins(c, "whois", ProfileInfoGetStatus(<<"cmd_whois", caller>>))
BuddyWhois(c) == FromDbus /\ CmdWhois(c, "whois_dbus")
(* cmd_last(): whose profile_id is in the lists, or was given, is not asked for *)
CmdLastPid(c, caller) == Begins(c, "last", GetLastSeenDate(<<"seen_date", caller>>))
CmdLast(c, caller) ==
  \/ lists.friends + lists.mates > 0 /\ CmdLastPid(c, caller)
  \/ Begins(c, "last", ProfileInfoGetStatus(<<"cmd_last", caller>>))
BuddyLastSeen(c) == FromDbus /\ (CmdLastPid(c, "last_dbus") \/ CmdLast(c, "last_dbus"))
PlayerPeerInfo(c) ==
  /\ FromDbus
  /\ \/ Begins(c, "info", PeerPlayerInfoOf(<<"peer_info_dbus">>))
     \/ Begins(c, "info", ProfileInfoGetStatus(<<"peer_info_dbus">>))
(* completed before it is sent, so that nobody waits for the answer *)
CmdWhisper(c) == Begins(c, "whisper", ProfileInfoGetStatus(<<"cmd_whisper">>))
BuddyWhisper(c) == FromDbus /\ CmdWhisper(c)
BuddyAdd(c) == FromDbus /\ Begins(c, "add", SendInvitation(<<"buddy_add_dbus">>))
CmdStats(c, caller) == Begins(c, "stats", GetMasterServers(<<"cmd_stats", caller>>))
ChannelStats(c) == FromDbus /\ CmdStats(c, "stats_dbus")
RoomGet(c) == FromDbus /\ Begins(c, "rooms", GameroomGet(<<"rooms_dbus">>))
(* query_disable_shop_get_offers: xmpp_iq_shop_get_offers() does nothing *)
ShopOffersDisabled(c) ==
  /\ calls[c] = NoCall
  /\ calls' = [calls EXCEPT ![c] = [NoCall EXCEPT !.m = "offers", !.heap = {"offers_dbus"},
                                                  !.last = "disabled"]]
  /\ UNCHANGED caches
ShopOffers(c) ==
  FromDbus /\ (Begins(c, "offers", <<"offers", "offers_dbus">>) \/ ShopOffersDisabled(c))

(* handle_private_message_(): last, whois and missions *)
PrivateMessage(c) == ~marking /\ (CmdLast(c, "last_whisper") \/ CmdWhois(c, "whois_whisper"))
(* cmd_missions() answers at once, mission by mission; the arguments stay *)
CmdMissions(c) ==
  /\ ~marking /\ calls[c] = NoCall
  /\ calls' = [calls EXCEPT ![c] = [NoCall EXCEPT !.m = "missions", !.heap = {"missions_whisper"}]]
  /\ UNCHANGED caches

-----------------------------------------------------------------------------
(* The answers *)

Results == {"ok", "error", "empty"}   \* "empty": without a query's content
Infos == {"full", "no_ip", "no_pid", "no_jid", "no_nick", "none"}

Asks(c, f) == ~marking /\ calls[c].stack # <<>> /\ ~calls[c].thread /\ Top(calls[c]) = f
Becomes(c, r, v) == calls' = [calls EXCEPT ![c] = [r EXCEPT !.last = v]]

(* xmpp_iq_profile_info_get_status_cb() *)
ProfileInfoGetStatusCb(c, info) ==
  Asks(c, "status") /\ Becomes(c, StatusCb(Frees(calls[c]), info), info) /\ UNCHANGED caches

(* xmpp_iq_get_last_seen_date_cb(): on an error only its own arguments are freed, *)
(* on an empty answer not even those                                            *)
GetLastSeenDateCb(c, v) ==
  /\ Asks(c, "last_seen")
  /\ Becomes(c, CASE v = "ok" -> LastSeenDateCb(Frees(calls[c]))
                  [] v = "error" -> Drops(Frees(calls[c]))
                  [] v = "empty" -> Drops(calls[c]), v)
  /\ UNCHANGED caches

(* xmpp_iq_peer_player_info_cb() *)
PeerPlayerInfoCb(c, v) ==
  /\ Asks(c, "peer_info")
  /\ Becomes(c, PeerPlayerInfoDbusCb(Frees(calls[c]), IF v = "error" THEN v ELSE "found"), v)
  /\ UNCHANGED caches

(* xmpp_iq_send_invitation_cb() *)
SendInvitationCb(c, v) ==
  /\ Asks(c, "send_invitation")
  /\ Becomes(c, BuddyAddCb(Frees(calls[c]), IF v = "error" THEN v ELSE "found"), v)
  /\ UNCHANGED caches

(* xmpp_iq_get_master_servers_cb(): only a list is passed on *)
GetMasterServersCb(c, v) ==
  /\ Asks(c, "servers")
  /\ Becomes(c, IF v = "ok" THEN CmdStatsCb(Frees(calls[c])) ELSE Drops(Frees(calls[c])), v)
  /\ UNCHANGED caches

(* xmpp_iq_gameroom_get_cb(): page after page, with the same arguments *)
Smaller(x, y) == IF x < y THEN x ELSE y
Page(c) == Smaller(BatchSize, Rooms - calls[c].rooms)
Left(c) == Rooms - calls[c].rooms - Page(c)
GameroomGetPage(c) == [calls[c] EXCEPT !.rooms = @ + Page(c)]
MutantGameroomGetCb(c, v) ==
  /\ Asks(c, "gameroom_get")
  /\ Becomes(c, IF v # "ok" THEN RoomGetCb(Frees(calls[c]), "error")
                ELSE RoomGetCb(Frees(GameroomGetPage(c)), "found"), v)
  /\ UNCHANGED caches
GameroomGetCb(c, v) ==
  /\ Asks(c, "gameroom_get")
  /\ Becomes(c, IF v # "ok" THEN RoomGetCb(Frees(calls[c]), "error")
                ELSE IF Left(c) > 0 THEN GameroomGetPage(c)
                ELSE RoomGetCb(Frees(GameroomGetPage(c)), "found"), v)
  /\ UNCHANGED caches

(* querycache_request_cb(), at its end *)
ShopGetOffersCb(c, v) ==
  /\ Asks(c, "offers")
  /\ Becomes(c, IF v = "ok" THEN ShopOffersCb(Frees(calls[c]), "found")
                ELSE Drops(Frees(calls[c])), v)
  /\ UNCHANGED caches

(* thread_get_geoloc() *)
GetGeoloc(c) ==
  /\ calls[c].thread
  /\ calls' = [calls EXCEPT ![c] = [WhoisComplete(calls[c]) EXCEPT !.thread = FALSE]]
  /\ UNCHANGED caches

-----------------------------------------------------------------------------
(* The cached answers *)

DataOf(k) == IF k = "buddies" THEN <<lists.friends, lists.mates>> ELSE <<lists.missions>>

Changes == changes < MaxChanges /\ changes' = changes + 1
Missed(k, unmarked) == missed' = IF unmarked \/ building.k = k THEN missed \cup {k} ELSE missed

(* friend_list_add(), _update(), _remove() and clanmate_list_update(): the list changes, *)
BuddyChanged(l) ==
  /\ l \in {"friends", "mates"} /\ ~marking /\ Changes
  /\ lists' = [lists EXCEPT ![l] = changes']
  /\ marking' = TRUE /\ Missed("buddies", FALSE)
  /\ UNCHANGED <<calls, asked, invalid, cached, building>>
(* then dbus_api_update_buddy_list() *)
MutantUpdateBuddyList ==
  /\ marking /\ marking' = FALSE
  /\ UNCHANGED <<calls, lists, asked, invalid, cached, building, missed, changes>>
UpdateBuddyList ==
  /\ marking /\ marking' = FALSE
  /\ invalid' = [invalid EXCEPT !["buddies"] = TRUE]
  /\ UNCHANGED <<calls, lists, asked, cached, building, missed, changes>>
(* clanmate_list_empty(), when the bot leaves its clan; friend_list_empty() marks
   nothing either, but is called at the login alone, which adds the friends next *)
ClanmateListEmpty ==
  /\ ~marking /\ lists.mates > 0 /\ Changes
  /\ lists' = [lists EXCEPT !["mates"] = 0]
  /\ Missed("buddies", ~invalid["buddies"])
  /\ UNCHANGED <<calls, asked, marking, invalid, cached, building>>

(* mission_list_update() declares the crown challenge invalid when it asks for the list, *)
MissionListUpdate ==
  /\ ~marking /\ Changes
  /\ asked' = asked + 1
  /\ invalid' = [invalid EXCEPT !["crown"] = TRUE]
  /\ UNCHANGED <<calls, lists, marking, cached, building, missed>>
(* not when it replaces the list (cb()), *)
MissionListReplaced ==
  /\ lists' = [lists EXCEPT !["missions"] = @ + 1]
  /\ Missed("crown", ~invalid["crown"])
(* which only a list does *)
MissionsGetListCb(v) ==
  /\ ~marking /\ asked > 0 /\ asked' = asked - 1
  /\ IF v = "ok" THEN MissionListReplaced ELSE UNCHANGED <<lists, missed>>
  /\ UNCHANGED <<calls, marking, invalid, cached, building, changes>>

(* on_handle_buddies() and on_handle_crown_challenge() walk the lists when they are
   invalid, *)
Buddies ==
  /\ FromDbus /\ invalid["buddies"]
  /\ building' = [k |-> "buddies", data |-> DataOf("buddies")]
  /\ missed' = missed \ {"buddies"}
  /\ UNCHANGED <<calls, lists, asked, marking, invalid, cached, changes>>
CrownChallenge ==
  /\ FromDbus /\ invalid["crown"]
  /\ building' = [k |-> "crown", data |-> DataOf("crown")]
  /\ missed' = missed \ {"crown"}
  /\ UNCHANGED <<calls, lists, asked, marking, invalid, cached, changes>>
(* and declare them valid, whatever happened meanwhile *)
Built ==
  /\ building # NotBuilding
  /\ cached' = [cached EXCEPT ![building.k] = building.data]
  /\ invalid' = [invalid EXCEPT ![building.k] = FALSE]
  /\ building' = NotBuilding
  /\ UNCHANGED <<calls, lists, asked, marking, missed, changes>>

-----------------------------------------------------------------------------
Begin(c) ==
  \/ BuddyWhois(c) \/ BuddyLastSeen(c) \/ PlayerPeerInfo(c) \/ BuddyWhisper(c) \/ BuddyAdd(c)
  \/ ChannelStats(c) \/ RoomGet(c) \/ ShopOffers(c) \/ PrivateMessage(c) \/ CmdMissions(c)
Answer(c) ==
  \/ \E info \in Infos : ProfileInfoGetStatusCb(c, info)
  \/ \E v \in Results :
       \/ GetLastSeenDateCb(c, v) \/ PeerPlayerInfoCb(c, v) \/ SendInvitationCb(c, v)
       \/ GetMasterServersCb(c, v) \/ GameroomGetCb(c, v) \/ ShopGetOffersCb(c, v)
  \/ GetGeoloc(c)
CacheSteps ==
  \/ \E l \in DOMAIN lists : BuddyChanged(l)
  \/ UpdateBuddyList \/ ClanmateListEmpty \/ MissionListUpdate
  \/ \E v \in Results : MissionsGetListCb(v)
  \/ Buddies \/ CrownChallenge \/ Built

Next == (\E c \in Calls : Begin(c) \/ Answer(c)) \/ CacheSteps
Spec == Init /\ [][Next]_vars
(* What is asked is answered, or expires; the thread of a whois ends *)
FairSpec == Spec /\ WF_vars(UpdateBuddyList) /\ \A c \in Calls : WF_vars(Answer(c))

-----------------------------------------------------------------------------
(* Properties *)

Frames == {"status", "cmd_whois", "whois_dbus", "whois_whisper", "last_seen", "seen_date",
           "cmd_last", "last_dbus", "last_whisper", "peer_info", "peer_info_dbus", "cmd_whisper",
           "send_invitation", "buddy_add_dbus", "servers", "cmd_stats", "stats_dbus",
           "gameroom_get", "rooms_dbus", "offers", "offers_dbus", "missions_whisper"}
Lookup == {"whois", "last", "info", "whisper", "add", "stats", "rooms", "offers", "missions"}

Records ==
  [m : Lookup \cup {"none"}, stack : Seq(Frames), heap : SUBSET Frames,
   replies : Seq({"found", "error", "sent"}), rooms : 0 .. Rooms, thread : BOOLEAN,
   last : Results \cup Infos \cup {"disabled"}]

(* Every variable has its type, and a page asked for is never more than there is. *)
TypeOK ==
  /\ calls \in [Calls -> Records]
  /\ lists \in [{"friends", "mates", "missions"} -> 0 .. MaxChanges]
  /\ asked \in 0 .. MaxChanges /\ changes \in 0 .. MaxChanges /\ marking \in BOOLEAN
  /\ invalid \in [Caches -> BOOLEAN] /\ missed \subseteq Caches
  /\ building.k \in Caches \cup {"none"}

(* The answers after which some code of the chain forgets its caller, the answer that
   ends the client, and the offers that the configuration forbids to ask for *)
Lossy(r) ==
  \/ r.m = "last" /\ r.last \in {"error", "empty", "no_pid"}
  \/ r.m \in {"stats", "offers"} /\ r.last \in {"error", "empty"}
  \/ r.m = "info" /\ r.last = "no_jid"
  \/ r.m = "offers" /\ r.last = "disabled"

(* No callback runs with arguments that are freed, whatever way the chain takes; and
   when it ends, through errors, threads or pages, all are freed, but in those cases,
   and but for the arguments of RoomGet and of a whispered "missions". *)
FramesFreed ==
  \A c \in Calls : LET r == calls[c]
    IN  /\ Range(r.stack) \subseteq r.heap
        /\ r.stack = <<>> => r.heap = {} \/ Lossy(r) \/ r.m \in {"rooms", "missions"}

(* A call of the bus is answered once, from whichever thread; a list of rooms that is
   answered holds the rooms of every page. *)
AnsweredOnceInFull ==
  \A c \in Calls : LET r == calls[c]
    IN  /\ Len(r.replies) <= 1
        /\ r.replies # <<>> => r.stack = <<>>
        /\ r.m = "rooms" /\ r.replies = <<"found">> => r.rooms = Rooms

(* Every call is answered in the end, an error or the expiry of a request included,
   but in those same cases; a message to somebody unknown, or without an address, is
   not sent.  A whispered "missions" is answered before anything else happens. *)
Answered ==
  \A c \in Calls : calls[c].m \notin {"none", "missions"} ~> LET r == calls[c]
    IN  r.replies # <<>> \/ Lossy(r) \/ (r.m = "whisper" /\ r.last \in NoAddressee)

(* What a cache that is valid answers are the data of the dispatcher, once that has
   marked its change: but a mark that falls into the building of the answer is lost,
   and neither leaving the clan nor the coming of a new mission list is marked. *)
CachesFresh ==
  building = NotBuilding /\ ~marking =>
    \A k \in Caches : invalid[k] \/ k \in missed \/ cached[k] = DataOf(k)

(* Why they hold: the chains of callbacks that a call may be waiting in, ... *)
Waits(r) ==
  \/ /\ r.m = "whois" /\ r.thread
     /\ \E w \in {"whois_dbus", "whois_whisper"} : r.stack = <<"cmd_whois", w>>
  \/ /\ ~r.thread
     /\ \/ /\ r.m = "whois"
           /\ \E w \in {"whois_dbus", "whois_whisper"} : r.stack = <<"status", "cmd_whois", w>>
        \/ /\ r.m = "last"
           /\ \E l \in {"last_dbus", "last_whisper"} :
                r.stack \in {<<"status", "cmd_last", l>>, <<"last_seen", "cmd_last", l>>,
                             <<"last_seen", "seen_date", l>>}
        \/ /\ r.m = "info"
           /\ r.stack \in {<<"status", "peer_info_dbus">>, <<"peer_info", "peer_info_dbus">>}
        \/ r.m = "whisper" /\ r.stack = <<"status", "cmd_whisper">>
        \/ r.m = "add" /\ r.stack = <<"send_invitation", "buddy_add_dbus">>
        \/ r.m = "stats" /\ r.stack = <<"servers", "cmd_stats", "stats_dbus">>
        \/ r.m = "rooms" /\ r.stack = <<"gameroom_get", "rooms_dbus">>
        \/ r.m = "offers" /\ r.stack = <<"offers", "offers_dbus">>

(* ... with the arguments of all of them allocated and no answer given, ...    *)
Waiting(r) == Waits(r) /\ r.heap = Range(r.stack) /\ r.replies = <<>>

(* ... and what is left of it at its end; ...                                  *)
Ended(r) ==
  /\ r.stack = <<>> /\ ~r.thread /\ Len(r.replies) <= 1
  /\ r.heap = {} \/ Lossy(r) \/ r.m \in {"rooms", "missions"}
  /\ r.m = "rooms" /\ r.replies = <<"found">> => r.rooms = Rooms

(* ... and a cache that is valid, or being built, has the data of now, or has   *)
(* missed a change, or is about to be marked.                                  *)
CacheInv(k) ==
  IF building.k = k THEN k \in missed \/ building.data = DataOf(k)
  ELSE invalid[k] \/ k \in missed \/ cached[k] = DataOf(k) \/ (k = "buddies" /\ marking)

Inv ==
  /\ TypeOK /\ (building.k = "none" => building = NotBuilding)
  /\ lists.missions + asked <= changes
  /\ DOMAIN cached = Caches /\ \A k \in Caches : CacheInv(k)
  /\ \A c \in Calls : Waiting(calls[c]) \/ Ended(calls[c])
=============================================================================
