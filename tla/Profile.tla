------------------------------- MODULE Profile -------------------------------
(***************************************************************************)
(* What the client keeps of its player, and how it buys: the money, the       *)
(* experience, the items, the statistics and the offers of the shop, kept by  *)
(* the answers and the notices of the masterserver (src/xmpp_wf/), and the    *)
(* random boxes and the clan creation item bought from the console            *)
(* (src/cmd/cmd_randombox.c, src/cmd/cmd_clan_create.c).                      *)
(*                                                                         *)
(* The service is not in the repository: k01, which the first channel is      *)
(* asked of, any masterserver, asked for the offers, and one for each         *)
(* channel, which is asked for all else.  They keep the same account of the   *)
(* player.  Each handles its requests in order and says what it has done in   *)
(* that order, but what two of them say may cross; only the one of the        *)
(* player's channel speaks unasked.  A gift is credited when it is announced  *)
(* (the notification of a random box already names the total).  A console     *)
(* command is one step, as is the handling of a message.                      *)
(***************************************************************************)
EXTENDS Integers, FiniteSetsExt, SequencesExt

CONSTANTS Channels,     \* the masterservers, by their resource
          K01, AnyMs,   \* session.online.jid.k01 and .ms
          Boxes,        \* the shop names of random_box_items
          Tokened,      \* the boxes of which every purchase also gives a token
          ClanItem,     \* clan_creation_item_01
          Catalogues,   \* the lists of offers of the shop, one per hash
          Worlds,       \* which masterservers run, and the list the shop begins with
          MaxBatch,     \* SHOP_MAX_BATCH
          MaxCommands,  \* bound: the commands typed
          MaxEvents,    \* bound: what the service does on its own
          NULL

ASSUME ProfileAssumption ==
  /\ Tokened \subseteq Boxes /\ ClanItem \notin Boxes /\ MaxBatch \in Nat \ {0}
  /\ Catalogues \in Seq(Seq([id : Nat \ {0}, name : Boxes \cup {ClanItem}, price : Nat]))
  /\ Worlds \subseteq [running : SUBSET Channels \ {{}}, shop : DOMAIN Catalogues]
  /\ MaxCommands \in Nat /\ MaxEvents \in Nat
  /\ NULL \notin Channels \cup {K01, AnyMs} /\ {K01, AnyMs} \cap Channels = {}

VARIABLES
  channel,      \* session.online.channel
  money,        \* session.profile.money
  experience,   \* session.profile.experience
  items,        \* session.profile.items: the quantities of those listed
  clan,         \* session.profile.clan.id # 0
  wins,         \* session.profile.stats: the sessions won
  progress,     \* session.profile.progression
  offers,       \* session.wf.shop.offers
  boxes,        \* random_box_items: shop_id and box_id
  boxesReady,   \* random_box_items_init
  aborted,      \* an assertion has failed
  up,           \* up[s]: the requests that server s has not handled
  down,         \* the messages the client has not handled, in the order of what was done
  bank,         \* what the service knows of the player
  running,      \* the masterservers there are
  commands, events,
  zeroIgnored,  \* history: the currencies whose balance 0 was not taken over
  resyncLost,   \* history: the last resync was refused
  unlisted,     \* history: the items given or taken by notices since the last list
  crossed       \* history: the fields that messages of two servers brought in another order

player == <<money, experience, items, clan, wins, progress>>
shop == <<offers, boxes, boxesReady>>
history == <<zeroIgnored, resyncLost, unlisted>>
vars == <<channel, player, shop, aborted, up, down, bank, running, commands, events, history, crossed>>

Servers == Channels \cup {K01, AnyMs}
Currencies == {"game", "crown", "cry"}
Items == Tokened \cup {ClanItem}
Slots == 0 .. MaxBatch - 1
Plus(m, c, n) == [m EXCEPT ![c] = @ + n]

Init ==
  /\ money = [c \in Currencies |-> 0] /\ experience = 0 /\ items = NULL
  /\ clan = FALSE /\ wins = 0 /\ progress = 0
  /\ offers = NULL /\ boxesReady = FALSE
  /\ boxes = [b \in Boxes |-> [shop_id |-> [i \in Slots |-> 0], box_id |-> 0]]
  /\ aborted = FALSE /\ channel = NULL /\ down = <<>>
  /\ \E world \in Worlds :
       /\ running = world.running
       /\ \E c \in running :
            up = [s \in Servers |-> IF s = K01 THEN <<[q |-> "join", channel |-> c]>> ELSE <<>>]
       /\ bank \in [money : {[game |-> 1, crown |-> n, cry |-> 1] : n \in 1 .. 3},
                    experience : {1}, items : [Items -> {0}], clan : {FALSE}, wins : {0},
                    progress : {1}, shop : {world.shop}, unconfirmed : {1}, expired : {TRUE},
                    where : {NULL}, counted : {TRUE}]
  /\ commands = 0 /\ events = 0
  /\ zeroIgnored = {} /\ resyncLost = FALSE /\ unlisted = {} /\ crossed = {}

(* The requests after rs are sent to server s; nobody gets what is for no channel *)
Asked(s, rs) == [up EXCEPT ![s] = @ \o rs]
AskedMs(c, rs) == IF c = NULL THEN up ELSE Asked(c, rs)

-----------------------------------------------------------------------------
(* The random boxes *)

(* offer_list_get_by_id *)
OfferOf(id) == SelectSeq(offers, LAMBDA o : o.id = id)

(* init_rb_item: the offers of box b keep shop_id sorted, the dearest first *)
InitItem(b, item, offer) ==
  IF item.shop_id[item.box_id] # 0 \/ offer.name # b
    THEN item
    ELSE LET Swap(acc, i) ==
               LET other == Head(OfferOf(acc.ids[i]))
               IN  IF acc.offer.price > other.price
                     THEN [ids |-> [acc.ids EXCEPT ![i] = acc.offer.id], offer |-> other]
                     ELSE acc
             done == FoldLeft(Swap, [ids |-> item.shop_id, offer |-> offer],
                              [i \in 1 .. item.box_id |-> i - 1])
         IN  [shop_id |-> [done.ids EXCEPT ![item.box_id] = done.offer.id],
              box_id  |-> IF item.box_id + 1 >= MaxBatch THEN 0 ELSE item.box_id + 1]

(* init_rb_items: once, from the first list of offers *)
InitBoxes ==
  IF boxesReady \/ offers = NULL
    THEN boxes
    ELSE [b \in Boxes |-> FoldLeft(LAMBDA item, o : InitItem(b, item, o), boxes[b], offers)]

(* cmd_randombox(NULL): every box is listed with the price of its first offer *)
RandomboxList ==
  /\ commands < MaxCommands /\ commands' = commands + 1
  /\ boxes' = InitBoxes /\ boxesReady' = (offers # NULL)
  /\ aborted' = \E b \in Boxes : /\ boxes'[b].shop_id[0] # 0
                                 /\ OfferOf(boxes'[b].shop_id[0]) = <<>>
  /\ UNCHANGED <<channel, player, offers, up, down, bank, events, history, crossed>>

(* The offers of a batch of n, and the box after it *)
FirstOf(item, n) == IF item.box_id + n > MaxBatch THEN 0 ELSE item.box_id
MutantBatchOf(item, n) == [i \in 1 .. n |-> item.shop_id[FirstOf(item, n)]]
BatchOf(item, n) == [i \in 1 .. n |-> item.shop_id[FirstOf(item, n) + i - 1]]

(* cmd_randombox(b, n) *)
Randombox(b, n) ==
  /\ commands < MaxCommands /\ commands' = commands + 1
  /\ boxesReady' = (offers # NULL)
  /\ IF InitBoxes[b].shop_id[0] = 0 \/ n = 0 \/ n > MaxBatch
       THEN boxes' = InitBoxes /\ UNCHANGED up
       ELSE LET item == InitBoxes[b]
            IN  /\ boxes' = [InitBoxes EXCEPT ![b].box_id = FirstOf(item, n) + n]
                /\ up' = Asked(channel, <<[q |-> "buy", box |-> b, ids |-> BatchOf(item, n)]>>)
  /\ UNCHANGED <<channel, player, offers, aborted, down, bank, events, history, crossed>>

Resync == [q |-> "resync"]

(* The list of what the boxes held, read in order: experience is summed up, and
   an item for ever, not a number or a time of it, is in no other answer *)
ExperienceOf(won) == Len(SelectSeq(won, LAMBDA w : w = "exp"))
ForEver(won) == "permanent" \in Range(won)

(* _randombox_cb that resynchronises only for what has no token *)
MutantBoxesBought(m) ==
  /\ m.t = "bought"
  /\ IF m.code \in {0, 1}
       THEN LET owned == m.code = 0 /\ m.box \in Tokened
                listed == items # NULL /\ m.box \in DOMAIN items
            IN  /\ experience' = experience + ExperienceOf(m.won) /\ money' = m.money
                /\ zeroIgnored' = {}
                /\ items' = IF owned /\ listed THEN [items EXCEPT ![m.box] = @ + m.count] ELSE items
                /\ up' = IF ForEver(m.won) \/ (owned /\ ~listed) THEN Asked(channel, <<Resync>>) ELSE up
       ELSE UNCHANGED <<experience, money, items, up, zeroIgnored>>
  /\ UNCHANGED <<clan, wins, progress, shop, resyncLost, unlisted>>

(* _randombox_cb *)
BoxesBought(m) ==
  /\ m.t = "bought"
  /\ IF m.code \in {0, 1}
       THEN LET owned == m.code = 0 /\ m.box \in Tokened
                listed == items # NULL /\ m.box \in DOMAIN items
            IN  /\ experience' = experience + ExperienceOf(m.won) /\ money' = m.money
                /\ zeroIgnored' = {}
                /\ items' = IF owned /\ listed THEN [items EXCEPT ![m.box] = @ + m.count] ELSE items
                /\ up' = IF ForEver(m.won) \/ m.code = 1 \/ (owned /\ ~listed)
                           THEN Asked(channel, <<Resync>>) ELSE up
       ELSE UNCHANGED <<experience, money, items, up, zeroIgnored>>
  /\ UNCHANGED <<clan, wins, progress, shop, resyncLost, unlisted>>

-----------------------------------------------------------------------------
(* The creation of a clan *)

(* cmd_clan_create: with the item, or else it is bought first *)
ClanCreate ==
  /\ commands < MaxCommands /\ commands' = commands + 1
  /\ offers # NULL
  /\ up' = IF items # NULL /\ ClanItem \in DOMAIN items
             THEN Asked(channel, <<[q |-> "clan_create"], Resync>>)
             ELSE IF \E i \in DOMAIN offers : offers[i].name = ClanItem
                    THEN Asked(channel, <<[q |-> "buy_clan_item"]>>)
                    ELSE up
  /\ UNCHANGED <<channel, player, shop, aborted, down, bank, events, history, crossed>>

(* _shop_cb: what is left of the money is not read *)
ClanItemBought(m) ==
  /\ m.t = "clan_item"
  /\ up' = IF m.code = 0 THEN Asked(channel, <<[q |-> "clan_create"], Resync>>) ELSE up
  /\ UNCHANGED <<player, shop, history>>

(* xmpp_iq_clan_create_cb *)
ClanCreated(m) ==
  /\ m.t = "clan_create"
  /\ clan' = (clan \/ m.code = 0)
  /\ UNCHANGED <<money, experience, items, wins, progress, shop, up, history>>

-----------------------------------------------------------------------------
(* The profile *)

(* A balance of 0 is not taken over: it could be an attribute that is missing *)
TakeMoney(m, named) ==
  /\ money' = [c \in Currencies |-> IF c \in named /\ m[c] > 0 THEN m[c] ELSE money[c]]
  /\ zeroIgnored' = (zeroIgnored \ named) \cup {c \in named : m[c] = 0 /\ money[c] # 0}
TakeExperience(n) == experience' = IF n > 0 THEN n ELSE experience

(* The list an answer holds: item_list_new() and a list_add() per item *)
Listed(owned) == [i \in {j \in Items : owned[j] > 0} |-> owned[i]]

(* xmpp_iq_resync_profile_cb *)
Resynced(m) ==
  /\ m.t = "resync"
  /\ IF m.error
       THEN resyncLost' = TRUE /\ UNCHANGED <<money, experience, items, zeroIgnored, unlisted>>
       ELSE /\ TakeExperience(m.experience) /\ TakeMoney(m.money, Currencies)
            /\ items' = Listed(m.items) /\ resyncLost' = FALSE /\ unlisted' = {}
  /\ UNCHANGED <<clan, wins, progress, shop, up>>

(* xmpp_iq_get_player_stats_cb *)
StatsTaken(m) ==
  /\ m.t = "stats"
  /\ wins' = IF m.wins > 0 THEN m.wins ELSE wins
  /\ UNCHANGED <<money, experience, items, clan, progress, shop, up, history>>

(* _reset_shop and _parse_offer: the list is made anew when its hash changes *)
OffersLoaded(m) ==
  /\ m.t = "offers"
  /\ offers' = Catalogues[m.shop]
  /\ UNCHANGED <<player, boxes, boxesReady, up, history>>

(* xmpp_iq_update_cry_money_cb *)
CryMoneyUpdated(m) ==
  /\ m.t = "cry_money"
  /\ TakeMoney([money EXCEPT !["cry"] = m.cry], {"cry"})
  /\ UNCHANGED <<experience, items, clan, wins, progress, shop, up, resyncLost, unlisted>>

(* xmpp_iq_broadcast_session_result_cb: the entry with the own nickname *)
SessionResult(m) ==
  /\ m.t = "session_result"
  /\ experience' = experience + m.experience
  /\ money' = Plus(money, "game", m.money)
  /\ progress' = m.progress
  /\ UNCHANGED <<items, clan, wins, shop, up, history>>

-----------------------------------------------------------------------------
(* Notifications of gifts *)

Confirm == [q |-> "confirm"]

(* Each case of xmpp_iq_confirm_notification that is about the own profile,
   given the player and the requests the earlier notifications left.  An item
   that is given or taken is printed, and the list stays as it is. *)
GiveMoney(n, acc) ==
  [acc EXCEPT !.up = Append(@, Confirm), !.money = Plus(@, n.currency, n.amount)]
MutantGiveRandomBox(n, acc) ==
  [acc EXCEPT !.up = Append(@, Confirm), !.experience = @ + ExperienceOf(n.won),
              !.unlisted = @ \cup {n.item}]
GiveRandomBox(n, acc) ==
  [acc EXCEPT !.up = Append(@, Confirm), !.experience = @ + ExperienceOf(n.won),
              !.money = Plus(@, "crown", Len(SelectSeq(n.won, LAMBDA w : w = "crown"))),
              !.unlisted = @ \cup {n.item}]
GiveItem(n, acc) == [acc EXCEPT !.up = Append(@, Confirm), !.unlisted = @ \cup {n.item}]
DeletedItem(n, acc) == [acc EXCEPT !.unlisted = @ \cup {n.item}]
Contract(n, acc) == [acc EXCEPT !.money = Plus(@, "game", n.amount)]
Told(n, acc) == [acc EXCEPT !.up = Append(@, Confirm)]   \* a rank, a mission, a text

ConfirmNotification(acc, n) ==
  CASE n.kind = "give_money"      -> GiveMoney(n, acc)
    [] n.kind = "give_random_box" -> GiveRandomBox(n, acc)
    [] n.kind = "give_item"       -> GiveItem(n, acc)
    [] n.kind = "deleted_item"    -> DeletedItem(n, acc)
    [] n.kind = "contract"        -> Contract(n, acc)
    [] n.kind = "told"            -> Told(n, acc)

(* What the notifications of a message do, in order *)
NotificationsOf(m) ==
  FoldLeft(ConfirmNotification,
           [money |-> money, experience |-> experience, up |-> <<>>, unlisted |-> unlisted], m.list)

(* xmpp_iq_sync_notifications_cb *)
SyncNotifications(m) ==
  /\ m.t = "notifications"
  /\ money' = NotificationsOf(m).money /\ experience' = NotificationsOf(m).experience
  /\ up' = AskedMs(channel, NotificationsOf(m).up) /\ unlisted' = NotificationsOf(m).unlisted
  /\ UNCHANGED <<items, clan, wins, progress, shop, zeroIgnored, resyncLost>>

-----------------------------------------------------------------------------
(* Channels *)

(* What the answer has the client ask and confirm *)
JoinRequests(m, confirms) ==
  (IF m.expired THEN <<[q |-> "expired"]>> ELSE <<>>) \o confirms \o <<[q |-> "stats"]>>

(* The part of xmpp_iq_join_channel_cb that keeps the profile; the answer to
   a switch has no money and no items *)
ChannelJoined(m) ==
  /\ m.t = "joined" /\ channel' = m.channel
  /\ TakeExperience(m.experience)
  /\ IF m.whole
       THEN /\ TakeMoney(m.money, Currencies)
            /\ items' = Listed(m.items) /\ resyncLost' = FALSE /\ unlisted' = {}
       ELSE UNCHANGED <<money, items, history>>
  /\ progress' = m.progress
  /\ up' = [Asked(m.channel, JoinRequests(m, NotificationsOf(m).up)) EXCEPT
              ![AnyMs] = Append(@, [q |-> "offers"])]
  /\ UNCHANGED <<clan, wins, shop>>

(* It says so, if the channel is refused *)
ChannelRefused(m) == m.t = "refused" /\ UNCHANGED <<player, shop, up, history>>

(* What a message puts in the place of what the client has, and what it adds to,
   or was to bring *)
Fields == Currencies \cup {"experience", "items", "progress", "wins", "confirms"}
Sets(m) ==
  CASE m.t = "bought" /\ m.code \in {0, 1} -> Currencies
    [] m.t = "resync" /\ ~m.error          -> Currencies \cup {"experience", "items"}
    [] m.t = "joined" /\ m.whole           -> Fields \ {"wins"}
    [] m.t = "joined" /\ ~m.whole          -> {"experience", "progress"}
    [] m.t = "session_result"              -> {"progress"}
    [] m.t = "cry_money"                   -> {"cry"}
    [] m.t = "stats"                       -> {"wins"}
    [] OTHER                               -> {}
Adds(m) ==
  CASE m.t = "bought"         -> {"experience", "items"}
    [] m.t = "resync"         -> Currencies \cup {"experience", "items"}
    [] m.t = "session_result" -> {"game", "experience"}
    [] m.t = "notifications"  -> {"game", "crown", "experience", "items", "confirms"}
    [] OTHER                  -> {}

(* The fields that message i, taken before an older one of another server, and
   that one bring in another order than the service did *)
Overtakes(i) ==
  UNION {LET m == down[i] IN
         LET o == down[j] IN
         ((Sets(m) \cup Adds(m)) \cap Sets(o)) \cup (Sets(m) \cap Adds(o)) : j \in 1 .. i - 1}

(* The dispatcher takes the next message of some server *)
Dispatch ==
  \E i \in DOMAIN down :
    LET m == down[i] IN
    /\ \A j \in 1 .. i - 1 : down[j].from # m.from
    /\ down' = RemoveAt([j \in DOMAIN down |-> [down[j] EXCEPT !.late = @ \/ j < i]], i)
    /\ crossed' = (IF m.late THEN crossed ELSE crossed \ Sets(m)) \cup Overtakes(i)
    /\ \/ ChannelJoined(m)
       \/ /\ \/ BoxesBought(m) \/ ClanItemBought(m) \/ ClanCreated(m) \/ ChannelRefused(m)
             \/ Resynced(m) \/ StatsTaken(m) \/ OffersLoaded(m) \/ CryMoneyUpdated(m)
             \/ SessionResult(m) \/ SyncNotifications(m)
          /\ UNCHANGED channel
    /\ UNCHANGED <<aborted, bank, commands, events>>

(* cmd_channel: once in a channel, the request is a switch_channel, and of the
   masterserver of the new one *)
SwitchChannel(c) ==
  /\ items # NULL /\ commands < MaxCommands /\ commands' = commands + 1
  /\ up' = Asked(c, <<[q |-> "switch", channel |-> c]>>)
  /\ UNCHANGED <<channel, player, shop, aborted, down, bank, events, history, crossed>>

-----------------------------------------------------------------------------
(* The service *)

(* Server s says m; late: a younger message has overtaken it *)
Send(s, m) == down' = Append(down, [from |-> s, late |-> FALSE] @@ m)

(* What the offers cost, and how many of a batch, in order, the money is enough for *)
Cost(ids) ==
  FoldLeft(LAMBDA acc, id : acc + (CHOOSE o \in Range(Catalogues[bank.shop]) : o.id = id).price,
           0, ids)
Sold(ids) == Max({n \in 0 .. Len(ids) : Cost(SubSeq(ids, 1, n)) <= bank.money.crown})

Wins == {<<"exp">>, <<"crown">>, <<"timed">>, <<"permanent">>, <<"crown", "exp", "permanent">>}

SellsBoxes(s, r) ==
  /\ r.q = "buy"
  /\ IF Range(r.ids) \subseteq {o.id : o \in Range(Catalogues[bank.shop])}
       THEN LET n == Sold(r.ids)
            IN  \E won \in (IF n = 0 THEN {<<>>} ELSE Wins) :
                  LET left == Plus(bank.money, "crown", Len(SelectSeq(won, LAMBDA w : w = "crown"))
                                                        - Cost(SubSeq(r.ids, 1, n)))
                  IN  /\ bank' = [bank EXCEPT
                                    !.money = left, !.experience = @ + ExperienceOf(won),
                                    !.items = [i \in Items |->
                                                 IF i = r.box THEN @[i] + n ELSE @[i]]]
                      /\ Send(s, [t |-> "bought", code |-> IF n = Len(r.ids) THEN 0 ELSE 1,
                                  box |-> r.box, count |-> Len(r.ids), money |-> left, won |-> won])
       ELSE UNCHANGED bank /\ Send(s, [t |-> "bought", code |-> 5])

SellsClanItem(s, r) ==
  /\ r.q = "buy_clan_item"
  /\ IF bank.money.game > 0
       THEN /\ bank' = [bank EXCEPT !.money = Plus(@, "game", -1), !.items[ClanItem] = @ + 1]
            /\ Send(s, [t |-> "clan_item", code |-> 0])
       ELSE UNCHANGED bank /\ Send(s, [t |-> "clan_item", code |-> 1])

CreatesClan(s, r) ==
  /\ r.q = "clan_create"
  /\ IF bank.items[ClanItem] > 0 /\ ~bank.clan
       THEN /\ bank' = [bank EXCEPT !.clan = TRUE, !.items[ClanItem] = @ - 1]
            /\ Send(s, [t |-> "clan_create", code |-> 0])
       ELSE UNCHANGED bank /\ Send(s, [t |-> "clan_create", code |-> 8])

Whole == [money |-> bank.money, items |-> bank.items, experience |-> bank.experience]

(* The notifications of the time the player was away: of the kinds that give no
   money, for the repository does not say whether the balance has that already *)
Waiting == <<[kind |-> "told"]>>

Joins(s, r) ==
  /\ r.q \in {"join", "switch"}
  /\ Send(s, [t |-> "joined", channel |-> r.channel, whole |-> r.q = "join",
              progress |-> bank.progress, expired |-> bank.expired,
              list |-> IF bank.where = NULL THEN Waiting ELSE <<>>] @@ Whole)
  /\ bank' = [bank EXCEPT !.where = r.channel]
Refuses(s, r) == r.q = "switch" /\ Send(s, [t |-> "refused"]) /\ UNCHANGED bank
Resyncs(s, r) ==
  /\ r.q = "resync"
  /\ \E error \in BOOLEAN : Send(s, [t |-> "resync", error |-> error] @@ Whole)
  /\ UNCHANGED bank
Lists(s, r) ==
  /\ r.q = "offers" /\ Send(s, [t |-> "offers", shop |-> bank.shop]) /\ UNCHANGED bank
Counts(s, r) ==
  /\ r.q = "stats" /\ Send(s, [t |-> "stats", wins |-> bank.wins])
  /\ bank' = [bank EXCEPT !.counted = TRUE]
Confirmed(r) ==
  /\ r.q \in {"confirm", "expired"} /\ UNCHANGED down
  /\ bank' = IF r.q = "confirm" THEN [bank EXCEPT !.unconfirmed = @ - 1]
                                ELSE [bank EXCEPT !.expired = FALSE]

Serve ==
  \E s \in Servers :
    /\ up[s] # <<>> /\ up' = [up EXCEPT ![s] = Tail(@)]
    /\ LET r == Head(up[s])
       IN  \/ SellsBoxes(s, r) \/ SellsClanItem(s, r) \/ CreatesClan(s, r)
           \/ Joins(s, r) \/ Refuses(s, r)
           \/ Resyncs(s, r) \/ Lists(s, r) \/ Counts(s, r) \/ Confirmed(r)
    /\ UNCHANGED <<channel, player, shop, aborted, commands, events, history, crossed>>

Gifts == { <<[kind |-> "give_money", currency |-> "game", amount |-> 1],
             [kind |-> "give_random_box", won |-> <<"exp", "crown", "item">>, item |-> ClanItem]>>,
           <<[kind |-> "contract", amount |-> 1], [kind |-> "told"]>> }
         \cup {<<g>> : g \in [kind : {"give_item", "deleted_item"}, item : Items]}

(* It gives or takes something, and says so *)
Gives(list) ==
  LET has(kinds) == Cardinality({i \in DOMAIN list : list[i].kind \in kinds})
      of(i, kinds) ==
        Cardinality({k \in DOMAIN list : list[k].kind \in kinds /\ list[k].item = i})
  IN  /\ \A i \in Items : of(i, {"deleted_item"}) <= bank.items[i]
      /\ bank' = [bank EXCEPT
                    !.money = Plus(Plus(@, "game", has({"give_money", "contract"})),
                                   "crown", has({"give_random_box"})),
                    !.experience = @ + has({"give_random_box"}),
                    !.items = [i \in Items |-> @[i] + of(i, {"give_item", "give_random_box"})
                                                    - of(i, {"deleted_item"})],
                    !.unconfirmed = @ + Len(list) - has({"contract", "deleted_item"})]
      /\ Send(bank.where, [t |-> "notifications", list |-> list])

(* A session of the player ends *)
EndsMatch ==
  /\ bank' = [bank EXCEPT !.money = Plus(@, "game", 1), !.experience = @ + 1,
                          !.wins = @ + 1, !.progress = @ + 1, !.counted = FALSE]
  /\ Send(bank.where, [t |-> "session_result", money |-> 1, experience |-> 1,
                       progress |-> bank.progress + 1])

(* The player spends or gets cry money elsewhere *)
UpdatesCryMoney ==
  \E n \in 0 .. 2 : /\ bank' = [bank EXCEPT !.money.cry = n]
                   /\ Send(bank.where, [t |-> "cry_money", cry |-> n])

(* Its shop has other offers; a client learns of it when it asks *)
Restocks ==
  /\ bank.shop < Len(Catalogues) /\ bank' = [bank EXCEPT !.shop = @ + 1] /\ UNCHANGED down

ServiceEvent ==
  /\ bank.where # NULL /\ events < MaxEvents /\ events' = events + 1
  /\ \/ \E list \in Gifts : Gives(list)
     \/ EndsMatch \/ UpdatesCryMoney \/ Restocks
  /\ UNCHANGED <<channel, player, shop, aborted, up, commands, history, crossed>>

Command ==
  \/ RandomboxList \/ ClanCreate \/ \E c \in running : SwitchChannel(c)
  \/ \E b \in Boxes, n \in 0 .. MaxBatch + 1 : Randombox(b, n)

Next == ~aborted /\ (Command \/ Dispatch \/ Serve \/ ServiceEvent) /\ UNCHANGED running
Spec == Init /\ [][Next]_vars

-----------------------------------------------------------------------------
(* Properties *)

(* Every variable has its type; a box is used within its five slots. *)
TypeOK ==
  /\ money \in [Currencies -> Nat] /\ experience \in Nat /\ clan \in BOOLEAN
  /\ items # NULL => DOMAIN items \subseteq Items /\ \A i \in DOMAIN items : items[i] > 0
  /\ offers # NULL => offers \in Range(Catalogues)
  /\ \A b \in Boxes : boxes[b].box_id \in 0 .. MaxBatch
  /\ boxesReady \in BOOLEAN /\ aborted \in BOOLEAN /\ resyncLost \in BOOLEAN
  /\ channel \in Channels \cup {NULL} /\ zeroIgnored \subseteq Currencies
  /\ running \in SUBSET Channels /\ unlisted \subseteq Items /\ crossed \subseteq Fields

(* A box of which the shop had MaxBatch offers *)
Full(b) == \A i \in Slots : boxes[b].shop_id[i] # 0

(* Whatever was bought before, a purchase (cmd_randombox) names as many offers as
   boxes were asked for, all of them of the box, and none twice: the shop sells
   each offer once per request.  With fewer than five offers in the shop it may
   name the offer 0, which is none. *)
BatchIsOfTheBox ==
  \A s \in Servers : \A k \in DOMAIN up[s] : up[s][k].q = "buy" =>
    LET ids == up[s][k].ids
        box == up[s][k].box
        slots == {i \in Slots : boxes[box].shop_id[i] \in Range(ids)}
    IN  /\ \A j \in DOMAIN ids : \E i \in slots : boxes[box].shop_id[i] = ids[j]
        /\ Full(box) => 0 \notin Range(ids) /\ IsInjective(ids)

AtRest == (\A s \in Servers : up[s] = <<>>) /\ down = <<>>

(* Money and experience are kept by sums (gifts, results, prizes) and by balances
   (purchases, answers) that cross each other: when nothing is under way they are
   what the service has, but for a currency whose balance 0 the client did not
   take over, and for the price of a clan item when the resync that would tell it
   was refused; the service waits for no confirmation; and the count of sessions is
   right unless one has ended since it was asked for.  This does not hold of what
   messages of two masterservers, around a change of channel, brought in another
   order than they were sent, until a later one sets it. *)
MoneyAgrees ==
  AtRest /\ ~aborted =>
    /\ \A c \in Currencies \ (zeroIgnored \cup crossed) :
         money[c] = bank.money[c] \/ (c = "game" /\ resyncLost)
    /\ "experience" \notin crossed => experience = bank.experience
    /\ "progress" \notin crossed => progress = bank.progress
    /\ "confirms" \notin crossed => bank.unconfirmed = 0
    /\ ~bank.expired
    /\ "wins" \notin crossed /\ bank.counted => wins = bank.wins

(* How many of item i the list of the player has *)
Quantity(i) == IF i \in DOMAIN items THEN items[i] ELSE 0

(* The console shows the tokens of a box, and creates a clan with the item only if
   it is listed: at rest the list is the service's, unless the last resync, on
   which it relies for what it cannot count, was refused, lists of two
   masterservers crossed, or a notice since the last list gave or took the item,
   which the client prints and does not list. *)
ItemsAgree ==
  AtRest =>
    /\ clan = bank.clan
    /\ ~resyncLost /\ "items" \notin crossed =>
         \A i \in Items \ unlisted : Quantity(i) = bank.items[i]
=============================================================================
