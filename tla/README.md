# Warfacebot in TLA+

Warfacebot (`src/`, C) is a headless client of the game Warface: it logs in to an XMPP service, follows
the game's own requests over it, and lets a console, a D-Bus client or whispers from other players drive
it. This directory holds TLA+ models of its parts, TLC configurations that check them on small
instances, and proofs checked by TLAPS. `PROJECT.json` lists the components, runs, hazards, mutants and
the source lines each definition stands for.

Check a module with `tlc -config MCx.cfg MCx`, the proofs of a module with `tlapm XProofs.tla`.

## 1. The system

One process, one connection, one global record `session` without a lock, and five threads:

    main (console or D-Bus) --+                                +--> sendstream --> socket
    dispatch -----------------+--> ring of outgoing messages --+
    ping ---------------------+
    socket --> readstream --> ring of incoming messages --> dispatch --> handlers

`wb.c` registers the handlers, connects, starts the threads, and joins and cancels them at the end. All
that the service sends is handled by the one dispatch thread, so handlers do not interleave with each
other; they do with the commands of the main thread, and with what the service decides meanwhile.

| Component | State | Operations | What makes it correct | Where |
|---|---|---|---|---|
| Outgoing message ring | slots, two positions, two semaphores, a mutex | post (any thread), send loop, close | every message posted is sent once and in order; no slot is overwritten or read empty; nobody waits for ever | `SendRing`, `MessageQueue`, `SendRingProofs` |
| Incoming message ring, dispatcher loop | the same, without a mutex | read, post, take, clear on close | the same, and both threads end with the session | `RecvRing`, `RecvRingProofs` |
| Thread life cycle and shutdown | `session.state`, the joins, the jump out of the signal handler | command, Ctrl-C, end of a thread, cancel, join | the client exits after every thread it joins, wherever signals and cancellations fall | `Shutdown`, `ProcessProofs` |
| Answer handlers | table of (id, callback, age) that grows, id counter | send a request, receive, scan, expire | each callback runs once, with its own answer or with the news that it expired | `IdHandler`, `IdHandlerProofs` |
| Login handshake, query handlers | table of handlers, state of the session, the condition TLS waits on | header, features, proceed, success, failure; stopping the reader for TLS | one thread reads the socket; credentials are sent once, over TLS where it is offered; the login ends | `Handshake`, `HandshakeProofs` |
| Game room, channel, chat rooms | `session.gameroom`, `session.online`, list of MUC rooms | join, open, leave, setplayer, sync, kick, expiry, change of channel, presence | client and service agree on the room; nothing of another room is applied; no request is repeated for ever | `Gameroom`, `ServiceProofs` |
| Query cache | hash, file, container per cache | chunk, end, load, reset | what is loaded under a hash is all of it; a transfer ends | `QueryCache`, `QueryCacheProofs` |
| Quickplay, preinvites | `pre_uid`, `uid`, `group`, `master` | open, invite, start, cancel; started, succeeded, canceled | one group or search at a time; nobody waits for one that is over; no match of another search is taken | `Quickplay`, `QuickplayProofs` |
| Friends, clan mates, status | two lists, status, requests to peers | list and clan of the login, peers' updates, their errors, invitations, removal, leaving, the periodic status | the lists are the service's; two bots see each other's last status | `Roster` |
| Player, shop, random boxes | money, experience, items, statistics; offers, `shop_id`, `box_id` | buy, open, create a clan, gifts, results, resync, change of channel | a purchase names offers of its box; money and items are the service's when nothing is under way | `Profile` |
| D-Bus manager and instances | names on the bus, watches, exported objects, service files, the queue of starts | create, ready, exit, vanish, timeout, quit, restart, death | what is listed is what runs; what was quit stays down; what died comes back | `Manager`, `ProcessProofs` |
| D-Bus calls, whispers | arguments of chained callbacks, two cached answers | the lookups, their callbacks, pages and threads; mark, build | arguments freed once, a call answered once and in the end; a cache that is valid is fresh | `Lookups`, `ServiceProofs` |
| Invitations and follow, login after the bind, console, configuration, framing and TLS, serializer, encoders, statistics texts | | | | not modelled, see 6 |

**What is hard.** Two requests of one handler table race with their own answers and with expiry at 120
seconds. Requests to two master servers are answered in any order, and handlers read `session` at the
time of the answer for decisions that were meant at the time of the command. Two counting semaphores and
a mutex make a ring of many producers; a thread can be cancelled in the middle of any of it. TLS is
negotiated by the dispatcher on a socket that another thread reads. A `siglongjmp()` takes the main
thread out of whatever it was doing. Money is set by
some answers and added to by others that cross them. The D-Bus manager learns of its instances from calls
and from changes of names, which die and restart between any two of them; and a D-Bus call is answered by
the last of a chain of callbacks, of which each must free its arguments and call the next on every way out.
`PROJECT.json` lists forty such hazards at their lines, with the properties that watch them.

## 2. The modules

Every module follows the same conventions: one action per handler, or per atomic step of a thread (up to
the next semaphore, lock, or access to a variable that another thread uses); names of variables and
actions are those of the source where TLA+ allows it; the definitions named `Mutant...` are plausible
errors of the code that stand before the definition they replace. They belong to no behaviour; they show
that each property can fail.

**MessageQueue** is the abstract specification of a ring: a bounded FIFO `queue` and an `outbox`, the
message the consumer has in hand. It promises order, no loss and no duplication.

**SendRing** (`thread_sendstream.c`). `pc[p]` is where a producer is in `thread_sendstream_post_new_msg`:
wait for an empty slot, lock, write, advance and unlock, signal. `spc` is where the sender is in
`thread_sendstream` and `get_next_msg`: wait, read, clear, signal, send, close. Any thread may end the
session in between (`Die`). `Interrupt` is the SIGINT handler of `thread_readline.c`, which takes `Main` out of a post from any of
its places; `lost`, `unsignalled` and `torn` record what that cost. `Queue` maps it to `MessageQueue`: the queue is the occupied slots from the
read position on, counted by the semaphores and by the threads between two of their steps.

**RecvRing** (`thread_readstream.c`, `thread_dispatch.c`). One producer, no mutex. When the stream ends
the reader clears the slots one at a time (`CloseSlot`) before it tells the session, which is the step
that matters: `Queue` is a `MessageQueue` until then. `GetTake` is one step, for `_lock_read_id` covers it, though not against the
clearing, which takes no lock: a slot that falls between two of its instructions is freed and still handed to a handler (section 6).

**Shutdown** (`threads.c`, `thread_readline.c`, `wb.c`). All threads around the send ring (its slots
left out), `SigInt` (the handler's jump), `QuitCancel`/`QuitJoined` (`threads_quit`), `Cancelled`. A thread
that waits for the mutex cannot be cancelled, one that waits for a semaphore can. The main thread's
console loop can jump back to a frame that has returned: `pc[Main] = "stale"`, where the model stops.

**IdHandler** (`id_handler.c`, `send.c`, `thread_dispatch.c`). Increment and format are two steps, as in
`idh_generate_unique_id`; the rest of `idh_register` is atomic under its lock. Dispatch scans the table one
slot per step and calls back in the middle of it; the callbacks send requests of their own. `Age` makes a
handler older than 120 seconds. Peers (other clients) choose ids without regard to ours.

**Handshake** (`xmpp_stream.c`, `xmpp_starttls.c`, `xmpp_sasl.c`, `query_handler.c`, and the halves of
the reader and the dispatcher that TLS needs). The table of query handlers with its arguments and which of
them are still allocated, the mutex and condition by which dispatch holds the reader off the socket, the
service's side of the dialogue, whose features offer TLS or not (`tlsOffered`), with failure and the end of
the connection, and `threads_quit`.

**Gameroom** (`xmpp_iq_gameroom_*.c`, `xmpp_iq_join_channel.c`, `gameroom.c`, `xmpp_presence.c`,
`room.c`). `gr` is `session.gameroom`. `wire[c]` is the FIFO of requests to master server `c` and `moves`
that of the presences to the chat service. A request is granted or refused when its answer is delivered:
nothing else can observe when the server decided. Notices (sync, kick, expiry of the mission) and
commands come between any two handlers, handlers expire, and answers may come after that. What the
client does not keep: `seat[c]`, where a master server has the client, and `member`, the chat rooms the
service has it in. Two history variables delimit the properties: `crossed`, a change of channel was sent
while a room or a change of room was under way, or the reverse; `late`, a handler expired.

**QueryCache** (`querycache.c`, `xmpp_iq_querycache.c`, `xmpp_iq_autorotate.c`). One cache: its `container`
and `hash` in memory, its `file`, and the copy on `disk` that the next start loads. A transfer is a
request that goes on with the callback of its own answer, chunk after chunk (`ChunkMore`, `ChunkEnd`); any
number may overlap, any may fail (`Failed`), and the program may stop in the middle. The history variable `torn` names the
catalogs whose transfer was cut off, was mixed with another's, or had the file opened under it (`Tears`). The catalog of the service has a
`version`, which is also its hash; `Rotate` exchanges it.

**Quickplay** (`quickplay.c`, the preinvite, quickplay and offer handlers). Several clients that run this
code and the service, each pair joined by a FIFO. `pre`, `uid`, `group`, `master`, `tryAgain` are
`session.quickplay`; `Opening` and `Open` are the check and the effect of `quickplay_open()`, which runs on the main thread
beside the dispatcher, and the other commands are a step each; `Preinvited`, `Postponed`, `Responded` and `PreinviteCanceled` are
what clients tell each other under any setting of `wb_safemaster`, `wb_accept_room_invitations` and `wb_postpone_room_invitations`,
`Started` to `MissionsUpdated` what the service tells them. Joining any room forgets the search
(`RoomChanged`, `Joined`). An offer may be bare, its token empty, which counts among the commands. The branch of the cancel handler for a cancel by a guest
(`xmpp_iq_preinvite_cancel.c:72`) is not there, as this client sends none. `overtaken` is set while both uids are, `mixed` is set when a group is taken over from an earlier uid. The service's rules (`searches`, `offered`) are those the handlers rely on: it searches
for a player once at a time, tells all of a group when that begins or ends, and gives every offer an id, so that an answer counts
only for the offer it was made to (`Stands`).

**Profile** (`cmd_randombox.c`, `cmd_clan_create.c`, `xmpp_iq_resync_profile.c`, `xmpp_iq_confirm_notification.c`,
`xmpp_iq_join_channel.c`, `xmpp_iq_shop_get_offers.c`, `xmpp_iq_get_player_stats.c`, notices). `boxes` is the table
`random_box_items` with its pure algorithms: `InitBoxes` sorts the offers of the shop into slots, `FirstOf` and
`BatchOf` take the next ones in turn. `up[s]` has what was asked of server `s` (k01 for the first channel, any masterserver
for the offers, else the one of the channel at the time of sending) and `down` what the servers say, which the client takes
in order from each and in any order from two; `bank` is what the
service knows of the player, which it changes when it handles a request or announces a gift. `money`, `experience`,
`items`, `wins` and `progress` follow from its answers as the handlers take them: balances are set, gifts added.

**Manager** (`wbd.c`, `wbm.c`, `quit.c`). `st[i]` is where the glib loop of instance `i` is; `watches`, `exported`, `uniq`
and `queue` are the manager's; `files` the service files, by which the bus starts who owns no name; `inbox` what the bus
has for the manager, in one order. `ManagerStep` handles one message (`InstanceReady`, `InstanceExit`, `OwnerCame`,
`Vanished`), `ConsumeQueue` is the thread that has instances started. Instances and manager may die at any step, and
both come back through the bus.

**Roster** (`friend.c`, `clanmate.c`, `list.c`, `status.c`, the peer status, friend and clan handlers). Several bots that
run this code and a service. `list[b]` has the friends and the clan mates as sequences, the newest first, of nickname,
status and whether the jid is known. Each status is told by a request per peer; `Unreachable` is the callback for an error
or an expiry. The dispatcher's handlers are single steps; the ping thread reads, stores and posts the status in three.

**Lookups** (`dbus/methods/*.c`, `cmd_whois.c`, `cmd_last.c`, `cmd_whisper.c`, `xmpp_iq_profile_info_get_status.c`,
`xmpp_iq_peer_player_info.c`, `xmpp_iq_get_last_seen_date.c`, `xmpp_iq_gameroom_get.c` and more). A call is a record with the
`stack` of argument blocks whose callbacks are still to run and the `heap` of those not freed; `Answer(c)` gives the innermost
callback an answer, an error or an expiry. Beside it, `invalid` and `cached` of the two calls that answer from memory, built by
the D-Bus thread in two steps while the dispatcher changes the lists and marks them.

SendRing and RecvRing implement the same abstract queue; Shutdown takes the send ring's semaphores and
mutex without its slots; IdHandler and Handshake take the two rings as what MessageQueue promises, a FIFO.
Gameroom, Quickplay, QueryCache, Profile, Roster and Lookups take of IdHandler that each callback runs once,
with its answer or with an expiry.

`TypeOK` in each module states the type of every variable. It is proved for the modules of section 4, as a part of their
inductive invariant `Inv`; that of SendRing is among the runs' properties. TLC finds each to hold with the constants of the runs.

## 3. The runs

Bounds are constants of the modules or `.cfg` files; all of them are named there.

| Run | Instance | Shows |
|---|---|---|
| `send_ring` | 3 producers, one of them the main thread that any number of Ctrl-C interrupt, 4 messages, 2 slots | `Inv`: the inductive invariant of the proof, by which no slot is overwritten and no null taken. `QueueSpec`: the ring implements the queue. `StoredIsSent`: a stored message is sent unless the session ends, or a Ctrl-C cut posts short: then as many of the last ones wait as were stored without a signal. |
| `recv_ring` | 5 messages, 3 slots | `QueueSpec` until the reader ends; `BothEnd`: both threads end with the session; `NullOnlyOnClose`: the dispatcher's assertion can only fail while the reader clears the slots. |
| `shutdown` | dispatch, ping, sender, main; 2 slots, 1 Ctrl-C | `QuitUnlessInterrupted`: when the session is dead the client joins its threads and exits, unless the handler's jump left the mutex locked or went to a dead frame. |
| `id_handler` | 2 callers and dispatch, 3 requests, a table that starts with 1 slot, 1 stanza of a peer | `OnceAndNotLost`: a registered callback is in one slot until it runs, and runs once, also when the table grows or is scanned. `AnswersReachTheirCallback`: as long as ids differ. `ScanEnds`: registering during a scan does not prolong it for ever. |
| `handshake` | 12 handler slots, which the login does not fill, TLS on, offered or not, 2 streams | `SocketAlone`: nobody reads while TLS is negotiated. `ArgsAlive`: no handler gets freed arguments. `AuthOnce`: credentials go once, over TLS if it is offered. `LoginEnds`, `QuitUnlessOrphaned`: the two threads do not block each other but in the cases named. |
| `gameroom` | 2 master servers with 1 room each, that of the second a quickplay match; 2 commands, 1 notice, 1 fault | `LeavingIsAnswered`: the flag that suppresses a second leave is set exactly while one is outstanding. `AgreeAtRest`: when all is answered, client and service agree on the room, the status says so. `SyncIsOfTheRoom`: state applied is of the room the client is in, and no freed list is followed. `ChatsAgree`. |
| `query_cache` | 3 transfers, 3 chunks, 2 catalogs | `WholeUnderItsHash`: what is held under a hash is the catalog of that hash, all of it, but for the ones torn by a failure, a stop, an exchange of the catalog or a file opened again. `TransfersEnd`: a transfer that is answered ends, although the catalog changes under it. |
| `quickplay` | 2 clients, 2 groups, 4 other commands and bare offers, a match may be declined | `OneGroupAtATime`, but for a client whose opening was overtaken by a search. `WaitsForASearch`: at rest, who waits for a search is in one. `GroupAgreed`: nobody is searched for without having accepted an invitation to that group. `CancelReachesGuests`: at rest, no guest waits for a group its master cancelled before the search began. `TakesItsMatch`: no match of another search is taken, but a bare offer always is. |
| `profile` | either 1 masterserver, 2 boxes, of which one has fewer offers than slots, and 2 lists of offers, or 2 masterservers and 1 list with an offer for one box (`Worlds`); 3 slots, 2 commands, 1 event | `BatchIsOfTheBox`: whatever was bought before, a purchase names offers of its box, none twice. `MoneyAgrees`, `ItemsAgree`: when nothing is under way the client has the money, experience, statistics and items the service has, but where a history variable says why not: also when answers and notices of two masterservers cross around a change of channel, but for what they brought in another order (`crossed`). |
| `manager` | 2 instances, 3 calls of third parties, 1 death, 2 managers | `ListsTheRunning`: when the manager is idle it lists the instances that run. `StaysDown`: an instance that was told to quit is not started again. `Respawned`: one that vanished from its watch is, if the manager has its thread for that. |
| `roster` | 2 bots as friends, as clan mates, as both or becoming it; 1 or 2 kinds of event each, or 2 faults | `FriendsOfTheService`, `MatesOfTheClan`: the lists a bot has when it has handled what it was sent. `ViewsAgree`: in the end each shows the other's last status, or that it is gone; with two faults either bot may miss the other, and it holds but when each has (`Blind`). |
| `lookups` | 1 call of nine kinds, 5 rooms in pages of 2, 3 changes of lists | `FramesFreed`: no callback runs with freed arguments and all are freed, but on the ways named. `AnsweredOnceInFull`: one answer, with the rooms of every page. `Answered`: there is one in the end. `CachesFresh`: a valid cache has the data of the lists. |

**Why these bounds.** Two slots with three producers fill the ring, wrap both positions and make two
producers wait at once; one message more than producers makes one of them post twice. Three slots in
RecvRing separate full, half full and empty at the wrap. A table of one slot has to grow with the second
request, and the third is registered by a callback in the middle of a scan. Two commands are what any
race of requests in Gameroom needs (one under way, one that overtakes it), for each of them may cause two
or three more requests; one notice and one fault put an event of the service and a refusal or an expiry
anywhere among them, and two master servers are the least that make answers change order. Refusing a stale
mission costs no fault. Three transfers of three chunks let one end, a second begin and a third go on
at every point of each other, which is what it takes to open the file again under a transfer; the second catalog makes any of their
chunks be of another one than the first. In Quickplay two clients can
each be master and guest of the other, two uids are a current and an old group, and four commands are
an invitation, a start, a cancel and one more to cross it, or a bare offer. In Profile three slots instead of the source's five
still make a batch that fits, one that wraps and one that is too large; two purchases with one gift between them are
the shortest overlap of a balance and a sum; a switch and a
purchase are what crosses between two masterservers. In Manager one death may hit any step of the other processes, and the
second manager is the restart that finds instances of the first. The scenarios of Roster pair what can cross: a fault with
a change, with an invitation, with a removal; a leave with a new invitation; two bots are all that a view relates. One call is enough in
Lookups since calls share nothing but the network; five rooms are two full pages and a short one, and three changes
of the lists let one fall before, into and after the building of an answer. Neither the sums nor the queues are cut off by state constraints: the bounds
are guards of the environment's actions only.

**Fairness.** Weak fairness for each thread's steps: the kernel schedules the threads and no step
waits for another thread but at a semaphore, mutex, condition or socket, where its guard says so. None is given to
commands, signals not yet sent, the end of the session, failures, expiry or notices. Two places have more or less
than that. In Shutdown, obtaining the mutex (`SF_vars(PostLock(w))`) is strongly fair, for a mutex released
again and again is obtained in the end, and so is a worker's own end once the session is DEAD
(`SF_vars(dead /\ WorkerEnds(w))`): a handler posts finitely many messages, then its loop looks at the state.
In RecvRing the stream need not deliver anything: a blocked read is fair only when the session is DEAD,
because `threads_quit()` then cancels the thread. Of the service, IdHandler assumes nothing; Handshake that it
answers as long as the connection is there (it may close it at any moment); QueryCache that a request is answered and the answer handled
(`Serve`, `ChunkMore`, `ChunkEnd`), while changes of the catalog, failures and stops have no fairness; Quickplay's
`TakesItsMatch` and Manager's `StaysDown` are properties of steps and need none. In Manager the glib loops, the bus and the thread of the queue
go on, and a timeout elapses; deaths and calls of users have no fairness. In Roster each bot's dispatcher and ping thread go on
and a request that nobody answers expires (the table of IdHandler is scanned whenever a stanza or a ping comes). In Lookups each
request is answered or expires, and the thread that builds an answer goes on; the changes of the lists need not come.

**Deadlock** checking is off where the program may stop (the session ends, an assertion fails, or the
bounded inputs are used up) and then has no step; `query_cache` and `roster` check it. That nobody waits for
ever is what `StoredIsSent`, `BothEnd`, `QuitUnlessInterrupted`, `LoginEnds`, `QuitUnlessOrphaned`,
`ScanEnds`, `TransfersEnd`, `Respawned`, `ViewsAgree` and `Answered` say.

## 4. The proofs

Each module of proofs shows, for every value of the constants that meets the assumption of its model, that an invariant `Inv` is
inductive (`InitInv`, one lemma per action, `NextInv`), and derives from it what the run checks. The assumptions are
`RingAssumption` and `RecvRingAssumption` (the ring has a slot, the null pointer is no message, the main thread is a producer), finiteness of the producers and
of the threads, `IdHandlerAssumption` (the table has a slot, requests are finite and none is the null pointer),
`QueryCacheAssumption` and `LookupsAssumption` (at least one chunk, a positive size of a page), `QuickplayAssumption` (the service is
no player, a missing value is neither and no group), `HandshakeAssumption` (more than ten handler slots, more than four messages in the ring; the source has 64 and
16, `query_handler.c:33` and `thread_readstream.c:31`), and `GameroomAssumption` (the channel of the login is one, a missing value, the global chat and the
mark of a first attempt are no rooms). No property is inductive by itself:

- **SendRing**. `Conservation`: the two semaphores and the threads that hold a unit of either (a producer between its wait and its
  signal, the sender between its own) add up to `SEND_MSG_MAX` with what interrupts cost (`lost`, `unsignalled`), so no unit is made,
  and none is lost otherwise. `LockInv`: at most one producer is between lock and unlock, the one the mutex names, and who else it
  names is `Main`, interrupted (`Orphaned`). `MsgInv`: a producer on its way to the slot has a message. `SlotsInv`: the slots
  from the read position on, as many as are full or about to be signalled, hold messages, all others are free but one just written
  under the mutex, or left there by the interrupt that orphaned it, and the write position follows them. `SenderInv`: what the sender has in hand is the message of its slot.
  Moving one producer changes two counts of program counters by the difference (`CountsStep`, from `FiniteSetTheorems`).
- **RecvRing**. The same without a mutex, for there is one writer. `SlotsInv` says what is occupied only until the reader clears
  the slots, but where the write position is always; `DispatchInv` says that a null in hand means that it clears them.
- **Shutdown**. Units are not conserved, a cancelled thread takes its own with it; but none is made (`SlotsInv`), counting
  those that any finite set of threads hold. `LockInv` says that who is in the critical section is named by the mutex, not the reverse:
  after the jump out of the handler the mutex names a thread that is elsewhere.
- **IdHandler**. `SlotsInv`: no request is in two slots, and one was called back exactly if it was registered and is in none. `Sending`
  says that each thread in `xmpp_send_iq` has a request of its own, `Counted` that each request takes one number. `ScanInv`: when a scan stands at a slot, the request its stanza answers
  is registered and in no slot before it, whatever callbacks have registered meanwhile: they take free slots, or new ones at the end.
- **QueryCache**. What a transfer half way has brought is bound to the request (`Received`: the chunks before its next one),
  the answer under way to the catalog of now (`TransferInv`), and from there the container (`ContainerInv`), the open file, to
  which every transfer half way has brought its chunks (`FileInv`), and the file on disk (`DiskInv`) are whole when the last one ends.
- **Quickplay**. Consent is in flight: `FlightInv` says of each kind of message on each of the FIFOs who has agreed to what when
  it is there (`Sound`), `GroupInv` that who is in a group agreed to it, and that those it counts as accepted did. `OneGroupAtATime` is inductive with
  `overtaken` set exactly where `Open` finds a `uid` (`OneOrOvertaken`). A second
  invariant, `SearchInv`, reads the FIFO from the service to a client as the future of that client: from each place at which it begins to
  wait (`Waits`: now, or at a `started` under way) up to the next beginning (`Quiet`), every offer is of that search, a further search begins only after
  the notice of its end (`Over`), and at the end of the queue the client is where the service has it, or has heard that it is out (`Tracked`). `Owed`
  says that who has taken a match will not wait once it hears of the success, unless a later `started` is still to come. What the
  lemmas `NoticeAdded`, `StartAdded`, `MatchAdded`, `NoticeTaken`, `OfferTaken`, `AnswerHeard` and `MatchTaken` say of one queue is all the actions need.
  A third, `GuestInv`, counts for each pair of a host and a guest: the invitations under way, the refusals on their way back and the guest
  that waits are together no more than the places the guest has in the group (`Listed`), since every invitation adds a place and only a refusal that is
  heard takes one away. So where a cancelled group sends a guest no cancel, for it has no place, nothing is under way and it does not wait; where it sends
  one, the cancel is behind every invitation and is never dropped before the guest hears it (`Warned`). The groups whose search a master heard begin
  are left out of this (`Ending`); that the uid it searches for is always one of them is part of the invariant, for a cancel ends that one too. `OnePlaceLess` counts a list with a place
  taken out, and serves the queues and the group alike; `HostedKept` is what a step between other clients comes to.
- **Lookups**. `Waits` lists the stacks of callbacks that a call may be waiting in, which is what the code's chain of
  calls comes to; with each the allocated arguments are those of the stack and no answer was given (`Waiting`), or the call
  is over (`Ended`). `CacheInv` says of a cache that is being built that the data taken are those of now, or a change was missed.
- **Manager**. The manager's inbox is one FIFO from all the instances, the bus and third parties, and what makes it work is the order in it.
  `CallInv`: an instance waits for one call at most, and nothing of it comes behind that call, neither another call nor the news that it is gone.
  `DownInv`: of who has quit there is no service file and no `ready` in the inbox that would write one, so that `Launched`
  has nobody to start; that is `StaysDown`. `IdsInv` and `AskedInv`: watches are told apart by their ids, and each is asked about once. `OwnedInv`: where a
  watch has an owner, or its answer says so, the instance is on the bus or its going is behind in the inbox. `RegisteredInv`: an instance that
  was ready for this manager has a watch of this life of it, not only an older one that is about to lose it. When the inbox is empty the
  last two are what `ListsTheRunning` says. An operation takes the head of the inbox, appends to it, or drops it with its manager: each
  part has a lemma for such a movement (`Moves`), then one for each action. The model's initial predicate, next-state relation and specification have the
  prefix `Mngr`, for the module of proofs extends Shutdown too.
- **Gameroom**. `FlightInv` says where what is under way may be while no change of channel overlaps one of room: joins, openings, leaves and mission lists
  only in the queue of the channel, the client's leaving of a channel only in those of others; a change of channel is alone, is sent from no room, and is
  behind the logouts of its queue, so that none of them undoes it. With that `PlaceInv` holds in every state and not only at rest: no other
  masterserver seats the client, and its own seats it where the client takes itself to be, for a grant moves both in one step.
  `LeavingIsAnswered` is inductive with the types alone, and holds through overlaps and late answers too. Each queue operation (an ordinary request, one about the room, the leave, a change of channel, a logout, an
  answer, an expiry) has a lemma on what it does to `Flight` and to the one leave, for any queues; the actions only combine them. The names of
  Gameroom's initial predicate, next-state relation and specification have the prefix `Room`, for the module of proofs extends Lookups too.
- **Handshake**. `Coming` is what was sent by the service and not handled yet, over dispatch's hand, the ring, the reader and the connection, in
  order. Reading, posting and taking do not change it; handling takes its head, a reply extends it. `DialogueInv` binds it to the stages of the login
  (`Opened`, `Asking`, `Asked`, `Granted`, `Authenticating`, `Binding`): each names what may be coming, what the client asked for, which
  handlers are in the table, once or not at all, and which arguments are allocated. `WaitInv` says in which states one thread may sleep.
  `SocketInv`, which holds until the session is told to end, follows the one `<proceed/>`: dispatch leaves INIT
  only while the reader is in the read that will take it, after which the state keeps the reader off the socket.

| Module | Theorem | Says |
|---|---|---|
| `SendRingProofs` | `RingInvariant`, `TypeCorrect` | `Spec => []Inv`, `Spec => []TypeOK`: no semaphore exceeds the ring |
| | `NeverTakesNull` | the assertion on the message taken never fails |
| | `NeverOverwrites` | no message is written over another |
| | `RingImplementsQueue` | `Spec => QueueSpec`: every step is one of the abstract queue, or none |
| `RecvRingProofs` | `RecvRingInvariant`, `RecvTypeCorrect` | as above |
| | `NullOnlyWhileEmptied` | `NullOnlyOnClose` |
| | `RecvRingImplementsQueue` | `QueueSpec`, until the reader ends |
| `ProcessProofs` | `ShutdownInvariant`, `ShutdownTypeCorrect` | as above, for any finite set of threads |
| | `InterruptKeepsExclusion` | `OnePoster`: two threads are never in the critical section, Ctrl-C or not |
| | `ManagerInvariant`, `ManagerTypeCorrect` | `MngrSpec => []MngrInv`, for any set of instances and any number of calls, deaths and managers |
| | `ManagerListsTheRunning`, `ManagerStaysDown` | `ListsTheRunning`, `StaysDown` |
| `IdHandlerProofs` | `IdHandlerInvariant`, `IdHandlerTypeCorrect` | as above |
| | `CallbackOnceAndNotLost` | `OnceAndNotLost` |
| | `AnswersAreDelivered` | `AnswersReachTheirCallback` |
| `QueryCacheProofs` | `QueryCacheInvariant`, `QueryCacheTypeCorrect` | as above, for any number of transfers, chunks and catalogs |
| | `WholeAtRest` | `WholeUnderItsHash` |
| `QuickplayProofs` | `QuickplayInvariant`, `QuickplayTypeCorrect` | as above, for any number of clients and uids |
| | `OneGroup`, `SearchedForWhoAgreed` | `OneGroupAtATime`, `GroupAgreed` |
| | `SearchInvariant` | `Spec => []SearchInv`: where the notices under way lead each client |
| | `MatchesAreOwn`, `NobodyWaitsInVain` | `TakesItsMatch`, `WaitsForASearch` |
| | `GuestInvariant` | `Spec => []GuestInv`: each invitation has its place in the group, and a cancel follows it |
| | `CancelsReachGuests` | `CancelReachesGuests` |
| `ServiceProofs` | `LookupsInvariant`, `LookupsTypeCorrect` | as above, for any number of calls, rooms and changes |
| | `NoFrameLost`, `OneAnswerInFull`, `FreshOrMissed` | `FramesFreed`, `AnsweredOnceInFull`, `CachesFresh` |
| | `RoomInvariant`, `RoomTypeCorrect` | `RoomSpec => []RoomInv`, for any channels, rooms and number of commands, notices and faults |
| | `LeaveIsAnswered`, `PlacesAgree` | `LeavingIsAnswered`, `AgreeAtRest` |
| | `SyncOfTheRoomOnly`, `ChatsAreAgreed` | `SyncIsOfTheRoom`, `ChatsAgree` |
| `HandshakeProofs` | `HandshakeInvariant`, `HandshakeTypeCorrect` | as above, with TLS or without: the ring never fills, the two threads never both sleep |
| | `SocketIsAlone`, `ArgsAreAlive`, `AuthIsOnce` | `SocketAlone`, `ArgsAlive`, `AuthOnce` |
| | `NeverOverflows` | the assertion of `qh_register()` on a free slot does not fail during a login |

For the two refinements the producer's or reader's advance of the position appends to the queue, the consumer's read takes its
head (`PostAdvancePuts`, `SendReadTakes` and their like), and all other steps leave it alone.

**What the proofs corrected.** Three properties held in the runs and not beyond them. `GroupAgreed` failed with four
players and three uids, by the late cancel of section 5; `agreed` and `mixed` now account for it. `WholeUnderItsHash`
failed with three overlapping transfers, by the file that is opened again; `torn` now names its catalog, and the run has three transfers.
`TakesItsMatch` failed with three clients and three uids after a search of the same uid was begun anew: the service of
the model took the answer to an offer of the search that had ended for one to the new offer. The code answers with the id of the offer
(`xmpp_iq_gameroom_offer.c`, `gameroom_offer_response`), so that it was the model that was wrong; `Stands` now says which answers count.
Handshake's `DispatchGet` was a CASE with overlapping arms, of which TLA+ lets either be taken though TLC takes the first: a dispatcher that takes a
message when the session is dead handles it (`thread_dispatch.c:46-52`), and the model now says only that.

**Only model-checked.** All liveness, which needs ENABLED: `StoredIsSent`, `BothEnd`, `QuitUnlessInterrupted`, `ScanEnds`,
`LoginEnds`, `QuitUnlessOrphaned`, `TransfersEnd`, `Respawned`, `ViewsAgree`, `Answered`. Roster and Profile, whose
lists and sums are folds: what a fold computes for every input is an induction over data, which is beyond the prover.

## 5. Where the code does otherwise

The properties leave out by name, mostly by a history variable, what the code does against its own words. Three statements
of the source do not hold. The models have the behaviour that breaks them; no run asserts them:

- `thread_dispatch.c:46-47`, `if (session.state != STATE_DEAD) assert(msg != NULL)`: when the stream fails with
  messages still in the ring, `thread_readstream_close()` clears the slots (`thread_readstream.c:96-100`) before `thread_close()`
  sets DEAD (`threads.c:41`), and the dispatcher may take a null out of the ring in between. `NullOnlyOnClose` says that it
  cannot anywhere else.
- `src/README.md:153-154`, "keep to unready, until it either receives `ready` or leaves the current room":
  `gameroom_sync()` sets the wanted status to ready whenever the session of the room ends
  (`xmpp_iq_gameroom_sync.c:221-225`; `GameroomSync` in Gameroom).
- `xmpp_iq_gameroom_sync.c:154`, "If we receive a sync without being in a room, drop the packet": the notice handler does,
  but the callbacks of setplayer, promote, setname, setinfo and update_pvp call `gameroom_sync()` without looking, and line 326
  follows the players list that was freed (`crashed` in Gameroom, which `SyncIsOfTheRoom` confines to overlaps).

And besides:

- SendRing: Ctrl-C in a post while the session lives loses what the post had taken (`Interrupt`): a slot for good when it
  falls between `sem_wait` and the store, the mutex and with it every later post when it falls inside the lock, and the signal
  when it falls between the unlock and `sem_post` (`thread_sendstream.c:49-51`): then the message waits in the ring, and every later
  one until the next is posted. `StoredIsSent` says that no more messages wait than posts were cut there.
- Shutdown: Ctrl-C while the main thread is inside the critical section of the send ring leaves the mutex
  locked, and `threads_quit()` ("Gracefully exit all child threads") never returns (`Orphaned`); the console loop
  jumps to a buffer of a frame that has returned (`stale`).
- IdHandler: `idh_generate_unique_id()` formats the counter after it released the lock, so that two threads may
  use one id, and then an answer goes to the wrong callback (`AnswersReachTheirCallback` supposes that ids
  differ). `idh_handle()` compares ids only, so a request of a peer may be taken for the answer to one of ours.
- Handshake: the end of the connection while dispatch waits to negotiate TLS leaves the reader in
  `pthread_cond_destroy()` (`ReaderStuck`); a thread cancelled with `_lock_readstream` held blocks the other
  (`Orphaned`); the state DEAD may be overwritten by TLS_INIT or RUN; `proceed` runs an assertion on it.
- Handshake: to a service whose features lack `<starttls` the credentials go in plain, although
  `online_use_tls` is set (`xmpp_stream.c:85-95`); `AuthOnce` promises TLS only where it is offered.
- Gameroom, when a change of channel overlaps a change of room (`crossed`): the answer to the leave of the
  old room wipes the new one; the name of a room is built with the channel of the moment the answer comes.
- Gameroom, always: a chat room whose entry is not confirmed yet is not left when its room is, since
  the presence is suppressed, and entering again is suppressed as long as the entry is on the list; in a
  running quickplay match, staying sets the player unready, which makes the client take the session for a
  new one and join it again, for ever; `joined` outlives a room that is left
  during its session; safe mode and the time given to stay outlive a kick.
- QueryCache: the file of a transfer that was cut off has its hash but not its end; the next start takes the hash
  and no element, the service answers that it is current, and the cache stays empty. A transfer that
  fails leaves the hash, so that the next request is told the same. A change of the catalog during a transfer
  leaves both mixed under the hash of the last chunk. A second transfer may be told that the catalog is
  current while the first is still fetching it. When a transfer ended and closed the file, a first chunk asked for before opens it
  anew (`if (open_file && cache->file == NULL)`, `querycache.c:175`), and the end of a third transfer, half way, closes it with an
  end tag though chunks are missing: the next start loads it as complete.
- Quickplay: `quickplay_open()` tests `uid` before `quickplay_started()` sets it and sets `pre_uid` after: the client is then in a
  search and in a new group at once (`overtaken`). A cancel between request and `started` tells the service nothing, which then searches on for a
  client that declines every match. Opening a group does not clear an earlier one, whose members it
  inherits; the retry after an expired mission joins the old uid with the group of the moment; and a late cancel of an old
  invitation clears the uid but not the group, with which the next invitation, another's, is then started (`mixed`). A
  cancel of any uid ends the invitation that is current. A response that comes when the master has no
  group any more is dropped, and the guest waits on, declining all other invitations; so it is after a cancel of a search that has
  begun, which tells the group nothing (`begun`, excepted by `CancelReachesGuests`). An offer with an empty token is taken
  without any search (`TakesItsMatch` excepts it). A guest invited
  twice answers the second time that it declines, which removes it from the group it is in. A room joined
  before `succeeded` comes has cleared the start callback, which then never runs.
- Profile: a balance of 0 is not taken over by a resync or a `update_cry_money` (`zeroIgnored`); a resync that fails loses
  what it was to bring, the price of a clan item included (`resyncLost`); a box of which the shop has fewer offers than slots
  sends the offer id 0 among the others. An item that a notice gives or takes is printed and not listed (`unlisted`). A
  change of channel is asked of another masterserver than what was asked before it, and what the two say may cross: an older
  balance or list is then written over a newer one, and a notice that comes before the answer of k01 is confirmed to the
  channel `NULL`, that is to nobody (`crossed`).
- Manager: the thread of the queue runs `while (create_thread != NULL)`, and `main` stores that when `g_thread_new()` returns: it may
  end before it began (`consuming`), and then nobody who vanishes is started again, nor who is created. An instance that is quit before it has a proxy of the manager (`wbm == NULL`) tells nobody and comes back if its
  service file is there; the notice of one that quits may reach the manager when the next life of the same name is already listed; one that takes its name and dies before `InstanceReady` is no longer watched by anybody
  (`on_instance_name_appeared` frees the watch); one may be listed twice.
- Roster: two bots that each missed the other once (an error or a late answer on either side) have no jid of each other and stay
  blind until one logs in again (`missed`, excepted by `ViewsAgree`); a bot removed by a friend keeps that friend until its next login, and has it twice when
  it is added again; who leaves a clan stays in its mates' lists, offline, since the branch `CLAN_UPDATE_LEFT` of
  `clanmate_list_update()` needs a missing nickname and the handler passes the known one; `clan.id` is not reset after leaving, so that a later
  invitation is neither accepted nor refused; the ping thread may store an old status over a new one.
- Lookups: no answer is given after an error or an empty answer to a last-seen request, to the statistics or to the offers
  (`Lossy`), nor when `query_disable_shop_get_offers` forbids to ask for the offers (`xmpp_iq_shop_get_offers.c:181`); a player's
  status without an `online_id` ends the client in the assertion of `jid_to_str()` (`player_peer_info.c:118`; the call is taken as
  dropped, and the other calls go on in the model); a whisper to somebody unknown, without an `online_id` or a nickname is
  dropped without a word, though the bus was answered; the arguments of `RoomGet` and of a whispered `missions` leak; the crown challenge is marked when the list of missions is
  asked for (`mission.c:111`), so that a call in between keeps the old one; `clanmate_list_empty()` marks nothing
  (`friend_list_empty()` neither, but only the login calls it, and adds the friends next); a mark that falls
  into the building of the answer is lost, for `invalidated = FALSE` comes last (`buddies.c:95`). A list of rooms of which a later page
  fails is discarded.

## 6. What is not modelled

- **Invitations and follow** (`xmpp_iq_invitation_*.c`, `invitation.c`): the pending list and the tickets; the joins they cause are steps
  of Gameroom, and the arguments of an invitation sent from the bus are frames of Lookups.
- **The login after the bind**: a chain of requests without branches; a failure stops it. Its last step, joining the channel, is in
  Gameroom and Profile.
- **Text**: parsing and printing of commands, XML, the console, translations, the texts of statistics. Commands are modelled by the
  function they end in (Gameroom, Quickplay, Profile, Roster, Lookups).
- **Bytes**: framing, encryption, TLS, compression, encoders. **Libraries**: readline, GDBus, OpenSSL, the HTTP lookup of an address.
- Inside the modelled parts: Handshake has no expiry of query handlers, and reads whole stanzas, as the framed protocol delivers them;
  Gameroom leaves out kick and askserver (no state of the room), and a command of the main thread is one step there although dispatch runs
  beside it; Shutdown has no detached threads (safe mode's greetings, the address lookup), which may outlive `threads_quit()`, and not the
  D-Bus main loop; Profile leaves out gifts of money inside a join answer, purchases that expire, ratings and banners, and takes a gift as credited
  when it is announced; its masterservers share one account, one serves a player who has gone to another, and the
  `channel_logout` that follows a change of channel changes nothing there; Roster leaves out the away flag (`status ^ STATUS_AFK`, `thread_ping.c:77`, is true unless the status is nothing but
  that flag) and with it the ping thread that sets the status every `wb_ping_unit` (its period is longer than a request waits:
  `PingReads`), a peer's update that is taken for an answer because it has the id of a request (`id_handler.c:110`), the position in the clan, which is only printed, and the unsynchronised walks over the two lists; Manager leaves out the console of an
  instance, which shares `wbm` without a lock; Lookups takes `pthread_create()` to succeed, and the lists of the D-Bus thread as values: an entry freed
  under its walk is not modelled; RecvRing a slot cleared (`thread_readstream_close()`) inside the dispatcher's taking of it, and the request
  that sets the status as the reader ends (`status_set(STATUS_LEFT)`, `thread_readstream.c:155`), which is in Roster's `Leaves`; QueryCache's elements are abstracted to chunks.
- Outside every module: `SSL_write()` and `SSL_read()` of two threads on one SSL object without a lock (`tls.c:79`); the ping thread's use of
  `session.quickplay.master` while the dispatcher frees it (`thread_ping.c:71`); an unsynchronised read sees the value of the moment, for no memory
  model finer than sequential consistency is considered.

The cap of two streams, the bounds of section 3 and the leaving out of slots in Shutdown are abstractions of the instances, not of the code.

## 7. Plan

Done, in this order: SendRing and MessageQueue with their proofs, RecvRing, Shutdown, IdHandler, Handshake, Gameroom, QueryCache, Quickplay,
Profile, Manager, Roster, Lookups; then the proofs about RecvRing, Shutdown, Quickplay, IdHandler, QueryCache, Lookups, Handshake, Manager
and Gameroom. Left: nothing that the provers reach; what a fold computes in Roster and Profile would need an induction over data.
