---------------------------- MODULE ServiceProofs ----------------------------
(***************************************************************************)
(* Proofs about what the client asks of the service: Lookups, for any      *)
(* number of calls, rooms and changes; and Gameroom, for any channels and  *)
(* rooms and any number of commands, notices and faults.                   *)
(***************************************************************************)
EXTENDS Lookups, Gameroom, TLAPS

-----------------------------------------------------------------------------
(* Lookups *)

LEMMA InitInv == ASSUME Init PROVE Inv
<1>1. NoCall \in Records
  BY LookupsAssumption DEF NoCall, Records, Infos, Results, Lookup, Frames
<1>2. TypeOK
  <2>1. lists \in [{"friends", "mates", "missions"} -> 0 .. MaxChanges]
    BY LookupsAssumption DEF Init
  <2>2. calls \in [Calls -> Records] /\ invalid \in [Caches -> BOOLEAN]
    BY <1>1 DEF Init
  <2>3. asked \in 0 .. MaxChanges /\ changes \in 0 .. MaxChanges
    BY LookupsAssumption DEF Init
  <2> QED
    BY <2>1, <2>2, <2>3 DEF Init, TypeOK, NotBuilding
<1>3. Ended(NoCall)
  BY DEF Ended, NoCall
<1>4. \A c \in Calls : Ended(calls[c])
  BY <1>3 DEF Init
<1>5. \A k \in Caches : CacheInv(k)
  BY DEF Init, CacheInv, Caches, NotBuilding
<1> QED
  BY <1>2, <1>4, <1>5, LookupsAssumption DEF Init, Inv, Caches
-----------------------------------------------------------------------------
(* The caches *)

(* A step of the caches leaves the calls alone. *)
LEMMA CallsKept ==
  ASSUME Inv, calls' = calls
  PROVE  /\ calls' \in [Calls -> Records]
         /\ \A c \in Calls : Waiting(calls'[c]) \/ Ended(calls'[c])
BY DEF Inv, TypeOK

LEMMA BuddyChangedInv ==
  ASSUME Inv, NEW l \in DOMAIN lists, BuddyChanged(l)
  PROVE  Inv'
<1>1. /\ l \in {"friends", "mates"} /\ changes < MaxChanges /\ changes' = changes + 1
      /\ lists' = [lists EXCEPT ![l] = changes'] /\ marking' = TRUE
      /\ missed' = (IF FALSE \/ building.k = "buddies" THEN missed \cup {"buddies"} ELSE missed)
      /\ UNCHANGED <<calls, asked, invalid, cached, building>>
  BY DEF BuddyChanged, Changes, Missed
<1>2. /\ lists \in [{"friends", "mates", "missions"} -> 0 .. MaxChanges]
      /\ changes \in 0 .. MaxChanges /\ changes' \in 0 .. MaxChanges
  BY <1>1, LookupsAssumption DEF Inv, TypeOK
<1>3. lists'.missions = lists.missions
  BY <1>1, <1>2
<1>4. TypeOK'
  <2>1. lists' \in [{"friends", "mates", "missions"} -> 0 .. MaxChanges]
    BY <1>1, <1>2
  <2>2. missed' \subseteq Caches
    BY <1>1 DEF Inv, TypeOK, Caches
  <2> QED
    BY <1>1, <1>2, <2>1, <2>2 DEF Inv, TypeOK
<1>5. (lists.missions + asked <= changes)'
  BY <1>1, <1>2, <1>3, LookupsAssumption DEF Inv, TypeOK
<1>6. CacheInv("buddies")'
  BY <1>1 DEF CacheInv
<1>7. CacheInv("crown")'
  <2>1. DataOf("crown")' = DataOf("crown")
    BY <1>3 DEF DataOf
  <2> QED
    BY <1>1, <2>1 DEF Inv, CacheInv, Caches
<1> QED
  BY <1>1, <1>4, <1>5, <1>6, <1>7, CallsKept DEF Inv, Caches

LEMMA UpdateBuddyListInv == ASSUME Inv, UpdateBuddyList PROVE Inv'
<1>1. /\ marking' = FALSE /\ invalid' = [invalid EXCEPT !["buddies"] = TRUE]
      /\ UNCHANGED <<calls, lists, asked, cached, building, missed, changes>>
  BY DEF UpdateBuddyList
<1>2. invalid \in [Caches -> BOOLEAN] /\ "buddies" \in Caches
  BY DEF Inv, TypeOK, Caches
<1>3. TypeOK'
  BY <1>1, <1>2 DEF Inv, TypeOK
<1>4. ASSUME NEW k \in Caches PROVE CacheInv(k)'
  BY <1>1, <1>2 DEF Inv, CacheInv, DataOf
<1> QED
  BY <1>1, <1>3, <1>4, CallsKept DEF Inv

LEMMA ClanmateListEmptyInv == ASSUME Inv, ClanmateListEmpty PROVE Inv'
<1>1. /\ changes < MaxChanges /\ changes' = changes + 1
      /\ lists' = [lists EXCEPT !["mates"] = 0]
      /\ missed' = (IF ~invalid["buddies"] \/ building.k = "buddies"
                    THEN missed \cup {"buddies"} ELSE missed)
      /\ UNCHANGED <<calls, asked, marking, invalid, cached, building>>
  BY DEF ClanmateListEmpty, Changes, Missed
<1>2. /\ lists \in [{"friends", "mates", "missions"} -> 0 .. MaxChanges]
      /\ changes \in 0 .. MaxChanges /\ changes' \in 0 .. MaxChanges /\ 0 \in 0 .. MaxChanges
  BY <1>1, LookupsAssumption DEF Inv, TypeOK
<1>3. lists'.missions = lists.missions
  BY <1>1, <1>2
<1>4. TypeOK'
  <2>1. lists' \in [{"friends", "mates", "missions"} -> 0 .. MaxChanges]
    BY <1>1, <1>2
  <2>2. missed' \subseteq Caches
    BY <1>1 DEF Inv, TypeOK, Caches
  <2> QED
    BY <1>1, <1>2, <2>1, <2>2 DEF Inv, TypeOK
<1>5. (lists.missions + asked <= changes)'
  BY <1>1, <1>2, <1>3, LookupsAssumption DEF Inv, TypeOK
<1>6. CacheInv("buddies")'
  BY <1>1 DEF CacheInv
<1>7. CacheInv("crown")'
  <2>1. DataOf("crown")' = DataOf("crown")
    BY <1>3 DEF DataOf
  <2> QED
    BY <1>1, <2>1 DEF Inv, CacheInv, Caches
<1> QED
  BY <1>1, <1>4, <1>5, <1>6, <1>7, CallsKept DEF Inv, Caches

LEMMA MissionListUpdateInv == ASSUME Inv, MissionListUpdate PROVE Inv'
<1>1. /\ changes < MaxChanges /\ changes' = changes + 1 /\ asked' = asked + 1
      /\ invalid' = [invalid EXCEPT !["crown"] = TRUE]
      /\ UNCHANGED <<calls, lists, marking, cached, building, missed>>
  BY DEF MissionListUpdate, Changes
<1>2. /\ lists.missions \in Nat /\ asked \in Nat /\ changes \in 0 .. MaxChanges
      /\ lists.missions + asked <= changes
      /\ invalid \in [Caches -> BOOLEAN] /\ "crown" \in Caches
  BY LookupsAssumption DEF Inv, TypeOK, Caches
<1>3. /\ changes' \in 0 .. MaxChanges /\ asked' \in 0 .. MaxChanges
      /\ lists.missions + asked' <= changes'
  BY <1>1, <1>2, LookupsAssumption
<1>4. TypeOK'
  BY <1>1, <1>2, <1>3 DEF Inv, TypeOK
<1>5. ASSUME NEW k \in Caches PROVE CacheInv(k)'
  BY <1>1, <1>2 DEF Inv, CacheInv, DataOf
<1> QED
  BY <1>1, <1>3, <1>4, <1>5, CallsKept DEF Inv

LEMMA MissionsGetListCbInv ==
  ASSUME Inv, NEW v \in Results, MissionsGetListCb(v)
  PROVE  Inv'
<1>1. /\ asked > 0 /\ asked' = asked - 1
      /\ UNCHANGED <<calls, marking, invalid, cached, building, changes>>
  BY DEF MissionsGetListCb
<1>2. /\ lists \in [{"friends", "mates", "missions"} -> 0 .. MaxChanges]
      /\ lists.missions \in Nat /\ asked \in Nat /\ changes \in 0 .. MaxChanges
      /\ lists.missions + asked <= changes
  BY LookupsAssumption DEF Inv, TypeOK
<1>3. asked' \in 0 .. MaxChanges
  BY <1>1, <1>2, LookupsAssumption
<1>4. CASE v = "ok"
  <2>1. /\ lists' = [lists EXCEPT !["missions"] = @ + 1]
        /\ missed' = (IF ~invalid["crown"] \/ building.k = "crown"
                      THEN missed \cup {"crown"} ELSE missed)
    BY <1>4 DEF MissionsGetListCb, MissionListReplaced, Missed
  <2>2. /\ lists'.missions = lists.missions + 1
        /\ lists'.friends = lists.friends /\ lists'.mates = lists.mates
    BY <1>2, <2>1
  <2>3. lists.missions + 1 \in 0 .. MaxChanges
    BY <1>1, <1>2, LookupsAssumption
  <2>4. lists' \in [{"friends", "mates", "missions"} -> 0 .. MaxChanges]
    BY <1>2, <2>1, <2>3
  <2>5. (lists.missions + asked <= changes)'
    BY <1>1, <1>2, <2>2
  <2>6. TypeOK'
    <3>1. missed' \subseteq Caches
      BY <2>1 DEF Inv, TypeOK, Caches
    <3> QED
      BY <1>1, <1>3, <2>4, <3>1 DEF Inv, TypeOK
  <2>7. CacheInv("crown")'
    BY <1>1, <2>1 DEF CacheInv
  <2>8. CacheInv("buddies")'
    <3>1. DataOf("buddies")' = DataOf("buddies")
      BY <2>2 DEF DataOf
    <3> QED
      BY <1>1, <2>1, <3>1 DEF Inv, CacheInv, Caches
  <2> QED
    BY <1>1, <2>5, <2>6, <2>7, <2>8, CallsKept DEF Inv, Caches
<1>5. CASE v # "ok"
  <2>1. UNCHANGED <<lists, missed>>
    BY <1>5 DEF MissionsGetListCb
  <2>2. TypeOK'
    BY <1>1, <1>3, <2>1 DEF Inv, TypeOK
  <2>3. (lists.missions + asked <= changes)'
    BY <1>1, <1>2, <2>1
  <2>4. ASSUME NEW k \in Caches PROVE CacheInv(k)'
    BY <1>1, <2>1 DEF Inv, CacheInv, DataOf
  <2> QED
    BY <1>1, <2>2, <2>3, <2>4, CallsKept DEF Inv
<1> QED
  BY <1>4, <1>5

(* What is built from begins as the data of now. *)
LEMMA BuildingInv ==
  ASSUME Inv, NEW k \in Caches, FromDbus, building' = [k |-> k, data |-> DataOf(k)],
         missed' = missed \ {k},
         UNCHANGED <<calls, lists, asked, marking, invalid, cached, changes>>
  PROVE  Inv'
<1>1. building'.k = k /\ building'.data = DataOf(k) /\ k # "none" /\ building.k = "none"
  BY DEF FromDbus, NotBuilding, Caches
<1>2. TypeOK'
  BY <1>1 DEF Inv, TypeOK
<1>3. ASSUME NEW j \in Caches PROVE CacheInv(j)'
  <2>1. DataOf(j)' = DataOf(j)
    BY DEF DataOf
  <2>2. j # "none"
    BY DEF Caches
  <2> QED
    BY <1>1, <2>1, <2>2 DEF Inv, CacheInv
<1> QED
  BY <1>1, <1>2, <1>3, CallsKept DEF Inv

LEMMA BuiltInv == ASSUME Inv, Built PROVE Inv'
<1>1. /\ building # NotBuilding /\ building' = NotBuilding
      /\ cached' = [cached EXCEPT ![building.k] = building.data]
      /\ invalid' = [invalid EXCEPT ![building.k] = FALSE]
      /\ UNCHANGED <<calls, lists, asked, marking, missed, changes>>
  BY DEF Built
<1>2. /\ building.k \in Caches /\ building'.k = "none"
      /\ invalid \in [Caches -> BOOLEAN] /\ DOMAIN cached = Caches
  BY <1>1 DEF Inv, TypeOK, NotBuilding
<1>3. TypeOK'
  BY <1>1, <1>2 DEF Inv, TypeOK
<1>4. ASSUME NEW k \in Caches PROVE CacheInv(k)'
  <2>1. DataOf(k)' = DataOf(k) /\ k # "none"
    BY <1>1 DEF DataOf, Caches
  <2>2. CASE building.k = k
    <3>1. k \in missed \/ building.data = DataOf(k)
      BY <2>2 DEF Inv, CacheInv
    <3>2. cached'[k] = building.data
      BY <1>1, <1>2, <2>2
    <3> QED
      BY <1>1, <1>2, <2>1, <3>1, <3>2 DEF CacheInv
  <2>3. CASE building.k # k
    <3>1. invalid[k] \/ k \in missed \/ cached[k] = DataOf(k) \/ (k = "buddies" /\ marking)
      BY <2>3 DEF Inv, CacheInv
    <3>2. cached'[k] = cached[k] /\ invalid'[k] = invalid[k]
      BY <1>1, <1>2, <2>3
    <3> QED
      BY <1>1, <1>2, <2>1, <3>1, <3>2 DEF CacheInv
  <2> QED
    BY <2>2, <2>3
<1>5. DOMAIN cached' = Caches
  BY <1>1, <1>2
<1> QED
  BY <1>1, <1>3, <1>4, <1>5, CallsKept DEF Inv

LEMMA CacheStepsInv == ASSUME Inv, CacheSteps PROVE Inv'
<1>1. ASSUME NEW l \in DOMAIN lists, BuddyChanged(l) PROVE Inv'
  BY <1>1, BuddyChangedInv
<1>2. ASSUME NEW v \in Results, MissionsGetListCb(v) PROVE Inv'
  BY <1>2, MissionsGetListCbInv
<1>3. CASE Buddies
  BY <1>3, BuildingInv DEF Buddies, Caches
<1>4. CASE CrownChallenge
  BY <1>4, BuildingInv DEF CrownChallenge, Caches
<1> QED
  BY <1>1, <1>2, <1>3, <1>4, UpdateBuddyListInv, ClanmateListEmptyInv, MissionListUpdateInv,
     BuiltInv DEF CacheSteps
-----------------------------------------------------------------------------
(* Stacks *)

LEMMA Concatenated ==
  ASSUME NEW S, NEW s \in Seq(S), NEW t \in Seq(S)
  PROVE  /\ s \o t \in Seq(S) /\ Len(s \o t) = Len(s) + Len(t)
         /\ \A i \in 1 .. Len(s \o t) :
              (s \o t)[i] = IF i =< Len(s) THEN s[i] ELSE t[i - Len(s)]
OBVIOUS

LEMMA SameSequence ==
  ASSUME NEW S, NEW s \in Seq(S), NEW t \in Seq(S), Len(s) = Len(t),
         \A i \in 1 .. Len(s) : s[i] = t[i]
  PROVE  s = t
OBVIOUS

LEMMA OneFrame ==
  ASSUME NEW a
  PROVE  Head(<<a>>) = a /\ Tail(<<a>>) = <<>> /\ <<a>> # <<>> /\ Range(<<a>>) = {a}
BY DEF Range

LEMMA TwoFrames ==
  ASSUME NEW a, NEW b
  PROVE  /\ Head(<<a, b>>) = a /\ Tail(<<a, b>>) = <<b>> /\ <<a, b>> # <<>>
         /\ Range(<<a, b>>) = {a, b} /\ <<a>> \o <<b>> = <<a, b>>
<1>1. Range(<<a, b>>) = {a, b}
  BY DEF Range
<1> PICK s, t : s = <<a>> /\ t = <<b>>
  OBVIOUS
<1>2. s \in Seq({a, b}) /\ t \in Seq({a, b}) /\ <<a, b>> \in Seq({a, b})
  OBVIOUS
<1>3. Len(s) = 1 /\ Len(t) = 1 /\ s[1] = a /\ t[1] = b /\ Len(<<a, b>>) = 2
  OBVIOUS
<1>4. s \o t \in Seq({a, b}) /\ Len(s \o t) = 2 /\ (s \o t)[1] = a /\ (s \o t)[2] = b
  BY <1>2, <1>3, Concatenated
<1>5. \A i \in 1 .. 2 : (s \o t)[i] = <<a, b>>[i]
  BY <1>4
<1>6. s \o t = <<a, b>>
  BY <1>2, <1>3, <1>4, <1>5, SameSequence
<1>7. Head(<<a, b>>) = a
  OBVIOUS
<1>8. Tail(<<a, b>>) = <<b>> /\ <<a, b>> # <<>>
  OBVIOUS
<1> QED
  BY <1>1, <1>6, <1>7, <1>8

LEMMA OnTopOfTwo ==
  ASSUME NEW a, NEW b, NEW c
  PROVE  <<a>> \o <<b, c>> = <<a, b, c>>
<1> PICK s, t : s = <<a>> /\ t = <<b, c>>
  OBVIOUS
<1>1. s \in Seq({a, b, c}) /\ t \in Seq({a, b, c}) /\ <<a, b, c>> \in Seq({a, b, c})
  OBVIOUS
<1>2. Len(s) = 1 /\ Len(t) = 2 /\ s[1] = a /\ t[1] = b /\ t[2] = c /\ Len(<<a, b, c>>) = 3
  OBVIOUS
<1>3. /\ s \o t \in Seq({a, b, c}) /\ Len(s \o t) = 3
      /\ (s \o t)[1] = a /\ (s \o t)[2] = b /\ (s \o t)[3] = c
  BY <1>1, <1>2, Concatenated
<1>4. \A i \in 1 .. 3 : i = 1 \/ i = 2 \/ i = 3
  OBVIOUS
<1>5. \A i \in 1 .. 3 : (s \o t)[i] = <<a, b, c>>[i]
  BY <1>3, <1>4
<1> QED
  BY <1>1, <1>2, <1>3, <1>5, SameSequence

LEMMA ThreeFrames ==
  ASSUME NEW a, NEW b, NEW c
  PROVE  Head(<<a, b, c>>) = a /\ Tail(<<a, b, c>>) = <<b, c>> /\ <<a, b, c>> # <<>>
<1>1. Head(<<a, b, c>>) = a
  OBVIOUS
<1>2. Tail(<<a, b, c>>) = <<b, c>> /\ <<a, b, c>> # <<>>
  OBVIOUS
<1> QED
  BY <1>1, <1>2

LEMMA RangeOfThree ==
  ASSUME NEW a, NEW b, NEW c
  PROVE  Range(<<a, b, c>>) = {a, b, c}
BY DEF Range

LEMMA RangeOfTwo ==
  ASSUME NEW a, NEW b
  PROVE  Range(<<a, b>>) = {a, b}
BY DEF Range

LEMMA FirstReply ==
  ASSUME NEW v
  PROVE  Append(<<>>, v) = <<v>> /\ Len(<<v>>) = 1 /\ Len(<<>>) = 0 /\ <<v>> # <<>>
OBVIOUS
-----------------------------------------------------------------------------
(* Records *)

(* The other fields of a call stay. *)
Alike(q, r) == q.m = r.m /\ q.rooms = r.rooms /\ q.thread = r.thread /\ q.last = r.last

LEMMA FreesFields ==
  ASSUME NEW r \in Records, r.stack # <<>>
  PROVE  /\ Frees(r) \in Records /\ Alike(Frees(r), r)
         /\ Frees(r).stack = Tail(r.stack) /\ Frees(r).heap = r.heap \ {Head(r.stack)}
         /\ Frees(r).replies = r.replies
<1>1. Tail(r.stack) \in Seq(Frames) /\ r.heap \ {Top(r)} \in SUBSET Frames
  BY DEF Records
<1> QED
  BY <1>1 DEF Frees, Top, Alike, Records

LEMMA DropsFields ==
  ASSUME NEW r \in Records
  PROVE  /\ Drops(r) \in Records /\ Alike(Drops(r), r)
         /\ Drops(r).stack = <<>> /\ Drops(r).heap = r.heap /\ Drops(r).replies = r.replies
<1>1. <<>> \in Seq(Frames)
  OBVIOUS
<1> QED
  BY <1>1 DEF Drops, Alike, Records

LEMMA RepliesFields ==
  ASSUME NEW r \in Records, NEW v \in {"found", "error", "sent"}, r.replies = <<>>
  PROVE  /\ Replies(r, v) \in Records /\ Alike(Replies(r, v), r)
         /\ Replies(r, v).stack = r.stack /\ Replies(r, v).heap = r.heap
         /\ Replies(r, v).replies = <<v>>
<1>1. Append(r.replies, v) = <<v>> /\ <<v>> \in Seq({"found", "error", "sent"})
  BY FirstReply
<1> QED
  BY <1>1 DEF Replies, Alike, Records

LEMMA AskingFields ==
  ASSUME NEW r \in Records, NEW fs \in Seq(Frames), Range(fs) \subseteq Frames
  PROVE  /\ Asking(r, fs) \in Records /\ Alike(Asking(r, fs), r)
         /\ Asking(r, fs).stack = fs /\ Asking(r, fs).heap = r.heap \cup Range(fs)
         /\ Asking(r, fs).replies = r.replies
<1>1. r.heap \cup Range(fs) \in SUBSET Frames
  BY DEF Records
<1> QED
  BY <1>1 DEF Asking, Alike, Records

(* The outermost callback answers, and frees the last frame. *)
LEMMA CompletesFields ==
  ASSUME NEW r \in Records, NEW f, NEW v \in {"found", "error", "sent"},
         r.stack = <<f>>, r.heap = {f}, r.replies = <<>>
  PROVE  /\ Completes(r, v) \in Records /\ Alike(Completes(r, v), r)
         /\ Completes(r, v).stack = <<>> /\ Completes(r, v).heap = {}
         /\ Completes(r, v).replies = <<v>>
<1> PICK q : q = Replies(r, v)
  OBVIOUS
<1>1. q \in Records /\ Alike(q, r) /\ q.stack = <<f>> /\ q.heap = {f} /\ q.replies = <<v>>
  BY RepliesFields
<1>2. q.stack # <<>> /\ Tail(q.stack) = <<>> /\ Head(q.stack) = f
  BY <1>1, OneFrame
<1>3. /\ Frees(q) \in Records /\ Alike(Frees(q), q)
      /\ Frees(q).stack = <<>> /\ Frees(q).heap = {} /\ Frees(q).replies = <<v>>
  BY <1>1, <1>2, FreesFields
<1> QED
  BY <1>1, <1>3 DEF Completes, Alike

(* A frame inside frees itself and has the next one called. *)
LEMMA FreesTop ==
  ASSUME NEW r \in Records, NEW f, NEW g, f # g, r.stack = <<f, g>>, r.heap = {f, g}
  PROVE  /\ Frees(r) \in Records /\ Alike(Frees(r), r)
         /\ Frees(r).stack = <<g>> /\ Frees(r).heap = {g} /\ Frees(r).replies = r.replies
<1>1. r.stack # <<>> /\ Tail(r.stack) = <<g>> /\ Head(r.stack) = f
  BY TwoFrames
<1> QED
  BY <1>1, FreesFields

LEMMA FreesTopOfThree ==
  ASSUME NEW r \in Records, NEW f, NEW g, NEW h, f # g, f # h,
         r.stack = <<f, g, h>>, r.heap = {f, g, h}
  PROVE  /\ Frees(r) \in Records /\ Alike(Frees(r), r)
         /\ Frees(r).stack = <<g, h>> /\ Frees(r).heap = {g, h} /\ Frees(r).replies = r.replies
<1>1. r.stack # <<>> /\ Tail(r.stack) = <<g, h>> /\ Head(r.stack) = f
  BY ThreeFrames
<1> QED
  BY <1>1, FreesFields

(* Two frames at their end, the inner freed and the outer answering. *)
InTwo(r, f, g) ==
  f # g /\ r.stack = <<f, g>> /\ r.heap = {f, g} /\ r.replies = <<>>

LEMMA FreesAndCompletes ==
  ASSUME NEW r \in Records, NEW f, NEW g, NEW v \in {"found", "error", "sent"}, InTwo(r, f, g)
  PROVE  /\ Completes(Frees(r), v) \in Records /\ Alike(Completes(Frees(r), v), r)
         /\ Completes(Frees(r), v).stack = <<>> /\ Completes(Frees(r), v).heap = {}
         /\ Completes(Frees(r), v).replies = <<v>>
<1>1. /\ Frees(r) \in Records /\ Alike(Frees(r), r)
      /\ Frees(r).stack = <<g>> /\ Frees(r).heap = {g} /\ Frees(r).replies = <<>>
  BY FreesTop DEF InTwo
<1> QED
  BY <1>1, CompletesFields DEF Alike
-----------------------------------------------------------------------------
(* The calls *)

LEMMA CallStep ==
  ASSUME Inv, NEW c \in Calls, NEW q \in Records, Waiting(q) \/ Ended(q),
         calls' = [calls EXCEPT ![c] = q], UNCHANGED caches
  PROVE  Inv'
<1>1. calls \in [Calls -> Records]
  BY DEF Inv, TypeOK
<1>2. calls' \in [Calls -> Records] /\ \A d \in Calls : calls'[d] = IF d = c THEN q ELSE calls[d]
  BY <1>1
<1>3. \A d \in Calls : Waiting(calls'[d]) \/ Ended(calls'[d])
  BY <1>2 DEF Inv
<1>4. TypeOK'
  BY <1>2 DEF Inv, TypeOK, caches
<1>5. \A k \in Caches : CacheInv(k)'
  BY DEF Inv, CacheInv, DataOf, caches
<1>6. \A d \in Calls : (Waiting(calls[d]) \/ Ended(calls[d]))'
  BY <1>3
<1> QED
  BY <1>4, <1>5, <1>6 DEF Inv, caches

(* The record of a call that is answered differs in the answer. *)
LEMMA BecomesInv ==
  ASSUME Inv, NEW c \in Calls, NEW r \in Records, NEW v \in Results \cup Infos,
         Becomes(c, r, v), UNCHANGED caches,
         ASSUME NEW q \in Records, q.m = r.m, q.stack = r.stack, q.heap = r.heap,
                q.replies = r.replies, q.rooms = r.rooms, q.thread = r.thread, q.last = v
         PROVE  Waiting(q) \/ Ended(q)
  PROVE  Inv'
<1> DEFINE q == [r EXCEPT !.last = v]
<1>1. /\ q \in Records /\ q.m = r.m /\ q.stack = r.stack /\ q.heap = r.heap
      /\ q.replies = r.replies /\ q.rooms = r.rooms /\ q.thread = r.thread /\ q.last = v
  BY DEF Records
<1>2. calls' = [calls EXCEPT ![c] = q]
  BY DEF Becomes
<1> HIDE DEF q
<1>3. Waiting(q) \/ Ended(q)
  BY <1>1
<1> QED
  BY <1>1, <1>2, <1>3, CallStep

(* Who is asked for is waiting, in the chain that begins so. *)
LEMMA AsksWaits ==
  ASSUME Inv, NEW c \in Calls, NEW f, Asks(c, f)
  PROVE  /\ calls[c] \in Records /\ Waiting(calls[c]) /\ ~calls[c].thread
         /\ calls[c].stack # <<>> /\ Head(calls[c].stack) = f
BY DEF Inv, TypeOK, Asks, Ended, Top

(* The chains, by the frame whose request is under way. *)
LEMMA ChainOf ==
  ASSUME NEW r \in Records, Waiting(r), ~r.thread
  PROVE  /\ r.heap = Range(r.stack) /\ r.replies = <<>>
         /\ Head(r.stack) = "status" =>
              \/ r.m = "whois" /\ \E w \in {"whois_dbus", "whois_whisper"} :
                                    r.stack = <<"status", "cmd_whois", w>>
              \/ r.m = "last" /\ \E l \in {"last_dbus", "last_whisper"} :
                                   r.stack = <<"status", "cmd_last", l>>
              \/ r.m = "info" /\ r.stack = <<"status", "peer_info_dbus">>
              \/ r.m = "whisper" /\ r.stack = <<"status", "cmd_whisper">>
         /\ Head(r.stack) = "last_seen" =>
              r.m = "last" /\ \E l \in {"last_dbus", "last_whisper"}, g \in {"cmd_last", "seen_date"} :
                                r.stack = <<"last_seen", g, l>>
         /\ Head(r.stack) = "peer_info" => r.m = "info" /\ r.stack = <<"peer_info", "peer_info_dbus">>
         /\ Head(r.stack) = "send_invitation" =>
              r.m = "add" /\ r.stack = <<"send_invitation", "buddy_add_dbus">>
         /\ Head(r.stack) = "servers" =>
              r.m = "stats" /\ r.stack = <<"servers", "cmd_stats", "stats_dbus">>
         /\ Head(r.stack) = "gameroom_get" =>
              r.m = "rooms" /\ r.stack = <<"gameroom_get", "rooms_dbus">>
         /\ Head(r.stack) = "offers" => r.m = "offers" /\ r.stack = <<"offers", "offers_dbus">>
<1>1. Waits(r) /\ r.heap = Range(r.stack) /\ r.replies = <<>>
  BY DEF Waiting
<1>2. CASE r.m = "whois" /\ \E w \in {"whois_dbus", "whois_whisper"} :
                              r.stack = <<"status", "cmd_whois", w>>
  <2>1. Head(r.stack) = "status"
    BY <1>2, ThreeFrames
  <2> QED
    BY <1>1, <1>2, <2>1
<1>3. CASE r.m = "last" /\ \E l \in {"last_dbus", "last_whisper"} :
                             r.stack = <<"status", "cmd_last", l>>
  <2>1. Head(r.stack) = "status"
    BY <1>3, ThreeFrames
  <2> QED
    BY <1>1, <1>3, <2>1
<1>4. CASE r.m = "last" /\ \E l \in {"last_dbus", "last_whisper"}, g \in {"cmd_last", "seen_date"} :
                             r.stack = <<"last_seen", g, l>>
  <2>1. Head(r.stack) = "last_seen"
    BY <1>4, ThreeFrames
  <2> QED
    BY <1>1, <1>4, <2>1
<1>5. CASE r.m = "info" /\ r.stack = <<"status", "peer_info_dbus">>
  <2>1. Head(r.stack) = "status"
    BY <1>5, TwoFrames
  <2> QED
    BY <1>1, <1>5, <2>1
<1>6. CASE r.m = "info" /\ r.stack = <<"peer_info", "peer_info_dbus">>
  <2>1. Head(r.stack) = "peer_info"
    BY <1>6, TwoFrames
  <2> QED
    BY <1>1, <1>6, <2>1
<1>7. CASE r.m = "whisper" /\ r.stack = <<"status", "cmd_whisper">>
  <2>1. Head(r.stack) = "status"
    BY <1>7, TwoFrames
  <2> QED
    BY <1>1, <1>7, <2>1
<1>8. CASE r.m = "add" /\ r.stack = <<"send_invitation", "buddy_add_dbus">>
  <2>1. Head(r.stack) = "send_invitation"
    BY <1>8, TwoFrames
  <2> QED
    BY <1>1, <1>8, <2>1
<1>9. CASE r.m = "stats" /\ r.stack = <<"servers", "cmd_stats", "stats_dbus">>
  <2>1. Head(r.stack) = "servers"
    BY <1>9, ThreeFrames
  <2> QED
    BY <1>1, <1>9, <2>1
<1>10. CASE r.m = "rooms" /\ r.stack = <<"gameroom_get", "rooms_dbus">>
  <2>1. Head(r.stack) = "gameroom_get"
    BY <1>10, TwoFrames
  <2> QED
    BY <1>1, <1>10, <2>1
<1>11. CASE r.m = "offers" /\ r.stack = <<"offers", "offers_dbus">>
  <2>1. Head(r.stack) = "offers"
    BY <1>11, TwoFrames
  <2> QED
    BY <1>1, <1>11, <2>1
<1> QED
  BY <1>1, <1>2, <1>3, <1>4, <1>5, <1>6, <1>7, <1>8, <1>9, <1>10, <1>11 DEF Waits

(* A call with nothing left that was not about rooms is at its end. *)
LEMMA EndedClean ==
  ASSUME NEW q \in Records, q.stack = <<>>, ~q.thread, q.m # "rooms", q.heap = {} \/ Lossy(q),
         q.replies = <<>> \/ \E v : q.replies = <<v>>
  PROVE  Ended(q)
<1>1. CASE q.replies = <<>>
  BY <1>1, FirstReply DEF Ended
<1>2. CASE \E v : q.replies = <<v>>
  <2> PICK v : q.replies = <<v>>
    BY <1>2
  <2>1. Len(q.replies) = 1
    BY FirstReply
  <2> QED
    BY <2>1 DEF Ended
<1> QED
  BY <1>1, <1>2

(* The outermost callbacks of a chain all answer and free. *)
LEMMA Outermost ==
  ASSUME NEW r, NEW v
  PROVE  LastCb(r, v) = Completes(r, v) /\ WhoisTo(r, v) = Completes(r, v)
BY DEF LastCb, WhoisTo, LastDbusCb, LastWhisperCb, WhoisCb, WhoisWhisperCb

(* The answer to a request in a chain of two, that is passed on. *)
LEMMA PassedOn ==
  ASSUME Inv, NEW c \in Calls, NEW f, NEW g, f # g, NEW v \in Results \cup Infos,
         NEW w \in {"found", "error", "sent"}, calls[c] \in Records,
         ~calls[c].thread, calls[c].m # "rooms",
         calls[c].stack = <<f, g>>, calls[c].heap = Range(<<f, g>>), calls[c].replies = <<>>,
         Becomes(c, Completes(Frees(calls[c]), w), v), UNCHANGED caches
  PROVE  Inv'
<1> PICK r : r = Completes(Frees(calls[c]), w)
  OBVIOUS
<1>1. calls[c].heap = {f, g}
  BY TwoFrames
<1>2. /\ r \in Records /\ Alike(r, calls[c]) /\ r.stack = <<>> /\ r.heap = {}
      /\ r.replies = <<w>>
  <2> DEFINE b == calls[c]
  <2>1. b \in Records /\ InTwo(b, f, g)
    BY <1>1 DEF InTwo
  <2>2. r = Completes(Frees(b), w)
    OBVIOUS
  <2> HIDE DEF b
  <2>3. /\ Completes(Frees(b), w) \in Records /\ Alike(Completes(Frees(b), w), b)
        /\ Completes(Frees(b), w).stack = <<>> /\ Completes(Frees(b), w).heap = {}
        /\ Completes(Frees(b), w).replies = <<w>>
    BY <2>1, FreesAndCompletes
  <2> QED
    BY <2>2, <2>3 DEF b
<1>3. ASSUME NEW q \in Records, q.m = r.m, q.stack = r.stack, q.heap = r.heap,
             q.replies = r.replies, q.rooms = r.rooms, q.thread = r.thread, q.last = v
      PROVE  Waiting(q) \/ Ended(q)
  BY <1>2, <1>3, EndedClean DEF Alike
<1> QED
  BY <1>2, <1>3, BecomesInv
-----------------------------------------------------------------------------
LEMMA PeerPlayerInfoCbInv ==
  ASSUME Inv, NEW c \in Calls, NEW v \in Results, PeerPlayerInfoCb(c, v)
  PROVE  Inv'
<1>1. /\ Asks(c, "peer_info") /\ UNCHANGED caches
      /\ Becomes(c, Completes(Frees(calls[c]), IF v = "error" THEN v ELSE "found"), v)
  BY DEF PeerPlayerInfoCb, PeerPlayerInfoDbusCb
<1>2. /\ calls[c] \in Records /\ ~calls[c].thread /\ calls[c].m # "rooms"
      /\ calls[c].stack = <<"peer_info", "peer_info_dbus">>
      /\ calls[c].heap = Range(<<"peer_info", "peer_info_dbus">>) /\ calls[c].replies = <<>>
  BY <1>1, AsksWaits, ChainOf
<1>3. v \in Results \cup Infos /\ (IF v = "error" THEN v ELSE "found") \in {"found", "error", "sent"}
  OBVIOUS
<1> QED
  BY <1>1, <1>2, <1>3, PassedOn

LEMMA SendInvitationCbInv ==
  ASSUME Inv, NEW c \in Calls, NEW v \in Results, SendInvitationCb(c, v)
  PROVE  Inv'
<1>1. /\ Asks(c, "send_invitation") /\ UNCHANGED caches
      /\ Becomes(c, Completes(Frees(calls[c]), IF v = "error" THEN v ELSE "found"), v)
  BY DEF SendInvitationCb, BuddyAddCb
<1>2. /\ calls[c] \in Records /\ ~calls[c].thread /\ calls[c].m # "rooms"
      /\ calls[c].stack = <<"send_invitation", "buddy_add_dbus">>
      /\ calls[c].heap = Range(<<"send_invitation", "buddy_add_dbus">>) /\ calls[c].replies = <<>>
  BY <1>1, AsksWaits, ChainOf
<1>3. v \in Results \cup Infos /\ (IF v = "error" THEN v ELSE "found") \in {"found", "error", "sent"}
  OBVIOUS
<1> QED
  BY <1>1, <1>2, <1>3, PassedOn

(* What is dropped stays on the heap: the answers that Lossy names. *)
LEMMA Dropped ==
  ASSUME Inv, NEW c \in Calls, NEW r \in Records, NEW v \in Results \cup Infos,
         ~r.thread, r.replies = <<>>, r.m # "rooms",
         r.m = "last" => v \in {"error", "empty", "no_pid"},
         r.m # "last" => r.m \in {"stats", "offers"} /\ v \in {"error", "empty"},
         Becomes(c, Drops(r), v), UNCHANGED caches
  PROVE  Inv'
<1> PICK d : d = Drops(r)
  OBVIOUS
<1>1. d \in Records /\ Alike(d, r) /\ d.stack = <<>> /\ d.replies = <<>>
  BY DropsFields
<1>2. ASSUME NEW q \in Records, q.m = d.m, q.stack = d.stack, q.heap = d.heap,
             q.replies = d.replies, q.rooms = d.rooms, q.thread = d.thread, q.last = v
      PROVE  Waiting(q) \/ Ended(q)
  <2>1. Lossy(q)
    BY <1>1, <1>2 DEF Lossy, Alike
  <2> QED
    BY <1>1, <1>2, <2>1, EndedClean DEF Alike
<1> QED
  BY <1>1, <1>2, BecomesInv

(* The answer to a request in a chain of three, that is passed on at once. *)
LEMMA PassedOnTwice ==
  ASSUME Inv, NEW c \in Calls, NEW f, NEW g, NEW h, f # g, f # h, g # h,
         NEW v \in Results \cup Infos,
         NEW w \in {"found", "error", "sent"}, calls[c] \in Records,
         ~calls[c].thread, calls[c].m # "rooms",
         calls[c].stack = <<f, g, h>>, calls[c].heap = Range(<<f, g, h>>),
         calls[c].replies = <<>>,
         Becomes(c, Completes(Frees(Frees(calls[c])), w), v), UNCHANGED caches
  PROVE  Inv'
<1> PICK p : p = Frees(calls[c])
  OBVIOUS
<1> PICK r : r = Completes(Frees(p), w)
  OBVIOUS
<1>1. calls[c].heap = {f, g, h}
  BY RangeOfThree
<1>2. /\ p \in Records /\ Alike(p, calls[c]) /\ p.stack = <<g, h>> /\ p.heap = {g, h}
      /\ p.replies = <<>>
  BY <1>1, FreesTopOfThree
<1>3. /\ r \in Records /\ Alike(r, p) /\ r.stack = <<>> /\ r.heap = {}
      /\ r.replies = <<w>>
  <2> PICK o : o = Frees(p)
    OBVIOUS
  <2>1. /\ o \in Records /\ Alike(o, p) /\ o.stack = <<h>> /\ o.heap = {h}
        /\ o.replies = <<>>
    BY <1>2, FreesTop
  <2>2. /\ Completes(o, w) \in Records /\ Alike(Completes(o, w), o)
        /\ Completes(o, w).stack = <<>> /\ Completes(o, w).heap = {}
        /\ Completes(o, w).replies = <<w>>
    BY <2>1, CompletesFields
  <2> QED
    BY <2>1, <2>2 DEF Alike
<1>4. ASSUME NEW q \in Records, q.m = r.m, q.stack = r.stack, q.heap = r.heap,
             q.replies = r.replies, q.rooms = r.rooms, q.thread = r.thread, q.last = v
      PROVE  Waiting(q) \/ Ended(q)
  BY <1>2, <1>3, <1>4, EndedClean DEF Alike
<1> QED
  BY <1>3, <1>4, BecomesInv

LEMMA GetLastSeenDateCbInv ==
  ASSUME Inv, NEW c \in Calls, NEW v \in Results, GetLastSeenDateCb(c, v)
  PROVE  Inv'
<1>1. /\ calls[c] \in Records /\ ~calls[c].thread /\ calls[c].m = "last"
      /\ calls[c].heap = Range(calls[c].stack) /\ calls[c].replies = <<>>
      /\ \E l \in {"last_dbus", "last_whisper"}, g \in {"cmd_last", "seen_date"} :
           calls[c].stack = <<"last_seen", g, l>>
      /\ UNCHANGED caches
  BY AsksWaits, ChainOf DEF GetLastSeenDateCb
<1> PICK l \in {"last_dbus", "last_whisper"}, g \in {"cmd_last", "seen_date"} :
      calls[c].stack = <<"last_seen", g, l>>
  BY <1>1
<1>2. CASE v = "ok"
  <2>1. Becomes(c, Completes(Frees(Frees(calls[c])), "found"), v)
    BY <1>2, Outermost DEF GetLastSeenDateCb, LastSeenDateCb
  <2> QED
    BY <1>1, <2>1, PassedOnTwice
<1>3. CASE v = "error"
  <2>1. Becomes(c, Drops(Frees(calls[c])), v)
    BY <1>3 DEF GetLastSeenDateCb
  <2>2. /\ Frees(calls[c]) \in Records /\ Alike(Frees(calls[c]), calls[c])
        /\ Frees(calls[c]).replies = <<>>
    <3>1. calls[c].stack # <<>>
      BY <1>1, ThreeFrames
    <3> QED
      BY <1>1, <3>1, FreesFields
  <2> QED
    BY <1>1, <1>3, <2>1, <2>2, Dropped DEF Alike
<1>4. CASE v = "empty"
  <2>1. Becomes(c, Drops(calls[c]), v)
    BY <1>4 DEF GetLastSeenDateCb
  <2> QED
    BY <1>1, <1>4, <2>1, Dropped
<1> QED
  BY <1>2, <1>3, <1>4 DEF Results

LEMMA GetMasterServersCbInv ==
  ASSUME Inv, NEW c \in Calls, NEW v \in Results, GetMasterServersCb(c, v)
  PROVE  Inv'
<1>1. /\ calls[c] \in Records /\ ~calls[c].thread /\ calls[c].m = "stats"
      /\ calls[c].heap = Range(calls[c].stack) /\ calls[c].replies = <<>>
      /\ calls[c].stack = <<"servers", "cmd_stats", "stats_dbus">>
      /\ UNCHANGED caches
  BY AsksWaits, ChainOf DEF GetMasterServersCb
<1>2. CASE v = "ok"
  <2>1. Becomes(c, Completes(Frees(Frees(calls[c])), "found"), v)
    BY <1>2 DEF GetMasterServersCb, CmdStatsCb, ChannelStatsCb
  <2> QED
    BY <1>1, <2>1, PassedOnTwice
<1>3. CASE v # "ok"
  <2>1. Becomes(c, Drops(Frees(calls[c])), v)
    BY <1>3 DEF GetMasterServersCb
  <2>2. /\ Frees(calls[c]) \in Records /\ Alike(Frees(calls[c]), calls[c])
        /\ Frees(calls[c]).replies = <<>>
    <3>1. calls[c].stack # <<>>
      BY <1>1, ThreeFrames
    <3> QED
      BY <1>1, <3>1, FreesFields
  <2>3. v \in {"error", "empty"}
    BY <1>3 DEF Results
  <2> QED
    BY <1>1, <2>1, <2>2, <2>3, Dropped DEF Alike
<1> QED
  BY <1>2, <1>3

LEMMA ShopGetOffersCbInv ==
  ASSUME Inv, NEW c \in Calls, NEW v \in Results, ShopGetOffersCb(c, v)
  PROVE  Inv'
<1>1. /\ calls[c] \in Records /\ ~calls[c].thread /\ calls[c].m = "offers"
      /\ calls[c].heap = Range(calls[c].stack) /\ calls[c].replies = <<>>
      /\ calls[c].stack = <<"offers", "offers_dbus">>
      /\ UNCHANGED caches
  BY AsksWaits, ChainOf DEF ShopGetOffersCb
<1>2. CASE v = "ok"
  <2>1. Becomes(c, Completes(Frees(calls[c]), "found"), v)
    BY <1>2 DEF ShopGetOffersCb, ShopOffersCb
  <2> QED
    BY <1>1, <2>1, PassedOn
<1>3. CASE v # "ok"
  <2>1. Becomes(c, Drops(Frees(calls[c])), v)
    BY <1>3 DEF ShopGetOffersCb
  <2>2. /\ Frees(calls[c]) \in Records /\ Alike(Frees(calls[c]), calls[c])
        /\ Frees(calls[c]).replies = <<>>
    <3>1. calls[c].stack # <<>>
      BY <1>1, TwoFrames
    <3> QED
      BY <1>1, <3>1, FreesFields
  <2>3. v \in {"error", "empty"}
    BY <1>3 DEF Results
  <2> QED
    BY <1>1, <2>1, <2>2, <2>3, Dropped DEF Alike
<1> QED
  BY <1>2, <1>3

(* The list of rooms is answered when no page is left. *)
LEMMA RoomsAnswered ==
  ASSUME Inv, NEW c \in Calls, NEW r \in Records, NEW v \in Results \cup Infos,
         NEW w \in {"found", "error"}, ~r.thread, r.m = "rooms",
         r.stack = <<"gameroom_get", "rooms_dbus">>, r.heap = Range(r.stack), r.replies = <<>>,
         w = "found" => r.rooms = Rooms,
         Becomes(c, RoomGetCb(Frees(r), w), v), UNCHANGED caches
  PROVE  Inv'
<1> PICK p : p = Frees(r)
  OBVIOUS
<1> PICK s : s = Replies(p, w)
  OBVIOUS
<1> PICK d : d = Drops(s)
  OBVIOUS
<1>1. p \in Records /\ Alike(p, r) /\ p.replies = <<>>
  <2>1. r.stack # <<>>
    BY TwoFrames
  <2> QED
    BY <2>1, FreesFields
<1>2. s \in Records /\ Alike(s, p) /\ s.replies = <<w>>
  BY <1>1, RepliesFields
<1>3. d \in Records /\ Alike(d, r) /\ d.stack = <<>> /\ d.replies = <<w>>
  BY <1>1, <1>2, DropsFields DEF Alike
<1>4. Becomes(c, d, v)
  BY DEF RoomGetCb
<1>5. ASSUME NEW q \in Records, q.m = d.m, q.stack = d.stack, q.heap = d.heap,
             q.replies = d.replies, q.rooms = d.rooms, q.thread = d.thread, q.last = v
      PROVE  Waiting(q) \/ Ended(q)
  <2>1. Len(q.replies) <= 1
    BY <1>3, <1>5, FirstReply
  <2>2. q.replies = <<"found">> => w = "found"
    BY <1>3, <1>5
  <2> QED
    BY <1>3, <1>5, <2>1, <2>2 DEF Ended, Alike
<1> QED
  BY <1>3, <1>4, <1>5, BecomesInv

LEMMA GameroomGetCbInv ==
  ASSUME Inv, NEW c \in Calls, NEW v \in Results, GameroomGetCb(c, v)
  PROVE  Inv'
<1> PICK r : r = calls[c]
  OBVIOUS
<1>1. /\ r \in Records /\ ~r.thread /\ r.m = "rooms"
      /\ r.heap = Range(r.stack) /\ r.replies = <<>>
      /\ r.stack = <<"gameroom_get", "rooms_dbus">>
      /\ UNCHANGED caches /\ v \in Results \cup Infos /\ Waiting(r)
  BY AsksWaits, ChainOf DEF GameroomGetCb
<1>2. r.rooms \in 0 .. Rooms
  BY <1>1 DEF Records
<1>3. /\ Page(c) \in Nat /\ r.rooms + Page(c) \in 0 .. Rooms
      /\ Left(c) = Rooms - r.rooms - Page(c)
  BY <1>2, LookupsAssumption DEF Page, Smaller, Left
<1> DEFINE p == [r EXCEPT !.rooms = @ + Page(c)]
<1>4. /\ p \in Records /\ p.m = r.m /\ p.stack = r.stack /\ p.heap = r.heap
      /\ p.replies = r.replies /\ p.thread = r.thread /\ p.last = r.last
      /\ p.rooms = r.rooms + Page(c)
  BY <1>1, <1>3 DEF Records
<1>5. GameroomGetPage(c) = p
  BY DEF GameroomGetPage
<1> HIDE DEF p
<1>6. CASE v # "ok"
  <2>1. Becomes(c, RoomGetCb(Frees(r), "error"), v)
    BY <1>6 DEF GameroomGetCb
  <2> QED
    BY <1>1, <2>1, RoomsAnswered
<1>7. CASE v = "ok" /\ Left(c) > 0
  <2>1. Becomes(c, p, v)
    BY <1>5, <1>7 DEF GameroomGetCb
  <2>2. ASSUME NEW q \in Records, q.m = p.m, q.stack = p.stack, q.heap = p.heap,
               q.replies = p.replies, q.rooms = p.rooms, q.thread = p.thread, q.last = v
        PROVE  Waiting(q) \/ Ended(q)
    BY <1>1, <1>4, <2>2 DEF Waiting, Waits
  <2> QED
    BY <1>1, <1>4, <2>1, <2>2, BecomesInv
<1>8. CASE v = "ok" /\ ~(Left(c) > 0)
  <2>1. Becomes(c, RoomGetCb(Frees(p), "found"), v)
    BY <1>5, <1>8 DEF GameroomGetCb
  <2>2. p.rooms = Rooms
    BY <1>2, <1>3, <1>4, <1>8, LookupsAssumption
  <2> QED
    BY <1>1, <1>4, <2>1, <2>2, RoomsAnswered
<1> QED
  BY <1>6, <1>7, <1>8
-----------------------------------------------------------------------------
(* A call is the record r but for its last answer. *)
Answers(q, r, v) ==
  /\ q.m = r.m /\ q.stack = r.stack /\ q.heap = r.heap /\ q.replies = r.replies
  /\ q.rooms = r.rooms /\ q.thread = r.thread /\ q.last = v

(* Whoever is answered with r waits on, or is at its end. *)
GoesOn(r, v) ==
  r \in Records /\ \A q \in Records : Answers(q, r, v) => Waiting(q) \/ Ended(q)

LEMMA EndsClean ==
  ASSUME NEW r \in Records, NEW v, r.stack = <<>>, r.heap = {}, ~r.thread, r.m # "rooms",
         r.replies = <<>> \/ \E w : r.replies = <<w>>
  PROVE  GoesOn(r, v)
BY EndedClean DEF GoesOn, Answers

(* A chain of two, as it is when its request has been freed. *)
Chain(p, m, g, h) ==
  /\ p \in Records /\ p.m = m /\ p.stack = <<g, h>> /\ p.heap = {g, h}
  /\ p.replies = <<>> /\ ~p.thread

LEMMA EndsOfChain ==
  ASSUME NEW p, NEW m, NEW g, NEW h, Chain(p, m, g, h), g # h,
         NEW w \in {"found", "error", "sent"}
  PROVE  LET r == Completes(Frees(p), w)
         IN  /\ r \in Records /\ r.m = m /\ r.stack = <<>> /\ r.heap = {}
             /\ r.replies = <<w>> /\ ~r.thread
<1> PICK o : o = Frees(p)
  OBVIOUS
<1>1. /\ o \in Records /\ Alike(o, p) /\ o.stack = <<h>> /\ o.heap = {h}
      /\ o.replies = <<>>
  BY FreesTop DEF Chain
<1>2. /\ Completes(o, w) \in Records /\ Alike(Completes(o, w), o)
      /\ Completes(o, w).stack = <<>> /\ Completes(o, w).heap = {}
      /\ Completes(o, w).replies = <<w>>
  BY <1>1, CompletesFields
<1> QED
  BY <1>1, <1>2 DEF Alike, Chain

LEMMA TopOfChain ==
  ASSUME NEW p, NEW m, NEW g, NEW h, Chain(p, m, g, h)
  PROVE  Top(p) = g /\ p.stack # <<>>
<1>1. p.stack = <<g, h>>
  BY DEF Chain
<1> QED
  BY <1>1, TwoFrames DEF Top

(* cmd_whois_cb(): answered, or on its way in a thread. *)
LEMMA WhoisOfChain ==
  ASSUME NEW p, NEW w \in {"whois_dbus", "whois_whisper"}, Chain(p, "whois", "cmd_whois", w),
         NEW info \in Infos, NEW r, r = CmdWhoisCb(p, info)
  PROVE  GoesOn(r, info)
<1>1. CASE info \in {"none", "no_ip"}
  <2> PICK v \in {"found", "error", "sent"} : r = Completes(Frees(p), v)
    BY <1>1, Outermost DEF CmdWhoisCb, WhoisComplete
  <2>1. /\ r \in Records /\ r.m = "whois" /\ r.stack = <<>> /\ r.heap = {}
        /\ r.replies = <<v>> /\ ~r.thread
    BY EndsOfChain
  <2> QED
    BY <2>1, EndsClean
<1>2. CASE info \notin {"none", "no_ip"}
  <2>1. r = [p EXCEPT !.thread = TRUE]
    BY <1>2 DEF CmdWhoisCb
  <2>2. /\ r \in Records /\ r.thread /\ r.m = "whois" /\ r.stack = <<"cmd_whois", w>>
        /\ r.heap = {"cmd_whois", w} /\ r.replies = <<>>
    BY <2>1 DEF Chain, Records
  <2>3. r.heap = Range(r.stack)
    BY <2>2, RangeOfTwo
  <2> QED
    BY <2>2, <2>3 DEF GoesOn, Answers, Waiting, Waits
<1> QED
  BY <1>1, <1>2

(* cmd_last_cb(): answered, lost without a profile, or asking on. *)
LEMMA LastOfChain ==
  ASSUME NEW p, NEW l \in {"last_dbus", "last_whisper"}, Chain(p, "last", "cmd_last", l),
         NEW info \in Infos, NEW r, r = CmdLastCb(p, info)
  PROVE  GoesOn(r, info)
<1>1. CASE info = "none"
  <2>1. r = Completes(Frees(p), "error")
    BY <1>1, Outermost DEF CmdLastCb
  <2>2. /\ r \in Records /\ r.m = "last" /\ r.stack = <<>> /\ r.heap = {}
        /\ r.replies = <<"error">> /\ ~r.thread
    BY <2>1, EndsOfChain
  <2> QED
    BY <2>2, EndsClean
<1>2. CASE info = "no_pid"
  <2>1. r = Drops(p)
    BY <1>2 DEF CmdLastCb
  <2>2. /\ r \in Records /\ r.m = "last" /\ r.stack = <<>> /\ r.replies = <<>> /\ ~r.thread
    BY <2>1, DropsFields DEF Chain, Alike
  <2> SUFFICES ASSUME NEW q \in Records, Answers(q, r, info) PROVE Ended(q)
    BY <2>2 DEF GoesOn
  <2>3. Lossy(q)
    BY <1>2, <2>2 DEF Lossy, Answers
  <2> QED
    BY <2>2, <2>3, EndedClean DEF Answers
<1>3. CASE info \notin {"none", "no_pid"}
  <2> PICK fs : fs = <<"last_seen", "cmd_last", l>>
    OBVIOUS
  <2>1. p.stack = <<"cmd_last", l>> /\ p \in Records
    BY DEF Chain
  <2>2. GetLastSeenDate(p.stack) = fs
    BY <2>1, OnTopOfTwo DEF GetLastSeenDate
  <2>3. r = Asking(p, fs)
    BY <1>3, <2>2 DEF CmdLastCb
  <2>4. fs \in Seq(Frames)
    BY DEF Frames
  <2>5. Range(fs) = {"last_seen", "cmd_last", l}
    BY RangeOfThree
  <2>6. Range(fs) \subseteq Frames
    BY <2>5 DEF Frames
  <2>7. /\ r \in Records /\ Alike(r, p) /\ r.stack = fs
        /\ r.heap = p.heap \cup Range(fs) /\ r.replies = p.replies
    <3>1. /\ Asking(p, fs) \in Records /\ Alike(Asking(p, fs), p) /\ Asking(p, fs).stack = fs
          /\ Asking(p, fs).heap = p.heap \cup Range(fs) /\ Asking(p, fs).replies = p.replies
      BY <2>1, <2>4, <2>6, AskingFields
    <3> QED
      BY <2>3, <3>1
  <2>8. r.heap = Range(fs)
    BY <2>5, <2>7 DEF Chain
  <2>9. r.m = "last" /\ ~r.thread /\ r.replies = <<>>
    BY <2>7 DEF Chain, Alike
  <2> QED
    BY <2>7, <2>8, <2>9 DEF GoesOn, Answers, Waiting, Waits
<1> QED
  BY <1>1, <1>2, <1>3

(* cmd_profile_info_get_status_dbus_cb(): answered, the end of the client, or asking on. *)
LEMMA PeerOfChain ==
  ASSUME NEW p \in Records, p.m = "info", p.stack = <<"peer_info_dbus">>,
         p.heap = {"peer_info_dbus"}, p.replies = <<>>, ~p.thread,
         NEW info \in Infos, NEW r, r = PeerStatusCb(p, info)
  PROVE  GoesOn(r, info)
<1>1. CASE info = "none"
  <2>1. r = Completes(p, "error")
    BY <1>1 DEF PeerStatusCb, PeerPlayerInfoDbusCb
  <2>2. /\ r \in Records /\ Alike(r, p) /\ r.stack = <<>> /\ r.heap = {}
        /\ r.replies = <<"error">>
    BY <2>1, CompletesFields
  <2> QED
    BY <2>2, EndsClean DEF Alike
<1>2. CASE info = "no_jid"
  <2>1. r = Drops(p)
    BY <1>2 DEF PeerStatusCb
  <2>2. /\ r \in Records /\ r.m = "info" /\ r.stack = <<>> /\ r.replies = <<>> /\ ~r.thread
    BY <2>1, DropsFields DEF Alike
  <2> SUFFICES ASSUME NEW q \in Records, Answers(q, r, info) PROVE Ended(q)
    BY <2>2 DEF GoesOn
  <2>3. Lossy(q)
    BY <1>2, <2>2 DEF Lossy, Answers
  <2> QED
    BY <2>2, <2>3, EndedClean DEF Answers
<1>3. CASE info \notin {"none", "no_jid"}
  <2> PICK fs : fs = <<"peer_info", "peer_info_dbus">>
    OBVIOUS
  <2>1. PeerPlayerInfoOf(p.stack) = fs
    BY TwoFrames DEF PeerPlayerInfoOf
  <2>2. r = Asking(p, fs)
    BY <1>3, <2>1 DEF PeerStatusCb
  <2>3. fs \in Seq(Frames)
    BY DEF Frames
  <2>4. Range(fs) = {"peer_info", "peer_info_dbus"}
    BY RangeOfTwo
  <2>5. Range(fs) \subseteq Frames
    BY <2>4 DEF Frames
  <2>6. /\ Asking(p, fs) \in Records /\ Alike(Asking(p, fs), p) /\ Asking(p, fs).stack = fs
        /\ Asking(p, fs).heap = p.heap \cup Range(fs) /\ Asking(p, fs).replies = p.replies
    BY <2>3, <2>5, AskingFields
  <2>7. r.heap = Range(fs)
    BY <2>2, <2>4, <2>6
  <2> QED
    BY <2>2, <2>6, <2>7 DEF GoesOn, Answers, Waiting, Waits, Alike
<1> QED
  BY <1>1, <1>2, <1>3

(* cmd_whisper_cb(): the end, sent or not. *)
LEMMA WhisperOfChain ==
  ASSUME NEW p \in Records, p.m = "whisper", p.stack = <<"cmd_whisper">>,
         p.heap = {"cmd_whisper"}, p.replies = <<>>, ~p.thread,
         NEW info \in Infos, NEW r, r = CmdWhisperCb(p, info)
  PROVE  GoesOn(r, info)
<1>1. CASE info \in NoAddressee
  <2>1. r = Frees(p)
    BY <1>1 DEF CmdWhisperCb
  <2>2. p.stack # <<>> /\ Tail(p.stack) = <<>> /\ Head(p.stack) = "cmd_whisper"
    BY OneFrame
  <2>3. /\ r \in Records /\ Alike(r, p) /\ r.stack = <<>> /\ r.heap = {} /\ r.replies = <<>>
    BY <2>1, <2>2, FreesFields
  <2> QED
    BY <2>3, EndsClean DEF Alike
<1>2. CASE info \notin NoAddressee
  <2>1. r = Completes(p, "sent")
    BY <1>2 DEF CmdWhisperCb, Completes
  <2>2. /\ r \in Records /\ Alike(r, p) /\ r.stack = <<>> /\ r.heap = {}
        /\ r.replies = <<"sent">>
    BY <2>1, CompletesFields
  <2> QED
    BY <2>2, EndsClean DEF Alike
<1> QED
  BY <1>1, <1>2

LEMMA FreesStatus ==
  ASSUME NEW s \in Records, NEW g, NEW h, s.stack = <<"status", g, h>>, s.heap = Range(s.stack),
         g # "status", h # "status", s.replies = <<>>, ~s.thread
  PROVE  Chain(Frees(s), s.m, g, h)
<1>1. s.heap = {"status", g, h}
  BY RangeOfThree
<1> QED
  BY <1>1, FreesTopOfThree DEF Chain, Alike

LEMMA ProfileInfoGetStatusCbInv ==
  ASSUME Inv, NEW c \in Calls, NEW info \in Infos, ProfileInfoGetStatusCb(c, info)
  PROVE  Inv'
<1> PICK s : s = calls[c]
  OBVIOUS
<1> PICK p : p = Frees(s)
  OBVIOUS
<1> PICK r : r = StatusCb(p, info)
  OBVIOUS
<1>1. Becomes(c, r, info) /\ UNCHANGED caches /\ info \in Results \cup Infos
  BY DEF ProfileInfoGetStatusCb
<1>2. s \in Records /\ ~s.thread /\ s.heap = Range(s.stack) /\ s.replies = <<>>
  BY AsksWaits, ChainOf DEF ProfileInfoGetStatusCb
<1>3. \/ s.m = "whois" /\ \E w \in {"whois_dbus", "whois_whisper"} :
                            s.stack = <<"status", "cmd_whois", w>>
      \/ s.m = "last" /\ \E l \in {"last_dbus", "last_whisper"} :
                           s.stack = <<"status", "cmd_last", l>>
      \/ s.m = "info" /\ s.stack = <<"status", "peer_info_dbus">>
      \/ s.m = "whisper" /\ s.stack = <<"status", "cmd_whisper">>
  BY AsksWaits, ChainOf DEF ProfileInfoGetStatusCb
<1>4. GoesOn(r, info)
  <2>1. CASE s.m = "whois" /\ \E w \in {"whois_dbus", "whois_whisper"} :
                                s.stack = <<"status", "cmd_whois", w>>
    <3> PICK w \in {"whois_dbus", "whois_whisper"} : s.stack = <<"status", "cmd_whois", w>>
      BY <2>1
    <3>1. Chain(p, "whois", "cmd_whois", w)
      BY <1>2, <2>1, FreesStatus
    <3>2. r = CmdWhoisCb(p, info)
      BY <3>1, TopOfChain DEF StatusCb
    <3> QED
      BY <3>1, <3>2, WhoisOfChain
  <2>2. CASE s.m = "last" /\ \E l \in {"last_dbus", "last_whisper"} :
                               s.stack = <<"status", "cmd_last", l>>
    <3> PICK l \in {"last_dbus", "last_whisper"} : s.stack = <<"status", "cmd_last", l>>
      BY <2>2
    <3>1. Chain(p, "last", "cmd_last", l)
      BY <1>2, <2>2, FreesStatus
    <3>2. r = CmdLastCb(p, info)
      BY <3>1, TopOfChain DEF StatusCb
    <3> QED
      BY <3>1, <3>2, LastOfChain
  <2>3. CASE s.m = "info" /\ s.stack = <<"status", "peer_info_dbus">>
    <3>1. s.heap = {"status", "peer_info_dbus"}
      BY <1>2, <2>3, RangeOfTwo
    <3>2. /\ p \in Records /\ Alike(p, s) /\ p.stack = <<"peer_info_dbus">>
          /\ p.heap = {"peer_info_dbus"} /\ p.replies = <<>>
      BY <1>2, <2>3, <3>1, FreesTop
    <3>3. r = PeerStatusCb(p, info)
      BY <3>2, OneFrame DEF StatusCb, Top
    <3> QED
      BY <1>2, <2>3, <3>2, <3>3, PeerOfChain DEF Alike
  <2>4. CASE s.m = "whisper" /\ s.stack = <<"status", "cmd_whisper">>
    <3>1. s.heap = {"status", "cmd_whisper"}
      BY <1>2, <2>4, RangeOfTwo
    <3>2. /\ p \in Records /\ Alike(p, s) /\ p.stack = <<"cmd_whisper">>
          /\ p.heap = {"cmd_whisper"} /\ p.replies = <<>>
      BY <1>2, <2>4, <3>1, FreesTop
    <3>3. r = CmdWhisperCb(p, info)
      BY <3>2, OneFrame DEF StatusCb, Top
    <3> QED
      BY <1>2, <2>4, <3>2, <3>3, WhisperOfChain DEF Alike
  <2> QED
    BY <1>3, <2>1, <2>2, <2>3, <2>4
<1> QED
  BY <1>1, <1>4, BecomesInv DEF GoesOn, Answers

(* thread_get_geoloc(): the end of a whois, from its own thread. *)
LEMMA GetGeolocInv ==
  ASSUME Inv, NEW c \in Calls, GetGeoloc(c)
  PROVE  Inv'
<1> PICK p : p = calls[c]
  OBVIOUS
<1> PICK r : r = WhoisComplete(p)
  OBVIOUS
<1>1. /\ p.thread /\ p \in Records /\ UNCHANGED caches
      /\ calls' = [calls EXCEPT ![c] = [r EXCEPT !.thread = FALSE]]
  BY DEF GetGeoloc, Inv, TypeOK
<1>2. Waiting(p)
  BY <1>1 DEF Inv, Ended
<1>3. /\ p.heap = Range(p.stack) /\ p.replies = <<>> /\ p.m = "whois"
      /\ \E w \in {"whois_dbus", "whois_whisper"} : p.stack = <<"cmd_whois", w>>
  BY <1>1, <1>2 DEF Waiting, Waits
<1> PICK w \in {"whois_dbus", "whois_whisper"} : p.stack = <<"cmd_whois", w>>
  BY <1>3
<1>4. p.heap = {"cmd_whois", w}
  BY <1>3, RangeOfTwo
<1> PICK o : o = Frees(p)
  OBVIOUS
<1>5. /\ o \in Records /\ Alike(o, p) /\ o.stack = <<w>> /\ o.heap = {w} /\ o.replies = <<>>
  BY <1>1, <1>3, <1>4, FreesTop
<1>6. r = Completes(o, "found")
  BY Outermost DEF WhoisComplete
<1>7. /\ r \in Records /\ Alike(r, o) /\ r.stack = <<>> /\ r.heap = {}
      /\ r.replies = <<"found">>
  BY <1>5, <1>6, CompletesFields
<1> DEFINE q == [r EXCEPT !.thread = FALSE]
<1>8. /\ q \in Records /\ q.m = r.m /\ q.stack = r.stack /\ q.heap = r.heap
      /\ q.replies = r.replies /\ ~q.thread
  BY <1>7 DEF Records
<1> HIDE DEF q
<1>9. Ended(q)
  <2>1. q.m = "whois" /\ q.stack = <<>> /\ q.heap = {} /\ q.replies = <<"found">>
    BY <1>3, <1>5, <1>7, <1>8 DEF Alike
  <2> QED
    BY <1>8, <2>1, EndedClean
<1>10. calls' = [calls EXCEPT ![c] = q]
  BY <1>1 DEF q
<1> QED
  BY <1>1, <1>8, <1>9, <1>10, CallStep

LEMMA AnswerInv == ASSUME Inv, NEW c \in Calls, Answer(c) PROVE Inv'
<1>1. ASSUME NEW info \in Infos, ProfileInfoGetStatusCb(c, info) PROVE Inv'
  BY <1>1, ProfileInfoGetStatusCbInv
<1>2. ASSUME NEW v \in Results,
             \/ GetLastSeenDateCb(c, v) \/ PeerPlayerInfoCb(c, v) \/ SendInvitationCb(c, v)
             \/ GetMasterServersCb(c, v) \/ GameroomGetCb(c, v) \/ ShopGetOffersCb(c, v)
      PROVE  Inv'
  BY <1>2, GetLastSeenDateCbInv, PeerPlayerInfoCbInv, SendInvitationCbInv,
     GetMasterServersCbInv, GameroomGetCbInv, ShopGetOffersCbInv
<1> QED
  BY <1>1, <1>2, GetGeolocInv DEF Answer
-----------------------------------------------------------------------------
(* A call begins in its chain, which it may wait in, with every frame of it allocated. *)
MayWaitIn(m, fs) == \A q \in Records : q.m = m /\ q.stack = fs /\ ~q.thread => Waits(q)

LEMMA BeginsInv ==
  ASSUME Inv, NEW c \in Calls, NEW m \in Lookup, NEW fs \in Seq(Frames),
         Range(fs) \subseteq Frames, Begins(c, m, fs),
         MayWaitIn(m, fs)
  PROVE  Inv'
<1> DEFINE q == [NoCall EXCEPT !.m = m, !.stack = fs, !.heap = Range(fs)]
<1>1. NoCall.thread = FALSE /\ NoCall.replies = <<>> /\ NoCall \in Records
  BY LookupsAssumption DEF NoCall, Records, Infos, Results, Lookup, Frames
<1>2. /\ q \in Records /\ q.m = m /\ q.stack = fs /\ q.heap = Range(fs)
      /\ q.replies = <<>> /\ ~q.thread
  BY <1>1 DEF Records
<1>3. calls' = [calls EXCEPT ![c] = q] /\ UNCHANGED caches
  BY DEF Begins
<1> HIDE DEF q
<1>4. Waits(q)
  BY <1>2 DEF MayWaitIn
<1> QED
  BY <1>2, <1>3, <1>4, CallStep DEF Waiting

LEMMA BeginsTwo ==
  ASSUME Inv, NEW c \in Calls, NEW m \in Lookup, NEW f \in Frames, NEW g \in Frames,
         Begins(c, m, <<f, g>>),
         MayWaitIn(m, <<f, g>>)
  PROVE  Inv'
<1>1. <<f, g>> \in Seq(Frames)
  OBVIOUS
<1>2. Range(<<f, g>>) \subseteq Frames
  BY RangeOfTwo
<1> QED
  BY <1>1, <1>2, BeginsInv

LEMMA BeginsThree ==
  ASSUME Inv, NEW c \in Calls, NEW m \in Lookup, NEW f \in Frames, NEW g \in Frames,
         NEW h \in Frames, Begins(c, m, <<f, g, h>>),
         MayWaitIn(m, <<f, g, h>>)
  PROVE  Inv'
<1>1. <<f, g, h>> \in Seq(Frames)
  OBVIOUS
<1>2. Range(<<f, g, h>>) \subseteq Frames
  BY RangeOfThree
<1> QED
  BY <1>1, <1>2, BeginsInv

LEMMA CmdWhoisInv ==
  ASSUME Inv, NEW c \in Calls, NEW w \in {"whois_dbus", "whois_whisper"}, CmdWhois(c, w)
  PROVE  Inv'
<1>1. ProfileInfoGetStatus(<<"cmd_whois", w>>) = <<"status", "cmd_whois", w>>
  BY OnTopOfTwo DEF ProfileInfoGetStatus
<1>2. Begins(c, "whois", <<"status", "cmd_whois", w>>)
  BY <1>1 DEF CmdWhois
<1>3. "whois" \in Lookup /\ "status" \in Frames /\ "cmd_whois" \in Frames /\ w \in Frames
  BY DEF Lookup, Frames
<1>4. MayWaitIn("whois", <<"status", "cmd_whois", w>>)
  BY DEF MayWaitIn, Waits
<1> QED
  BY <1>2, <1>3, <1>4, BeginsThree

LEMMA CmdLastPidInv ==
  ASSUME Inv, NEW c \in Calls, NEW l \in {"last_dbus", "last_whisper"}, CmdLastPid(c, l)
  PROVE  Inv'
<1>1. GetLastSeenDate(<<"seen_date", l>>) = <<"last_seen", "seen_date", l>>
  BY OnTopOfTwo DEF GetLastSeenDate
<1>2. Begins(c, "last", <<"last_seen", "seen_date", l>>)
  BY <1>1 DEF CmdLastPid
<1>3. "last" \in Lookup /\ "last_seen" \in Frames /\ "seen_date" \in Frames /\ l \in Frames
  BY DEF Lookup, Frames
<1>4. MayWaitIn("last", <<"last_seen", "seen_date", l>>)
  BY DEF MayWaitIn, Waits
<1> QED
  BY <1>2, <1>3, <1>4, BeginsThree

LEMMA CmdLastInv ==
  ASSUME Inv, NEW c \in Calls, NEW l \in {"last_dbus", "last_whisper"}, CmdLast(c, l)
  PROVE  Inv'
<1>1. CASE Begins(c, "last", ProfileInfoGetStatus(<<"cmd_last", l>>))
  <2>1. ProfileInfoGetStatus(<<"cmd_last", l>>) = <<"status", "cmd_last", l>>
    BY OnTopOfTwo DEF ProfileInfoGetStatus
  <2>2. Begins(c, "last", <<"status", "cmd_last", l>>)
    BY <1>1, <2>1
  <2>3. "last" \in Lookup /\ "status" \in Frames /\ "cmd_last" \in Frames /\ l \in Frames
    BY DEF Lookup, Frames
  <2>4. MayWaitIn("last", <<"status", "cmd_last", l>>)
    BY DEF MayWaitIn, Waits
  <2> QED
    BY <2>2, <2>3, <2>4, BeginsThree
<1> QED
  BY <1>1, CmdLastPidInv DEF CmdLast

LEMMA PlayerPeerInfoInv ==
  ASSUME Inv, NEW c \in Calls, PlayerPeerInfo(c)
  PROVE  Inv'
<1>1. /\ PeerPlayerInfoOf(<<"peer_info_dbus">>) = <<"peer_info", "peer_info_dbus">>
      /\ ProfileInfoGetStatus(<<"peer_info_dbus">>) = <<"status", "peer_info_dbus">>
  BY TwoFrames DEF PeerPlayerInfoOf, ProfileInfoGetStatus
<1>2. PICK f \in {"peer_info", "status"} : Begins(c, "info", <<f, "peer_info_dbus">>)
  BY <1>1 DEF PlayerPeerInfo
<1>3. "info" \in Lookup /\ f \in Frames /\ "peer_info_dbus" \in Frames
  BY DEF Lookup, Frames
<1>4. MayWaitIn("info", <<f, "peer_info_dbus">>)
  BY DEF MayWaitIn, Waits
<1> QED
  BY <1>2, <1>3, <1>4, BeginsTwo

LEMMA BuddyWhisperInv ==
  ASSUME Inv, NEW c \in Calls, BuddyWhisper(c)
  PROVE  Inv'
<1>1. ProfileInfoGetStatus(<<"cmd_whisper">>) = <<"status", "cmd_whisper">>
  BY TwoFrames DEF ProfileInfoGetStatus
<1>2. Begins(c, "whisper", <<"status", "cmd_whisper">>)
  BY <1>1 DEF BuddyWhisper, CmdWhisper
<1>3. "whisper" \in Lookup /\ "status" \in Frames /\ "cmd_whisper" \in Frames
  BY DEF Lookup, Frames
<1>4. MayWaitIn("whisper", <<"status", "cmd_whisper">>)
  BY DEF MayWaitIn, Waits
<1> QED
  BY <1>2, <1>3, <1>4, BeginsTwo

LEMMA BuddyAddInv ==
  ASSUME Inv, NEW c \in Calls, BuddyAdd(c)
  PROVE  Inv'
<1>1. SendInvitation(<<"buddy_add_dbus">>) = <<"send_invitation", "buddy_add_dbus">>
  BY TwoFrames DEF SendInvitation
<1>2. Begins(c, "add", <<"send_invitation", "buddy_add_dbus">>)
  BY <1>1 DEF BuddyAdd
<1>3. "add" \in Lookup /\ "send_invitation" \in Frames /\ "buddy_add_dbus" \in Frames
  BY DEF Lookup, Frames
<1>4. MayWaitIn("add", <<"send_invitation", "buddy_add_dbus">>)
  BY DEF MayWaitIn, Waits
<1> QED
  BY <1>2, <1>3, <1>4, BeginsTwo

LEMMA ChannelStatsInv ==
  ASSUME Inv, NEW c \in Calls, ChannelStats(c)
  PROVE  Inv'
<1>1. GetMasterServers(<<"cmd_stats", "stats_dbus">>) = <<"servers", "cmd_stats", "stats_dbus">>
  BY OnTopOfTwo DEF GetMasterServers
<1>2. Begins(c, "stats", <<"servers", "cmd_stats", "stats_dbus">>)
  BY <1>1 DEF ChannelStats, CmdStats
<1>3. "stats" \in Lookup /\ "servers" \in Frames /\ "cmd_stats" \in Frames /\ "stats_dbus" \in Frames
  BY DEF Lookup, Frames
<1>4. MayWaitIn("stats", <<"servers", "cmd_stats", "stats_dbus">>)
  BY DEF MayWaitIn, Waits
<1> QED
  BY <1>2, <1>3, <1>4, BeginsThree

LEMMA RoomGetInv ==
  ASSUME Inv, NEW c \in Calls, RoomGet(c)
  PROVE  Inv'
<1>1. GameroomGet(<<"rooms_dbus">>) = <<"gameroom_get", "rooms_dbus">>
  BY TwoFrames DEF GameroomGet
<1>2. Begins(c, "rooms", <<"gameroom_get", "rooms_dbus">>)
  BY <1>1 DEF RoomGet
<1>3. "rooms" \in Lookup /\ "gameroom_get" \in Frames /\ "rooms_dbus" \in Frames
  BY DEF Lookup, Frames
<1>4. MayWaitIn("rooms", <<"gameroom_get", "rooms_dbus">>)
  BY DEF MayWaitIn, Waits
<1> QED
  BY <1>2, <1>3, <1>4, BeginsTwo

(* The offers that must not be asked for: nobody is called back. *)
LEMMA ShopOffersDisabledInv ==
  ASSUME Inv, NEW c \in Calls, ShopOffersDisabled(c)
  PROVE  Inv'
<1> DEFINE q == [NoCall EXCEPT !.m = "offers", !.heap = {"offers_dbus"}, !.last = "disabled"]
<1>1. /\ NoCall.thread = FALSE /\ NoCall.replies = <<>> /\ NoCall.stack = <<>>
      /\ NoCall \in Records
  BY LookupsAssumption DEF NoCall, Records, Infos, Results, Lookup, Frames
<1>2. "offers" \in Lookup /\ "offers_dbus" \in Frames
  BY DEF Lookup, Frames
<1>3. /\ q \in Records /\ q.m = "offers" /\ q.stack = <<>> /\ q.replies = <<>> /\ ~q.thread
      /\ q.last = "disabled"
  BY <1>1, <1>2 DEF Records
<1>4. calls' = [calls EXCEPT ![c] = q] /\ UNCHANGED caches
  BY DEF ShopOffersDisabled
<1> HIDE DEF q
<1>5. Lossy(q)
  BY <1>3 DEF Lossy
<1> QED
  BY <1>3, <1>4, <1>5, EndedClean, CallStep

LEMMA ShopOffersInv ==
  ASSUME Inv, NEW c \in Calls, ShopOffers(c)
  PROVE  Inv'
<1>1. "offers" \in Lookup /\ "offers" \in Frames /\ "offers_dbus" \in Frames
  BY DEF Lookup, Frames
<1>2. MayWaitIn("offers", <<"offers", "offers_dbus">>)
  BY DEF MayWaitIn, Waits
<1> QED
  BY <1>1, <1>2, BeginsTwo, ShopOffersDisabledInv DEF ShopOffers

(* The list of missions is answered at once; its arguments stay. *)
LEMMA CmdMissionsInv ==
  ASSUME Inv, NEW c \in Calls, CmdMissions(c)
  PROVE  Inv'
<1> DEFINE q == [NoCall EXCEPT !.m = "missions", !.heap = {"missions_whisper"}]
<1>1. /\ NoCall.thread = FALSE /\ NoCall.replies = <<>> /\ NoCall.stack = <<>>
      /\ NoCall \in Records
  BY LookupsAssumption DEF NoCall, Records, Infos, Results, Lookup, Frames
<1>2. "missions" \in Lookup /\ "missions_whisper" \in Frames
  BY DEF Lookup, Frames
<1>3. q \in Records /\ q.m = "missions" /\ q.stack = <<>> /\ q.replies = <<>> /\ ~q.thread
  BY <1>1, <1>2 DEF Records
<1>4. calls' = [calls EXCEPT ![c] = q] /\ UNCHANGED caches
  BY DEF CmdMissions
<1> HIDE DEF q
<1>5. Ended(q)
  BY <1>3, FirstReply DEF Ended
<1> QED
  BY <1>3, <1>4, <1>5, CallStep

LEMMA BeginInv == ASSUME Inv, NEW c \in Calls, Begin(c) PROVE Inv'
<1>1. CASE BuddyWhois(c)
  BY <1>1, CmdWhoisInv DEF BuddyWhois
<1>2. CASE BuddyLastSeen(c)
  BY <1>2, CmdLastPidInv, CmdLastInv DEF BuddyLastSeen
<1>3. CASE PrivateMessage(c)
  BY <1>3, CmdLastInv, CmdWhoisInv DEF PrivateMessage
<1> QED
  BY <1>1, <1>2, <1>3, PlayerPeerInfoInv, BuddyWhisperInv, BuddyAddInv, ChannelStatsInv,
     RoomGetInv, ShopOffersInv, CmdMissionsInv DEF Begin
-----------------------------------------------------------------------------
LEMMA StutterInv == ASSUME Inv, UNCHANGED vars PROVE Inv'
<1>1. calls' = calls /\ UNCHANGED caches
  BY DEF vars
<1>2. TypeOK'
  BY <1>1 DEF Inv, TypeOK, caches
<1>3. \A k \in Caches : CacheInv(k)'
  BY <1>1 DEF Inv, CacheInv, DataOf, caches
<1> QED
  BY <1>1, <1>2, <1>3 DEF Inv, caches

LEMMA NextInv == ASSUME Inv, [Next]_vars PROVE Inv'
<1>1. ASSUME NEW c \in Calls, Begin(c) \/ Answer(c) PROVE Inv'
  BY <1>1, BeginInv, AnswerInv
<1> QED
  BY <1>1, CacheStepsInv, StutterInv DEF Next
-----------------------------------------------------------------------------
(* A call that waits is in one of the chains of callbacks that the code       *)
(* builds, with all of its arguments allocated and nothing answered; a cache  *)
(* that is valid has the data of now, or has missed a change.                *)
THEOREM LookupsInvariant == Spec => []Inv
<1>1. Init => Inv
  BY InitInv
<1>2. Inv /\ [Next]_vars => Inv'
  BY NextInv
<1> QED
  BY <1>1, <1>2, PTL DEF Spec

(* The calls, the lists and the caches are what the code declares them to be.  *)
THEOREM LookupsTypeCorrect == Spec => []TypeOK
<1>1. Inv => TypeOK
  BY DEF Inv
<1> QED
  BY <1>1, LookupsInvariant, PTL

(* No callback of any call uses arguments that are freed, and at its end none  *)
(* is left, but after the answers that lose their caller: with any number of   *)
(* calls at once (src/dbus/methods, cmd_whois.c, cmd_last.c).                  *)
THEOREM NoFrameLost == Spec => []FramesFreed
<1>1. ASSUME Inv PROVE FramesFreed
  <2> SUFFICES ASSUME NEW c \in Calls
               PROVE  /\ Range(calls[c].stack) \subseteq calls[c].heap
                      /\ calls[c].stack = <<>> =>
                           calls[c].heap = {} \/ Lossy(calls[c]) \/ calls[c].m \in {"rooms", "missions"}
    BY DEF FramesFreed
  <2>1. CASE Waiting(calls[c])
    <3>1. calls[c].stack # <<>>
      BY <2>1, TwoFrames, ThreeFrames DEF Waiting, Waits
    <3> QED
      BY <2>1, <3>1 DEF Waiting
  <2>2. CASE Ended(calls[c])
    <3>1. Range(<<>>) = {}
      BY DEF Range
    <3> QED
      BY <2>2, <3>1 DEF Ended
  <2> QED
    BY <1>1, <2>1, <2>2 DEF Inv
<1> QED
  BY <1>1, LookupsInvariant, PTL

(* No call of the bus is answered twice, and a list of rooms has all its pages  *)
(* (xmpp_iq_gameroom_get.c), whatever the number of rooms and of a page.        *)
THEOREM OneAnswerInFull == Spec => []AnsweredOnceInFull
<1>1. ASSUME Inv PROVE AnsweredOnceInFull
  <2> SUFFICES ASSUME NEW c \in Calls
               PROVE  /\ Len(calls[c].replies) <= 1
                      /\ calls[c].replies # <<>> => calls[c].stack = <<>>
                      /\ calls[c].m = "rooms" /\ calls[c].replies = <<"found">>
                           => calls[c].rooms = Rooms
    BY DEF AnsweredOnceInFull
  <2>1. CASE Waiting(calls[c])
    BY <2>1, FirstReply DEF Waiting
  <2>2. CASE Ended(calls[c])
    BY <2>2 DEF Ended
  <2> QED
    BY <1>1, <2>1, <2>2 DEF Inv
<1> QED
  BY <1>1, LookupsInvariant, PTL

(* What buddies.c and crown_challenge.c answer while their cache is valid is    *)
(* what the dispatcher knows, but for the changes that are not marked, or are   *)
(* marked while the answer is being built.                                     *)
THEOREM FreshOrMissed == Spec => []CachesFresh
<1>1. ASSUME Inv PROVE CachesFresh
  <2> SUFFICES ASSUME building = NotBuilding, ~marking, NEW k \in Caches
               PROVE  invalid[k] \/ k \in missed \/ cached[k] = DataOf(k)
    BY DEF CachesFresh
  <2>1. building.k # k
    BY DEF NotBuilding, Caches
  <2> QED
    BY <1>1, <2>1 DEF Inv, CacheInv
<1> QED
  BY <1>1, LookupsInvariant, PTL

-----------------------------------------------------------------------------
(* Gameroom *)

(* What is under way to the masterservers, in any queues w. *)
Queues == [Channels -> Seq(Requests)]
NoneOf(w, ops) == \A c \in Channels : \A i \in DOMAIN w[c] : w[c][i].op \notin ops
LeaveAt(w, c, i) == i \in DOMAIN w[c] /\ w[c][i].op = "leave" /\ w[c][i].live
NoLeave(w) == \A c \in Channels : \A i \in DOMAIN w[c] : ~LeaveAt(w, c, i)
OneLeave(w) ==
  /\ \E c \in Channels : \E i \in DOMAIN w[c] : LeaveAt(w, c, i)
  /\ \A c, d \in Channels : \A i \in DOMAIN w[c], j \in DOMAIN w[d] :
       LeaveAt(w, c, i) /\ LeaveAt(w, d, j) => c = d /\ i = j
Leaves(w, g) == IF g.leaving THEN OneLeave(w) ELSE NoLeave(w)
Flight(w, ch, jid) ==
  /\ \A c \in Channels : \A i \in DOMAIN w[c] :
       /\ w[c][i].live
       /\ w[c][i].op \in RoomOps => c = ch
       /\ w[c][i].op = "logout" => c # ch
       /\ w[c][i].op = "switch" => jid = NULL /\ NoneOf(w, RoomOps)
  /\ \A c, d \in Channels : \A i \in DOMAIN w[c], j \in DOMAIN w[d] :
       w[c][i].op = "switch" => /\ w[d][j].op = "switch" => c = d /\ i = j
                                /\ w[d][j].op = "logout" /\ c = d => j < i

LEMMA Written ==
  ASSUME wire \in Queues, gr \in Gamerooms
  PROVE  /\ LeavingIsAnswered <=> Leaves(wire, gr)
         /\ \A ops : InFlight(ops) <=> ~NoneOf(wire, ops)
         /\ FlightInv <=> (~crossed /\ ~late => Flight(wire, channel, gr.jid))
<1>1. LeavingIsAnswered <=> Leaves(wire, gr)
  BY DEF LeavingIsAnswered, Leaves, NoLeave, OneLeave, LeaveAt, Outstanding, Gamerooms
<1>2. ASSUME NEW ops PROVE InFlight(ops) <=> ~NoneOf(wire, ops)
  BY DEF InFlight, NoneOf, Range
<1>3. FlightInv <=> (~crossed /\ ~late => Flight(wire, channel, gr.jid))
  <2>1. ~InFlight(RoomOps) <=> NoneOf(wire, RoomOps)
    BY <1>2
  <2> QED
    BY <2>1 DEF FlightInv, Flight, At, RoomOps
<1> QED
  BY <1>1, <1>2, <1>3

LEMMA WrittenNext ==
  (wire \in Queues /\ gr \in Gamerooms =>
    /\ LeavingIsAnswered <=> Leaves(wire, gr)
    /\ FlightInv <=> (~crossed /\ ~late => Flight(wire, channel, gr.jid)))'
BY Written, PTL

(* Requests put at the end of the queue of one masterserver. *)
LEMMA Posted ==
  ASSUME NEW w \in Queues, NEW c \in Channels, NEW qs \in Seq(Requests)
  PROVE  /\ Post(w, c, qs) \in Queues
         /\ \A d \in Channels : d # c => Post(w, c, qs)[d] = w[d]
         /\ \A i \in DOMAIN w[c] : i \in DOMAIN Post(w, c, qs)[c] /\ Post(w, c, qs)[c][i] = w[c][i]
         /\ \A i \in DOMAIN Post(w, c, qs)[c] :
              \/ i \in DOMAIN w[c] /\ Post(w, c, qs)[c][i] = w[c][i]
              \/ /\ i - Len(w[c]) \in DOMAIN qs /\ \A j \in DOMAIN w[c] : j < i
                 /\ Post(w, c, qs)[c][i] = qs[i - Len(w[c])]
         /\ qs # <<>> => /\ Len(w[c]) + 1 \in DOMAIN Post(w, c, qs)[c]
                         /\ Post(w, c, qs)[c][Len(w[c]) + 1] = qs[1]
<1>1. w[c] \in Seq(Requests) /\ Post(w, c, qs)[c] = w[c] \o qs
  BY DEF Queues, Post
<1>2. Post(w, c, qs) \in Queues
  BY <1>1 DEF Queues, Post
<1>3. \A d \in Channels : d # c => Post(w, c, qs)[d] = w[d]
  BY DEF Queues, Post
<1>4. ASSUME NEW s \in Seq(Requests)
      PROVE  /\ \A i \in DOMAIN s : i \in DOMAIN (s \o qs) /\ (s \o qs)[i] = s[i]
             /\ \A i \in DOMAIN (s \o qs) :
                  \/ i \in DOMAIN s /\ (s \o qs)[i] = s[i]
                  \/ /\ i - Len(s) \in DOMAIN qs /\ \A j \in DOMAIN s : j < i
                     /\ (s \o qs)[i] = qs[i - Len(s)]
             /\ qs # <<>> => /\ Len(s) + 1 \in DOMAIN (s \o qs)
                             /\ (s \o qs)[Len(s) + 1] = qs[1]
  OBVIOUS
<1> HIDE DEF Post
<1> QED
  BY <1>1, <1>2, <1>3, <1>4

(* One request put there. *)
LEMMA OnePosted ==
  ASSUME NEW w \in Queues, NEW c \in Channels, NEW q \in Requests
  PROVE  /\ Post(w, c, <<q>>) \in Queues
         /\ \A d \in Channels : \A i \in DOMAIN w[d] :
              i \in DOMAIN Post(w, c, <<q>>)[d] /\ Post(w, c, <<q>>)[d][i] = w[d][i]
         /\ \A d \in Channels : \A i \in DOMAIN Post(w, c, <<q>>)[d] :
              \/ i \in DOMAIN w[d] /\ Post(w, c, <<q>>)[d][i] = w[d][i]
              \/ /\ d = c /\ i = Len(w[c]) + 1 /\ Post(w, c, <<q>>)[d][i] = q
                 /\ \A j \in DOMAIN w[c] : j < i
         /\ Len(w[c]) + 1 \in DOMAIN Post(w, c, <<q>>)[c]
         /\ Post(w, c, <<q>>)[c][Len(w[c]) + 1] = q
<1> DEFINE v == Post(w, c, <<q>>)
<1>1. w[c] \in Seq(Requests) /\ <<q>> \in Seq(Requests)
  BY DEF Queues
<1>2. v \in Queues /\ \A d \in Channels : d # c => v[d] = w[d]
  <2>1. PICK qs \in Seq(Requests) : qs = <<q>>
    BY <1>1
  <2>2. Post(w, c, qs) \in Queues /\ \A d \in Channels : d # c => Post(w, c, qs)[d] = w[d]
    BY Posted
  <2> QED
    BY <2>1, <2>2
<1>3. v[c] = w[c] \o <<q>>
  BY <1>1 DEF Queues, Post
<1>4. /\ \A i \in DOMAIN w[c] : i \in DOMAIN (w[c] \o <<q>>) /\ (w[c] \o <<q>>)[i] = w[c][i]
      /\ \A i \in DOMAIN (w[c] \o <<q>>) :
           \/ i \in DOMAIN w[c] /\ (w[c] \o <<q>>)[i] = w[c][i]
           \/ /\ i = Len(w[c]) + 1 /\ (w[c] \o <<q>>)[i] = q
              /\ \A j \in DOMAIN w[c] : j < i
      /\ Len(w[c]) + 1 \in DOMAIN (w[c] \o <<q>>) /\ (w[c] \o <<q>>)[Len(w[c]) + 1] = q
  BY <1>1
<1> QED
  BY <1>2, <1>3, <1>4

(* The head of one queue taken. *)
Pop(w, c) == [w EXCEPT ![c] = Tail(@)]
LEMMA Taken ==
  ASSUME NEW w \in Queues, NEW c \in Channels, w[c] # <<>>
  PROVE  /\ Pop(w, c) \in Queues /\ Head(w[c]) \in Requests /\ Head(w[c]) = w[c][1]
         /\ 1 \in DOMAIN w[c]
         /\ \A d \in Channels : d # c => Pop(w, c)[d] = w[d]
         /\ \A i \in DOMAIN Pop(w, c)[c] : i + 1 \in DOMAIN w[c] /\ Pop(w, c)[c][i] = w[c][i + 1]
         /\ \A i \in DOMAIN w[c] : i # 1 =>
              i - 1 \in DOMAIN Pop(w, c)[c] /\ Pop(w, c)[c][i - 1] = w[c][i]
<1>1. w[c] \in Seq(Requests) /\ Tail(w[c]) \in Seq(Requests)
  BY DEF Queues
<1>2. Pop(w, c)[c] = Tail(w[c]) /\ \A d \in Channels : d # c => Pop(w, c)[d] = w[d]
  BY DEF Queues, Pop
<1>3. Pop(w, c) \in Queues
  <2>1. Pop(w, c) = [d \in Channels |-> IF d = c THEN Tail(w[c]) ELSE w[d]]
    BY DEF Queues, Pop
  <2> QED
    BY <1>1, <2>1 DEF Queues
<1>4. ASSUME NEW s \in Seq(Requests), s # <<>>
      PROVE  /\ Head(s) \in Requests /\ Head(s) = s[1] /\ 1 \in DOMAIN s
             /\ \A i \in DOMAIN Tail(s) : i + 1 \in DOMAIN s /\ Tail(s)[i] = s[i + 1]
             /\ \A i \in DOMAIN s : i # 1 => i - 1 \in DOMAIN Tail(s) /\ Tail(s)[i - 1] = s[i]
  BY <1>4
<1> QED
  BY <1>1, <1>2, <1>3, <1>4

(* Requests that are neither about the room nor the channel. *)
Plain(qs) ==
  /\ qs \in Seq(Requests)
  /\ \A i \in DOMAIN qs : qs[i].op \in {"setplayer", "edit", "session_join"} /\ qs[i].live

LEMMA PlainPosted ==
  ASSUME NEW w \in Queues, NEW c \in Channels, NEW qs, Plain(qs)
  PROVE  /\ Post(w, c, qs) \in Queues
         /\ NoLeave(w) => NoLeave(Post(w, c, qs))
         /\ OneLeave(w) => OneLeave(Post(w, c, qs))
         /\ \A ops : ops \cap {"setplayer", "edit", "session_join"} = {} /\ NoneOf(w, ops)
                       => NoneOf(Post(w, c, qs), ops)
         /\ \A ch, jid : Flight(w, ch, jid) => Flight(Post(w, c, qs), ch, jid)
<1> DEFINE v == Post(w, c, qs)
<1>1. qs \in Seq(Requests)
  BY DEF Plain
<1>2. v \in Queues /\ \A d \in Channels : \A i \in DOMAIN w[d] : i \in DOMAIN v[d] /\ v[d][i] = w[d][i]
  BY <1>1, Posted
<1>3. \A d \in Channels : \A i \in DOMAIN v[d] :
        \/ i \in DOMAIN w[d] /\ v[d][i] = w[d][i]
        \/ v[d][i].op \in {"setplayer", "edit", "session_join"} /\ v[d][i].live
  <2>1. /\ \A d \in Channels : d # c => v[d] = w[d]
        /\ \A i \in DOMAIN v[c] : \/ i \in DOMAIN w[c] /\ v[c][i] = w[c][i]
                                  \/ i - Len(w[c]) \in DOMAIN qs /\ v[c][i] = qs[i - Len(w[c])]
    BY <1>1, Posted
  <2> HIDE DEF v
  <2> QED
    BY <2>1 DEF Plain
<1> HIDE DEF v
<1>4. NoLeave(w) => NoLeave(v)
  BY <1>3 DEF NoLeave, LeaveAt
<1>5. OneLeave(w) => OneLeave(v)
  BY <1>2, <1>3 DEF OneLeave, LeaveAt
<1>6. \A ops : ops \cap {"setplayer", "edit", "session_join"} = {} /\ NoneOf(w, ops) => NoneOf(v, ops)
  BY <1>3 DEF NoneOf
<1>7. ASSUME NEW ch, NEW jid, Flight(w, ch, jid) PROVE Flight(v, ch, jid)
  <2>1. NoneOf(w, RoomOps) => NoneOf(v, RoomOps)
    BY <1>6 DEF RoomOps
  <2> QED
    BY <1>3, <1>7, <2>1 DEF Flight, RoomOps
<1> QED
  BY <1>2, <1>4, <1>5, <1>6, <1>7 DEF v

(* A request about the room, to the channel, when no change of channel is under way. *)
LEMMA RoomOpPosted ==
  ASSUME NEW w \in Queues, NEW c \in Channels, NEW q \in Requests,
         q.op \in {"join", "open", "missions"}
  PROVE  /\ Post(w, c, <<q>>) \in Queues
         /\ NoLeave(w) => NoLeave(Post(w, c, <<q>>))
         /\ OneLeave(w) => OneLeave(Post(w, c, <<q>>))
         /\ NoneOf(w, {"switch"}) => NoneOf(Post(w, c, <<q>>), {"switch"})
         /\ \A jid : Flight(w, c, jid) /\ NoneOf(w, {"switch"}) /\ q.live =>
                    Flight(Post(w, c, <<q>>), c, jid)
<1> DEFINE v == Post(w, c, <<q>>)
<1>2. v \in Queues /\ \A d \in Channels : \A i \in DOMAIN w[d] : i \in DOMAIN v[d] /\ v[d][i] = w[d][i]
  BY OnePosted
<1>3. \A d \in Channels : \A i \in DOMAIN v[d] :
        \/ i \in DOMAIN w[d] /\ v[d][i] = w[d][i]
        \/ d = c /\ v[d][i] = q
  BY OnePosted
<1> HIDE DEF v
<1>4. NoLeave(w) => NoLeave(v)
  BY <1>3 DEF NoLeave, LeaveAt
<1>5. OneLeave(w) => OneLeave(v)
  BY <1>2, <1>3 DEF OneLeave, LeaveAt
<1>6. NoneOf(w, {"switch"}) => NoneOf(v, {"switch"})
  BY <1>3 DEF NoneOf
<1>7. ASSUME NEW jid, Flight(w, c, jid), NoneOf(w, {"switch"}), q.live PROVE Flight(v, c, jid)
  <2>1. \A d \in Channels : \A i \in DOMAIN v[d] : v[d][i].op # "switch"
    BY <1>6, <1>7 DEF NoneOf
  <2> QED
    BY <1>3, <1>7, <2>1 DEF Flight, RoomOps
<1> QED
  BY <1>2, <1>4, <1>5, <1>6, <1>7 DEF v

(* The one leave that may be under way. *)
LEMMA LeavePosted ==
  ASSUME NEW w \in Queues, NEW c \in Channels
  PROVE  /\ Post(w, c, <<LeaveRequest>>) \in Queues
         /\ NoLeave(w) => OneLeave(Post(w, c, <<LeaveRequest>>))
         /\ \A jid : Flight(w, c, jid) /\ NoneOf(w, {"switch"}) =>
                    Flight(Post(w, c, <<LeaveRequest>>), c, jid)
<1> DEFINE v == Post(w, c, <<LeaveRequest>>)
<1>1. LeaveRequest \in Requests /\ LeaveRequest.op = "leave" /\ LeaveRequest.live
  BY DEF LeaveRequest, Request, Requests
<1> HIDE DEF LeaveRequest
<1>2. /\ v \in Queues
      /\ Len(w[c]) + 1 \in DOMAIN v[c] /\ v[c][Len(w[c]) + 1].op = "leave" /\ v[c][Len(w[c]) + 1].live
  BY <1>1, OnePosted
<1>3. \A d \in Channels : \A i \in DOMAIN v[d] :
        \/ i \in DOMAIN w[d] /\ v[d][i] = w[d][i]
        \/ d = c /\ i = Len(w[c]) + 1 /\ v[d][i].op = "leave" /\ v[d][i].live
  BY <1>1, OnePosted
<1> HIDE DEF v
<1>4. NoLeave(w) => OneLeave(v)
  BY <1>2, <1>3 DEF NoLeave, OneLeave, LeaveAt
<1>5. ASSUME NEW jid, Flight(w, c, jid), NoneOf(w, {"switch"}) PROVE Flight(v, c, jid)
  <2>1. \A d \in Channels : \A i \in DOMAIN v[d] : v[d][i].op # "switch"
    BY <1>3, <1>5 DEF NoneOf
  <2> QED
    BY <1>3, <1>5, <2>1 DEF Flight, RoomOps
<1> QED
  BY <1>2, <1>4, <1>5 DEF v

(* A change of channel, when the client is in no room and nothing else is under way. *)
LEMMA SwitchPosted ==
  ASSUME NEW w \in Queues, NEW c \in Channels, NEW q \in Requests, q.op = "switch", q.live
  PROVE  /\ Post(w, c, <<q>>) \in Queues
         /\ NoLeave(w) => NoLeave(Post(w, c, <<q>>))
         /\ OneLeave(w) => OneLeave(Post(w, c, <<q>>))
         /\ \A ch : Flight(w, ch, NULL) /\ NoneOf(w, RoomOps \cup {"switch"}) =>
                    Flight(Post(w, c, <<q>>), ch, NULL)
<1> DEFINE v == Post(w, c, <<q>>)
<1>2. v \in Queues /\ \A d \in Channels : \A i \in DOMAIN w[d] : i \in DOMAIN v[d] /\ v[d][i] = w[d][i]
  BY OnePosted
<1>3. \A d \in Channels : \A i \in DOMAIN v[d] :
        \/ i \in DOMAIN w[d] /\ v[d][i] = w[d][i]
        \/ /\ d = c /\ i = Len(w[c]) + 1 /\ v[d][i] = q
           /\ \A j \in DOMAIN w[c] : j < i
  BY OnePosted
<1> HIDE DEF v
<1>4. NoLeave(w) => NoLeave(v)
  BY <1>3 DEF NoLeave, LeaveAt
<1>5. OneLeave(w) => OneLeave(v)
  BY <1>2, <1>3 DEF OneLeave, LeaveAt
<1>6. ASSUME NEW ch, Flight(w, ch, NULL), NoneOf(w, RoomOps \cup {"switch"}) PROVE Flight(v, ch, NULL)
  <2>1. \A d \in Channels : \A i \in DOMAIN v[d] :
          /\ v[d][i].op \notin RoomOps
          /\ v[d][i].op = "switch" => d = c /\ i = Len(w[c]) + 1 /\ \A j \in DOMAIN w[c] : j < i
    BY <1>3, <1>6 DEF NoneOf, RoomOps
  <2>2. NoneOf(v, RoomOps)
    BY <2>1 DEF NoneOf
  <2>3. \A d \in Channels : \A i \in DOMAIN v[d] : v[d][i].live /\ (v[d][i].op = "logout" => d # ch)
    BY <1>3, <1>6 DEF Flight
  <2>4. \A d, e \in Channels : \A i \in DOMAIN v[d], j \in DOMAIN v[e] :
          v[d][i].op = "switch" => /\ v[e][j].op = "switch" => d = e /\ i = j
                                   /\ v[e][j].op = "logout" /\ d = e => j < i
    <3> SUFFICES ASSUME NEW d \in Channels, NEW i \in DOMAIN v[d], v[d][i].op = "switch",
                        NEW e \in Channels, NEW j \in DOMAIN v[e]
                 PROVE  /\ v[e][j].op = "switch" => d = e /\ i = j
                        /\ v[e][j].op = "logout" /\ d = e => j < i
      OBVIOUS
    <3>1. d = c /\ i = Len(w[c]) + 1 /\ \A k \in DOMAIN w[c] : k < i
      BY <2>1
    <3>2. v[e][j].op = "switch" => d = e /\ i = j
      BY <2>1, <3>1
    <3>3. v[e][j].op = "logout" /\ d = e => j < i
      BY <1>3, <3>1
    <3> QED
      BY <3>2, <3>3
  <2> QED
    BY <2>1, <2>2, <2>3, <2>4 DEF Flight
<1> QED
  BY <1>2, <1>4, <1>5, <1>6 DEF v

(* The client takes itself out of a channel that is not its own. *)
LogoutRequest == Request("logout", NULL, "none")
LEMMA LogoutPosted ==
  ASSUME NEW w \in Queues, NEW c \in Channels
  PROVE  /\ Post(w, c, <<LogoutRequest>>) \in Queues
         /\ NoLeave(w) => NoLeave(Post(w, c, <<LogoutRequest>>))
         /\ OneLeave(w) => OneLeave(Post(w, c, <<LogoutRequest>>))
         /\ \A ch, jid : Flight(w, ch, jid) /\ NoneOf(w, {"switch"}) /\ c # ch =>
                    Flight(Post(w, c, <<LogoutRequest>>), ch, jid)
<1> DEFINE v == Post(w, c, <<LogoutRequest>>)
<1>1. LogoutRequest \in Requests /\ LogoutRequest.op = "logout" /\ LogoutRequest.live
  BY DEF LogoutRequest, Request, Requests
<1> HIDE DEF LogoutRequest
<1>2. v \in Queues /\ \A d \in Channels : \A i \in DOMAIN w[d] : i \in DOMAIN v[d] /\ v[d][i] = w[d][i]
  BY <1>1, OnePosted
<1>3. \A d \in Channels : \A i \in DOMAIN v[d] :
        \/ i \in DOMAIN w[d] /\ v[d][i] = w[d][i]
        \/ d = c /\ v[d][i].op = "logout" /\ v[d][i].live
  BY <1>1, OnePosted
<1> HIDE DEF v
<1>4. NoLeave(w) => NoLeave(v)
  BY <1>3 DEF NoLeave, LeaveAt
<1>5. OneLeave(w) => OneLeave(v)
  BY <1>2, <1>3 DEF OneLeave, LeaveAt
<1>6. ASSUME NEW ch, NEW jid, Flight(w, ch, jid), NoneOf(w, {"switch"}), c # ch PROVE Flight(v, ch, jid)
  <2>1. \A d \in Channels : \A i \in DOMAIN v[d] : v[d][i].op # "switch"
    BY <1>3, <1>6 DEF NoneOf
  <2> QED
    BY <1>3, <1>6, <2>1 DEF Flight, RoomOps
<1> QED
  BY <1>2, <1>4, <1>5, <1>6 DEF v

(* A request that is answered is under way no more. *)
LEMMA HeadTaken ==
  ASSUME NEW w \in Queues, NEW c \in Channels, w[c] # <<>>
  PROVE  /\ NoLeave(w) => NoLeave(Pop(w, c))
         /\ OneLeave(w) /\ ~LeaveAt(w, c, 1) => OneLeave(Pop(w, c))
         /\ OneLeave(w) /\ LeaveAt(w, c, 1) => NoLeave(Pop(w, c))
         /\ \A ops : NoneOf(w, ops) => NoneOf(Pop(w, c), ops)
         /\ \A ch, jid : Flight(w, ch, jid) => Flight(Pop(w, c), ch, jid)
         /\ \A ch, jid : Flight(w, ch, jid) /\ w[c][1].op = "switch" =>
              /\ jid = NULL /\ NoneOf(Pop(w, c), RoomOps \cup {"switch"})
              /\ Flight(Pop(w, c), c, jid)
<1> DEFINE v == Pop(w, c)
<1>1. /\ v \in Queues /\ 1 \in DOMAIN w[c]
      /\ \A d \in Channels : DOMAIN v[d] \subseteq Nat /\ DOMAIN w[d] \subseteq Nat
  BY Taken DEF Queues
<1>2. \A d \in Channels : \A i \in DOMAIN v[d] :
        \/ d # c /\ i \in DOMAIN w[d] /\ v[d][i] = w[d][i]
        \/ d = c /\ i + 1 \in DOMAIN w[d] /\ v[d][i] = w[d][i + 1]
  BY Taken
<1>3. \A d \in Channels : \A i \in DOMAIN w[d] :
        \/ d # c /\ i \in DOMAIN v[d] /\ v[d][i] = w[d][i]
        \/ d = c /\ i # 1 /\ i - 1 \in DOMAIN v[d] /\ v[d][i - 1] = w[d][i]
        \/ d = c /\ i = 1
  BY Taken
<1> HIDE DEF v
<1>4. NoLeave(w) => NoLeave(v)
  BY <1>2 DEF NoLeave, LeaveAt
<1>5. ASSUME OneLeave(w), ~LeaveAt(w, c, 1) PROVE OneLeave(v)
  <2>1. \E d \in Channels : \E i \in DOMAIN v[d] : LeaveAt(v, d, i)
    BY <1>3, <1>5 DEF OneLeave, LeaveAt
  <2>2. ASSUME NEW d \in Channels, NEW e \in Channels, NEW i \in DOMAIN v[d], NEW j \in DOMAIN v[e],
               LeaveAt(v, d, i), LeaveAt(v, e, j)
        PROVE  d = e /\ i = j
    <3>1. PICK k \in DOMAIN w[d] : LeaveAt(w, d, k) /\ k = IF d = c THEN i + 1 ELSE i
      BY <1>2, <2>2 DEF LeaveAt
    <3>2. PICK l \in DOMAIN w[e] : LeaveAt(w, e, l) /\ l = IF e = c THEN j + 1 ELSE j
      BY <1>2, <2>2 DEF LeaveAt
    <3>3. d = e /\ k = l
      BY <1>5, <3>1, <3>2 DEF OneLeave
    <3>4. i \in Nat /\ j \in Nat
      BY <1>1
    <3> QED
      BY <3>1, <3>2, <3>3, <3>4
  <2> QED
    BY <2>1, <2>2 DEF OneLeave
<1>6. ASSUME OneLeave(w), LeaveAt(w, c, 1) PROVE NoLeave(v)
  <2>1. ASSUME NEW d \in Channels, NEW i \in DOMAIN v[d], LeaveAt(v, d, i) PROVE FALSE
    <3>1. PICK k \in DOMAIN w[d] : LeaveAt(w, d, k) /\ k = IF d = c THEN i + 1 ELSE i
      BY <1>2, <2>1 DEF LeaveAt
    <3>2. d = c /\ k = 1
      BY <1>1, <1>6, <3>1 DEF OneLeave
    <3>3. i \in Nat /\ i # 0
      <4>1. v[c] \in Seq(Requests)
        BY <1>1 DEF Queues
      <4> QED
        BY <3>2, <4>1
    <3> QED
      BY <3>1, <3>2, <3>3
  <2> QED
    BY <2>1 DEF NoLeave
<1>7. \A ops : NoneOf(w, ops) => NoneOf(v, ops)
  BY <1>2 DEF NoneOf
<1>8. ASSUME NEW ch, NEW jid, Flight(w, ch, jid) PROVE Flight(v, ch, jid)
  <2>1. ASSUME NEW d \in Channels, NEW i \in DOMAIN v[d]
        PROVE  /\ v[d][i].live
               /\ v[d][i].op \in RoomOps => d = ch
               /\ v[d][i].op = "logout" => d # ch
               /\ v[d][i].op = "switch" => jid = NULL /\ NoneOf(v, RoomOps)
    <3>1. PICK k \in DOMAIN w[d] : v[d][i] = w[d][k]
      BY <1>2
    <3> QED
      BY <1>7, <1>8, <3>1 DEF Flight
  <2>2. ASSUME NEW d \in Channels, NEW e \in Channels, NEW i \in DOMAIN v[d], NEW j \in DOMAIN v[e],
               v[d][i].op = "switch"
        PROVE  /\ v[e][j].op = "switch" => d = e /\ i = j
               /\ v[e][j].op = "logout" /\ d = e => j < i
    <3>1. PICK k \in DOMAIN w[d] : v[d][i] = w[d][k] /\ k = IF d = c THEN i + 1 ELSE i
      BY <1>2
    <3>2. PICK l \in DOMAIN w[e] : v[e][j] = w[e][l] /\ l = IF e = c THEN j + 1 ELSE j
      BY <1>2
    <3>3. /\ v[e][j].op = "switch" => d = e /\ k = l
          /\ v[e][j].op = "logout" /\ d = e => l < k
      BY <1>8, <2>2, <3>1, <3>2 DEF Flight
    <3>4. i \in Nat /\ j \in Nat
      BY <1>1
    <3> QED
      BY <3>1, <3>2, <3>3, <3>4
  <2> QED
    BY <2>1, <2>2 DEF Flight
<1>9. ASSUME NEW ch, NEW jid, Flight(w, ch, jid), w[c][1].op = "switch"
      PROVE  jid = NULL /\ NoneOf(v, RoomOps \cup {"switch"}) /\ Flight(v, c, jid)
  <2>1. jid = NULL /\ NoneOf(w, RoomOps)
    BY <1>1, <1>9 DEF Flight
  <2>2. ASSUME NEW d \in Channels, NEW i \in DOMAIN v[d]
        PROVE  v[d][i].op # "switch" /\ (v[d][i].op = "logout" => d # c)
    <3>1. PICK k \in DOMAIN w[d] : v[d][i] = w[d][k] /\ k = IF d = c THEN i + 1 ELSE i
      BY <1>2
    <3>2. i \in Nat /\ i # 0
      <4>1. v[d] \in Seq(Requests)
        BY <1>1 DEF Queues
      <4> QED
        BY <4>1
    <3>3. ~(d = c /\ k = 1)
      BY <3>1, <3>2
    <3>4. w[d][k].op # "switch"
      BY <1>1, <1>9, <3>3 DEF Flight
    <3>5. w[d][k].op = "logout" /\ d = c => k < 1
      BY <1>1, <1>9 DEF Flight
    <3> QED
      BY <3>1, <3>2, <3>4, <3>5
  <2>3. NoneOf(v, RoomOps)
    BY <1>7, <2>1
  <2>4. NoneOf(v, RoomOps \cup {"switch"})
    BY <2>2, <2>3 DEF NoneOf
  <2>5. \A d \in Channels : \A i \in DOMAIN v[d] : v[d][i].live /\ v[d][i].op \notin RoomOps
    <3>1. Flight(v, ch, jid)
      BY <1>8, <1>9
    <3> QED
      BY <2>3, <3>1 DEF Flight, NoneOf
  <2>6. Flight(v, c, jid)
    BY <2>2, <2>5 DEF Flight
  <2> QED
    BY <2>1, <2>4, <2>6
<1> QED
  BY <1>4, <1>5, <1>6, <1>7, <1>8, <1>9 DEF v

(* A handler that has expired. *)
Silence(w, c, i) == [w EXCEPT ![c][i].live = FALSE]
LEMMA Silenced ==
  ASSUME NEW w \in Queues, NEW c \in Channels, NEW i \in DOMAIN w[c], w[c][i].live
  PROVE  /\ Silence(w, c, i) \in Queues
         /\ NoLeave(w) => NoLeave(Silence(w, c, i))
         /\ OneLeave(w) /\ w[c][i].op # "leave" => OneLeave(Silence(w, c, i))
         /\ OneLeave(w) /\ w[c][i].op = "leave" => NoLeave(Silence(w, c, i))
<1> DEFINE v == Silence(w, c, i)
<1>1. w[c] \in Seq(Requests) /\ w[c][i] \in Requests
  BY DEF Queues
<1>2. [w[c][i] EXCEPT !.live = FALSE] \in Requests
  BY <1>1 DEF Requests
<1>3. v = [d \in Channels |->
             IF d = c THEN [w[c] EXCEPT ![i] = [w[c][i] EXCEPT !.live = FALSE]] ELSE w[d]]
  BY DEF Queues, Silence
<1> HIDE DEF v
<1>4. [w[c] EXCEPT ![i] = [w[c][i] EXCEPT !.live = FALSE]] \in Seq(Requests)
  BY <1>1, <1>2
<1>5. v \in Queues
  BY <1>3, <1>4 DEF Queues
<1>6. \A d \in Channels : /\ DOMAIN v[d] = DOMAIN w[d]
                           /\ \A j \in DOMAIN w[d] : d # c \/ j # i => v[d][j] = w[d][j]
  BY <1>1, <1>3
<1>7. v[c][i].op = w[c][i].op /\ ~v[c][i].live
  BY <1>1, <1>3 DEF Requests
<1>8. NoLeave(w) => NoLeave(v)
  BY <1>6, <1>7 DEF NoLeave, LeaveAt
<1>9. OneLeave(w) /\ w[c][i].op # "leave" => OneLeave(v)
  BY <1>6, <1>7 DEF OneLeave, LeaveAt
<1>10. ASSUME OneLeave(w), w[c][i].op = "leave" PROVE NoLeave(v)
  <2>1. LeaveAt(w, c, i)
    BY <1>10 DEF LeaveAt
  <2>2. \A d \in Channels : \A j \in DOMAIN w[d] : LeaveAt(w, d, j) => d = c /\ j = i
    BY <1>10, <2>1 DEF OneLeave
  <2> QED
    BY <1>6, <1>7, <2>2 DEF NoLeave, LeaveAt
<1> QED
  BY <1>5, <1>8, <1>9, <1>10 DEF v

(* Without a change of channel under way, the room the client is in does not matter. *)
LEMMA OtherRoom ==
  ASSUME NEW w \in Queues, NEW ch, NEW jid, NEW new, Flight(w, ch, jid),
         NoneOf(w, {"switch"}) \/ new = NULL
  PROVE  Flight(w, ch, new)
BY DEF Flight, NoneOf

(* A request about the room is under way: no change of channel is. *)
LEMMA RoomOpAlone ==
  ASSUME NEW w \in Queues, NEW c \in Channels, w[c] # <<>>, NEW ch, NEW jid, Flight(w, ch, jid)
  PROVE  /\ w[c][1].op \in RoomOps => c = ch /\ NoneOf(w, {"switch"})
         /\ jid # NULL => NoneOf(w, {"switch"})
         /\ w[c][1].op = "logout" => c # ch
         /\ w[c][1].live
<1>1. 1 \in DOMAIN w[c]
  BY Taken
<1> QED
  BY <1>1 DEF Flight, NoneOf

-----------------------------------------------------------------------------
(* What the operators return. *)
Syncs == [room : RoomJids, nodes : Nodes, running : BOOLEAN, own : Statuses]

LEMMA PlainJoined ==
  ASSUME NEW a, NEW b, Plain(a), Plain(b)
  PROVE  Plain(a \o b)
<1>1. a \in Seq(Requests) /\ b \in Seq(Requests)
  BY DEF Plain
<1>2. a \o b \in Seq(Requests)
  BY <1>1
<1>3. ASSUME NEW i \in DOMAIN (a \o b)
      PROVE  \/ i \in DOMAIN a /\ (a \o b)[i] = a[i]
             \/ i - Len(a) \in DOMAIN b /\ (a \o b)[i] = b[i - Len(a)]
  BY <1>1
<1> QED
  BY <1>2, <1>3 DEF Plain

LEMMA PlainWhen ==
  ASSUME NEW q \in Requests, q.op \in {"setplayer", "edit", "session_join"}, q.live
  PROVE  Plain(<<q>>) /\ Plain(<<>>)
BY DEF Plain

LEMMA PlainRequests ==
  /\ \A s \in {"unready", "ready"} : /\ Request("setplayer", s, "none") \in Requests
                                    /\ Plain(<<Request("setplayer", s, "none")>>)
  /\ Plain(<<Request("edit", NULL, "none")>>) /\ Plain(<<Request("session_join", NULL, "none")>>)
  /\ Plain(<<>>)
<1>1. ASSUME NEW s \in {"unready", "ready"}
      PROVE  Request("setplayer", s, "none") \in Requests /\ Plain(<<Request("setplayer", s, "none")>>)
  <2>1. PICK q : q = Request("setplayer", s, "none")
    OBVIOUS
  <2>2. q \in Requests /\ q.op = "setplayer" /\ q.live
    BY <2>1 DEF Request, Requests
  <2> QED
    BY <2>1, <2>2, PlainWhen
<1>2. Plain(<<Request("edit", NULL, "none")>>)
  <2>1. PICK q : q = Request("edit", NULL, "none")
    OBVIOUS
  <2>2. q \in Requests /\ q.op = "edit" /\ q.live
    BY <2>1 DEF Request, Requests
  <2> QED
    BY <2>1, <2>2, PlainWhen
<1>3. Plain(<<Request("session_join", NULL, "none")>>)
  <2>1. PICK q : q = Request("session_join", NULL, "none")
    OBVIOUS
  <2>2. q \in Requests /\ q.op = "session_join" /\ q.live
    BY <2>1 DEF Request, Requests
  <2> QED
    BY <2>1, <2>2, PlainWhen
<1>4. Plain(<<>>)
  BY DEF Plain
<1> QED
  BY <1>1, <1>2, <1>3, <1>4

(* A sync is of the room it names and asks for nothing but a ready player and to play. *)
LEMMA SyncOutcome ==
  ASSUME NEW g \in Gamerooms, NEW y \in Syncs
  PROVE  /\ GameroomSync(g, y) \in Gamerooms
         /\ GameroomSync(g, y).jid = g.jid /\ GameroomSync(g, y).leaving = g.leaving
         /\ GameroomSync(g, y).players = g.players /\ GameroomSync(g, y).of = y.room
         /\ Plain(SyncRequests(g, y))
<1>1. GameroomSync(g, y) \in Gamerooms
  <2>1. PICK joined, desired, curr, match :
          /\ joined = IF HasSession(y) THEN y.running ELSE g.joined
          /\ desired = IF HasSession(y) /\ ~y.running /\ g.joined THEN "ready" ELSE g.desired
          /\ curr = IF HasCore(y) THEN y.own ELSE g.curr
          /\ match = IF y.nodes = "all" THEN HasMatch(y) ELSE g.match
    OBVIOUS
  <2>2. /\ joined \in BOOLEAN /\ desired \in {"unready", "ready"} /\ curr \in Statuses
        /\ match \in BOOLEAN /\ y.room \in RoomJids
    BY <2>1 DEF Gamerooms, Syncs, HasMatch
  <2>3. GameroomSync(g, y) = [g EXCEPT !.of = y.room, !.joined = joined, !.desired = desired,
                                       !.curr = curr, !.match = match]
    BY <2>1 DEF GameroomSync, Gamerooms
  <2> QED
    BY <2>2, <2>3 DEF Gamerooms
<1>2. /\ GameroomSync(g, y).jid = g.jid /\ GameroomSync(g, y).leaving = g.leaving
      /\ GameroomSync(g, y).players = g.players /\ GameroomSync(g, y).of = y.room
  BY DEF GameroomSync, Gamerooms
<1>3. GameroomSync(g, y).desired \in {"unready", "ready"}
  BY <1>1 DEF Gamerooms
<1> HIDE DEF GameroomSync
<1>4. Plain(When(HasSession(y) /\ y.running /\ ~g.joined, Request("session_join", NULL, "none")))
  BY PlainRequests DEF When
<1>5. Plain(When(AutoReady(g, y), Request("setplayer", GameroomSync(g, y).desired, "none")))
  BY <1>3, PlainRequests DEF When
<1>6. Plain(SyncRequests(g, y))
  BY <1>4, <1>5, PlainJoined DEF SyncRequests
<1> QED
  BY <1>1, <1>2, <1>6

(* What is asked of the chat service. *)
Presences == [op : {"leave", "enter"}, chat : Chats, live : BOOLEAN]
AllLive(ms) == ms \in Seq(Presences) /\ \A i \in DOMAIN ms : ms[i].live

LEMMA JidsAreChats == RoomJids \subseteq Chats /\ \A c \in Channels : <<c, GLOBAL>> \in Chats
BY DEF RoomJids, Chats

LEMMA PresenceOutcome ==
  ASSUME NEW chat \in Chats \cup {NULL}
  PROVE  AllLive(Presence(Leaving(chat))) /\ AllLive(Presence(Entering(chat)))
<1>1. ASSUME NEW m, m \in {Leaving(chat), Entering(chat)} PROVE AllLive(Presence(m))
  <2>1. m.chat = chat /\ m.live /\ (chat # NULL => m \in Presences)
    <3>1. CASE m = Leaving(chat)
      BY <3>1 DEF Leaving, Presences
    <3>2. CASE m = Entering(chat)
      BY <3>2 DEF Entering, Presences
    <3> QED
      BY <1>1, <3>1, <3>2
  <2>2. CASE chat = NULL
    BY <2>1, <2>2 DEF Presence, When, AllLive
  <2>3. CASE chat # NULL
    <3>1. AllLive(<<m>>) /\ AllLive(<<>>)
      BY <2>1, <2>3 DEF AllLive
    <3> QED
      BY <3>1 DEF Presence, When
  <2> QED
    BY <2>2, <2>3
<1> QED
  BY <1>1

LEMMA MovesJoined ==
  ASSUME NEW a \in Seq(Presences), NEW b, AllLive(b)
  PROVE  /\ a \o b \in Seq(Presences)
         /\ (\A i \in DOMAIN a : a[i].live) => \A i \in DOMAIN (a \o b) : (a \o b)[i].live
<1>1. b \in Seq(Presences)
  BY DEF AllLive
<1>2. a \o b \in Seq(Presences)
  BY <1>1
<1>3. ASSUME NEW i \in DOMAIN (a \o b)
      PROVE  \/ i \in DOMAIN a /\ (a \o b)[i] = a[i]
             \/ i - Len(a) \in DOMAIN b /\ (a \o b)[i] = b[i - Len(a)]
  BY <1>1
<1> QED
  BY <1>2, <1>3 DEF AllLive

-----------------------------------------------------------------------------
(* What a masterserver answers. *)
LEMMA GrantsOf ==
  ASSUME NEW c, NEW a \in Grants(c)
  PROVE  LET q == Head(wire[c]) IN
         /\ q.op = "join" =>
              \E running \in BOOLEAN : a = Granted(c, Seat(q.arg, running, "unready"), "all")
         /\ q.op = "open" => \E r \in RoomIds : a = Granted(c, Seat(r, FALSE, "unready"), "all")
         /\ q.op = "leave" => seat[c].id # NULL /\ a = Granted(c, NoSeat, "none")
         /\ q.op = "setplayer" =>
              /\ seat[c].id # NULL
              /\ \E own \in {q.arg, "restricted"}, nodes \in {"all", "core"} :
                   a = Granted(c, Seat(seat[c].id, seat[c].running, own), nodes)
         /\ q.op = "edit" => seat[c].id # NULL /\ a = Granted(c, seat[c], "all")
         /\ q.op = "session_join" => seat[c].running /\ a = Granted(c, seat[c], "none")
         /\ q.op \in {"switch", "missions", "logout"} => a = Granted(c, seat[c], "none")
<1> DEFINE q == Head(wire[c])
<1>1. ASSUME q.op = "join"
      PROVE  \E running \in BOOLEAN : a = Granted(c, Seat(q.arg, running, "unready"), "all")
  <2>1. a \in JoinGrants(c, q.arg)
    BY <1>1 DEF Grants
  <2> QED
    BY <2>1 DEF JoinGrants
<1>2. ASSUME q.op = "open"
      PROVE  \E r \in RoomIds : a = Granted(c, Seat(r, FALSE, "unready"), "all")
  <2>1. a \in OpenGrants(c)
    BY <1>2 DEF Grants
  <2> QED
    BY <2>1 DEF OpenGrants
<1>3. ASSUME q.op = "leave" PROVE seat[c].id # NULL /\ a = Granted(c, NoSeat, "none")
  BY <1>3 DEF Grants
<1>4. ASSUME q.op = "setplayer"
      PROVE  /\ seat[c].id # NULL
             /\ \E own \in {q.arg, "restricted"}, nodes \in {"all", "core"} :
                  a = Granted(c, Seat(seat[c].id, seat[c].running, own), nodes)
  <2>1. seat[c].id # NULL /\ a \in PlayerGrants(c, q.arg)
    BY <1>4 DEF Grants
  <2> QED
    BY <2>1 DEF PlayerGrants
<1>5. ASSUME q.op = "edit" PROVE seat[c].id # NULL /\ a = Granted(c, seat[c], "all")
  <2>1. seat[c].id # NULL /\ a \in StayGrants(c, "all")
    BY <1>5 DEF Grants
  <2> QED
    BY <2>1 DEF StayGrants
<1>6. ASSUME q.op = "session_join" PROVE seat[c].running /\ a = Granted(c, seat[c], "none")
  <2>1. seat[c].running /\ a \in StayGrants(c, "none")
    BY <1>6 DEF Grants
  <2> QED
    BY <2>1 DEF StayGrants
<1>7. ASSUME q.op \in {"switch", "missions", "logout"} PROVE a = Granted(c, seat[c], "none")
  <2>1. a \in StayGrants(c, "none")
    BY <1>7 DEF Grants
  <2> QED
    BY <2>1 DEF StayGrants
<1> QED
  BY <1>1, <1>2, <1>3, <1>4, <1>5, <1>6, <1>7

LEMMA GrantsAreOk ==
  ASSUME NEW c, NEW a \in Grants(c)
  PROVE  a.res = "ok" /\ a.faults = 0
<1>1. \A s, nodes : Granted(c, s, nodes).res = "ok" /\ Granted(c, s, nodes).faults = 0
  BY DEF Granted, Told
<1>2. \/ a \in JoinGrants(c, Head(wire[c]).arg) \/ a \in OpenGrants(c)
      \/ a = Granted(c, NoSeat, "none") \/ a \in PlayerGrants(c, Head(wire[c]).arg)
      \/ a \in StayGrants(c, "all") \/ a \in StayGrants(c, "none")
  BY DEF Grants
<1>3. CASE a \in JoinGrants(c, Head(wire[c]).arg)
  BY <1>1, <1>3 DEF JoinGrants
<1>4. CASE a \in OpenGrants(c)
  BY <1>1, <1>4 DEF OpenGrants
<1>5. CASE a = Granted(c, NoSeat, "none")
  BY <1>1, <1>5
<1>6. CASE a \in PlayerGrants(c, Head(wire[c]).arg)
  BY <1>1, <1>6 DEF PlayerGrants
<1>7. CASE a \in StayGrants(c, "all") \/ a \in StayGrants(c, "none")
  BY <1>1, <1>7 DEF StayGrants
<1> QED
  BY <1>2, <1>3, <1>4, <1>5, <1>6, <1>7

LEMMA Outcome ==
  ASSUME wire \in Queues, seat \in [Channels -> Seats], NEW c \in Channels, wire[c] # <<>>,
         NEW a \in Outcomes(c)
  PROVE  /\ \/ a \in Grants(c) /\ a.res = "ok" /\ a.faults = 0
            \/ a.res \in {"error", "stale"} /\ a.seat = seat[c] /\ a.faults \in {0, 1}
         /\ a.res = "stale" => Head(wire[c]).op = "open"
<1>1. ASSUME NEW x \in Grants(c) PROVE x.res = "ok" /\ x.faults = 0
  BY GrantsAreOk
<1>2. ASSUME NEW x \in Refusals(c)
      PROVE  /\ x.res \in {"error", "stale"} /\ x.seat = seat[c] /\ x.faults \in {0, 1}
             /\ x.res = "stale" => Head(wire[c]).op = "open"
  BY <1>2 DEF Refusals, Told
<1> QED
  BY <1>1, <1>2 DEF Outcomes

LEMMA SyncOfSeat ==
  ASSUME NEW c \in Channels, NEW s \in Seats, s.id # NULL, NEW nodes \in Nodes
  PROVE  SyncOf(c, s, nodes) \in Syncs /\ SyncOf(c, s, nodes).room = <<c, s.id>>
BY DEF SyncOf, Syncs, Seats, RoomJids, Statuses

(* The head of the queue of c is answered "ok": *)
LEMMA Grant ==
  ASSUME GameroomAssumption, wire \in Queues, seat \in [Channels -> Seats], SeatInv,
         NEW c \in Channels, wire[c] # <<>>, NEW a \in Grants(c)
  PROVE  LET q == Head(wire[c]) IN
         /\ a.seat \in Seats /\ (a.seat.id = NULL => a.seat = NoSeat)
         /\ q.op \in {"join", "open"} =>
              /\ a.seat.id \in RoomIds /\ a.sync \in Syncs /\ a.sync.room = <<c, a.seat.id>>
         /\ q.op = "leave" => seat[c].id # NULL /\ a.seat = NoSeat
         /\ q.op \in {"setplayer", "edit"} =>
              /\ seat[c].id # NULL /\ a.seat.id = seat[c].id
              /\ a.sync \in Syncs /\ a.sync.room = <<c, a.seat.id>>
         /\ q.op = "session_join" => seat[c].id # NULL /\ a.seat = seat[c]
         /\ q.op \in {"switch", "missions", "logout"} => a.seat = seat[c]
<1> DEFINE q == Head(wire[c])
<1>1. q \in Requests
  BY Taken
<1> HIDE DEF q
<1>2. seat[c] \in Seats /\ (seat[c].id = NULL => seat[c] = NoSeat)
  BY DEF SeatInv
<1>3. \A s \in Seats : \A nodes \in Nodes :
        /\ Granted(c, s, nodes).seat = s
        /\ s.id # NULL => /\ Granted(c, s, nodes).sync \in Syncs
                          /\ Granted(c, s, nodes).sync.room = <<c, s.id>>
  BY SyncOfSeat DEF Granted, Told, Nodes
<1>4. \A s \in Seats : Granted(c, s, "none").seat = s
  BY DEF Granted, Told
<1> HIDE DEF Granted
<1>5. NULL \notin RoomIds /\ {"all", "core"} \subseteq Nodes /\ NoSeat \in Seats
  BY DEF GameroomAssumption, Nodes, NoSeat, Seat, Seats, Statuses
<1>6. ASSUME q.op = "join"
      PROVE  /\ a.seat \in Seats /\ a.seat.id \in RoomIds
             /\ a.sync \in Syncs /\ a.sync.room = <<c, a.seat.id>>
  <2>1. q.arg \in RoomIds
    BY <1>1, <1>6 DEF Requests
  <2>2. PICK running \in BOOLEAN : a = Granted(c, Seat(q.arg, running, "unready"), "all")
    BY <1>6, GrantsOf DEF q
  <2>3. PICK s : s = Seat(q.arg, running, "unready")
    OBVIOUS
  <2>4. s \in Seats /\ s.id \in RoomIds /\ s.id # NULL
    BY <1>5, <2>1, <2>3 DEF Seat, Seats, Statuses
  <2>5. a = Granted(c, s, "all") /\ "all" \in Nodes
    BY <1>5, <2>2, <2>3
  <2>6. a.seat = s /\ a.sync \in Syncs /\ a.sync.room = <<c, s.id>>
    BY <1>3, <2>4, <2>5
  <2> QED
    BY <2>4, <2>6
<1>7. ASSUME q.op = "open"
      PROVE  /\ a.seat \in Seats /\ a.seat.id \in RoomIds
             /\ a.sync \in Syncs /\ a.sync.room = <<c, a.seat.id>>
  <2>1. PICK r \in RoomIds : a = Granted(c, Seat(r, FALSE, "unready"), "all")
    BY <1>7, GrantsOf DEF q
  <2>2. PICK s : s = Seat(r, FALSE, "unready")
    OBVIOUS
  <2>3. s \in Seats /\ s.id \in RoomIds /\ s.id # NULL
    BY <1>5, <2>2 DEF Seat, Seats, Statuses
  <2>4. a = Granted(c, s, "all") /\ "all" \in Nodes
    BY <1>5, <2>1, <2>2
  <2>5. a.seat = s /\ a.sync \in Syncs /\ a.sync.room = <<c, s.id>>
    BY <1>3, <2>3, <2>4
  <2> QED
    BY <2>3, <2>5
<1>8. ASSUME q.op = "leave"
      PROVE  seat[c].id # NULL /\ a.seat = NoSeat
  <2>1. seat[c].id # NULL /\ a = Granted(c, NoSeat, "none")
    BY <1>8, GrantsOf DEF q
  <2> QED
    BY <1>4, <1>5, <1>8, <2>1
<1>9. ASSUME q.op = "setplayer"
      PROVE  /\ seat[c].id # NULL /\ a.seat \in Seats /\ a.seat.id = seat[c].id
             /\ a.sync \in Syncs /\ a.sync.room = <<c, a.seat.id>>
  <2>1. q.arg \in Statuses /\ "restricted" \in Statuses
    BY <1>1, <1>9 DEF Requests, Statuses
  <2>2. seat[c].id # NULL
    BY <1>9, GrantsOf DEF q
  <2>3. PICK own \in Statuses, nodes \in {"all", "core"} :
          a = Granted(c, Seat(seat[c].id, seat[c].running, own), nodes)
    <3>1. \E own \in {q.arg, "restricted"}, nodes \in {"all", "core"} :
            a = Granted(c, Seat(seat[c].id, seat[c].running, own), nodes)
      BY <1>9, GrantsOf DEF q
    <3> QED
      BY <2>1, <3>1
  <2>4. PICK s : s = Seat(seat[c].id, seat[c].running, own)
    OBVIOUS
  <2>5. s \in Seats /\ s.id = seat[c].id
    BY <1>2, <2>4 DEF Seat, Seats
  <2>6. a = Granted(c, s, nodes) /\ s.id # NULL /\ nodes \in Nodes
    BY <1>5, <2>2, <2>3, <2>4, <2>5
  <2>7. a.seat = s /\ a.sync \in Syncs /\ a.sync.room = <<c, s.id>>
    BY <1>3, <2>5, <2>6
  <2> QED
    BY <1>9, <2>2, <2>5, <2>6, <2>7
<1>10. ASSUME q.op = "edit"
      PROVE  /\ seat[c].id # NULL /\ a.seat \in Seats /\ a.seat.id = seat[c].id
             /\ a.sync \in Syncs /\ a.sync.room = <<c, a.seat.id>>
  <2>1. seat[c].id # NULL /\ a = Granted(c, seat[c], "all")
    BY <1>10, GrantsOf DEF q
  <2> QED
    BY <1>2, <1>3, <1>5, <1>10, <2>1
<1>11. ASSUME q.op = "session_join"
      PROVE  seat[c].id # NULL /\ a.seat = seat[c]
  <2>1. seat[c].running /\ a = Granted(c, seat[c], "none")
    BY <1>11, GrantsOf DEF q
  <2>2. seat[c].id # NULL
    BY <1>2, <2>1 DEF NoSeat, Seat
  <2> QED
    BY <1>2, <1>4, <1>11, <2>1, <2>2
<1>12. ASSUME q.op \in {"switch", "missions", "logout"}
      PROVE  a.seat = seat[c]
  <2>1. a = Granted(c, seat[c], "none")
    BY <1>12, GrantsOf DEF q
  <2> QED
    BY <1>2, <1>4, <1>12, <2>1
<1>13. \/ q.op \in {"join", "open", "leave", "setplayer", "edit", "session_join"}
       \/ q.op \in {"switch", "missions", "logout"}
  BY <1>1 DEF Requests
<1>14. a.seat \in Seats /\ (a.seat.id = NULL => a.seat = NoSeat)
  BY <1>2, <1>5, <1>6, <1>7, <1>8, <1>9, <1>10, <1>11, <1>12, <1>13
<1> QED
  BY <1>6, <1>7, <1>8, <1>9, <1>10, <1>11, <1>12, <1>14 DEF q

-----------------------------------------------------------------------------
(* The invariant, part by part. *)
LEMMA RoomInitInv == RoomInit => RoomInv
<1> SUFFICES ASSUME RoomInit PROVE RoomInv
  OBVIOUS
<1> USE GameroomAssumption
<1>1. \A c \in Channels : wire[c] = <<>> /\ DOMAIN wire[c] = {}
  BY DEF RoomInit
<1>2. RoomTypeOK
  <2>1. gr \in Gamerooms /\ NoSeat \in Seats
    BY DEF RoomInit, NoRoom, Gamerooms, NoSeat, Seat, Seats, Statuses
  <2>2. global \in Chats \cup {NULL} /\ (JoinGlobal => global \in Chats)
    <3>1. channel \in Channels /\ JoinGlobal \in BOOLEAN
      BY DEF RoomInit, GameroomAssumption
    <3>2. <<channel, GLOBAL>> \in Chats
      BY <3>1, JidsAreChats
    <3>3. global = IF JoinGlobal THEN <<channel, GLOBAL>> ELSE NULL
      BY DEF RoomInit
    <3> QED
      BY <3>1, <3>2, <3>3
  <2>3. moves \in Seq(Presences)
    <3>1. CASE JoinGlobal
      <4>1. PICK m : m = [op |-> "enter", chat |-> global, live |-> TRUE]
        OBVIOUS
      <4>2. m \in Presences
        BY <2>2, <3>1, <4>1 DEF Presences
      <4>3. moves = <<m>>
        BY <3>1, <4>1 DEF RoomInit
      <4> QED
        BY <4>2, <4>3
    <3>2. CASE ~JoinGlobal
      BY <3>2 DEF RoomInit
    <3> QED
      BY <3>1, <3>2
  <2>4. wire \in [Channels -> Seq(Requests)] /\ seat \in [Channels -> Seats]
    BY <2>1 DEF RoomInit
  <2>5. spent \in [commands : Nat, notices : Nat, faults : Nat]
    BY DEF RoomInit
  <2>6. /\ channel \in Channels /\ status \in {"lobby", "room", "playing"}
        /\ {safe, crashed, crossed, late} \subseteq BOOLEAN /\ chats \subseteq Chats /\ member \subseteq Chats
    BY DEF RoomInit, GameroomAssumption
  <2> QED
    BY <2>1, <2>2, <2>3, <2>4, <2>5, <2>6 DEF RoomTypeOK, Presences
<1>3. ~gr.leaving /\ gr.jid = NULL
  BY DEF RoomInit, NoRoom
<1>4. LeavingIsAnswered
  BY <1>1, <1>3 DEF LeavingIsAnswered
<1>5. ChatsInv
  BY DEF RoomInit, ChatsInv
<1>6. PlayersInv
  BY <1>3 DEF PlayersInv
<1>7. \A c \in Channels : seat[c] = NoSeat /\ NoSeat.id = NULL
  BY DEF RoomInit, NoSeat, Seat
<1>8. SeatInv
  BY <1>7 DEF SeatInv
<1>9. FlightInv
  BY <1>1 DEF FlightInv
<1>10. PlaceInv
  BY <1>3, <1>7 DEF PlaceInv, RoomInit, GameroomAssumption
<1> QED
  BY <1>2, <1>4, <1>5, <1>6, <1>8, <1>9, <1>10 DEF RoomInv

LEMMA Known ==
  ASSUME RoomInv
  PROVE  /\ wire \in Queues /\ gr \in Gamerooms /\ moves \in Seq(Presences)
         /\ seat \in [Channels -> Seats] /\ channel \in Channels
         /\ Leaves(wire, gr) /\ (~crossed /\ ~late => Flight(wire, channel, gr.jid))
         /\ gr.jid # NULL /\ ~crossed /\ ~late => NoneOf(wire, {"switch"})
<1>1. /\ wire \in Queues /\ gr \in Gamerooms /\ moves \in Seq(Presences)
      /\ seat \in [Channels -> Seats] /\ channel \in Channels
  BY DEF RoomInv, RoomTypeOK, Queues, Presences
<1>2. Leaves(wire, gr) /\ (~crossed /\ ~late => Flight(wire, channel, gr.jid))
  BY <1>1, Written DEF RoomInv
<1> QED
  BY <1>1, <1>2 DEF Flight, NoneOf

LEMMA Assembled ==
  ASSUME RoomTypeOK', Leaves(wire', gr'), ChatsInv', PlayersInv', SeatInv', PlaceInv',
         ~crossed' /\ ~late' => Flight(wire', channel', gr'.jid)
  PROVE  RoomInv'
<1>1. wire' \in Queues /\ gr' \in Gamerooms
  BY DEF RoomTypeOK, Queues
<1>2. LeavingIsAnswered' /\ FlightInv'
  BY <1>1, WrittenNext
<1> QED
  BY <1>2 DEF RoomInv

(* A command posts requests, and may change two fields of the room. *)
LEMMA CommandKept ==
  ASSUME RoomInv, Command, gr' \in Gamerooms, wire' \in Queues, crossed' \in BOOLEAN, crossed => crossed',
         gr'.jid = gr.jid, gr'.of = gr.of, gr'.players = gr.players, Leaves(wire', gr'),
         ~crossed' /\ ~late => Flight(wire', channel, gr.jid)
  PROVE  RoomInv'
<1>1. spent' \in [commands : Nat, notices : Nat, faults : Nat]
  <2>1. spent \in [commands : Nat, notices : Nat, faults : Nat]
    BY DEF RoomInv, RoomTypeOK
  <2> QED
    BY <2>1 DEF Command
<1>2. /\ channel' = channel /\ status' = status /\ safe' = safe /\ chats' = chats /\ global' = global
      /\ crashed' = crashed /\ moves' = moves /\ seat' = seat /\ member' = member /\ late' = late
  BY DEF Command, server
<1>3. RoomTypeOK'
  BY <1>1, <1>2 DEF RoomInv, RoomTypeOK, Queues
<1>4. ChatsInv' /\ PlayersInv' /\ SeatInv'
  BY <1>2 DEF RoomInv, ChatsInv, PlayersInv, SeatInv
<1>5. PlaceInv'
  BY <1>2 DEF RoomInv, PlaceInv
<1> QED
  BY <1>2, <1>3, <1>4, <1>5, Assembled

LEMMA AskPlainKept ==
  ASSUME RoomInv, Command, NEW q, Plain(<<q>>), Ask(q), gr' \in Gamerooms, gr'.leaving = gr.leaving,
         gr'.jid = gr.jid, gr'.of = gr.of, gr'.players = gr.players
  PROVE  RoomInv'
<1>1. /\ wire' = Post(wire, channel, <<q>>) /\ crossed' \in BOOLEAN /\ (crossed => crossed')
  BY DEF Ask, RoomInv, RoomTypeOK
<1>2. PICK qs : qs = <<q>>
  OBVIOUS
<1>3. wire' = Post(wire, channel, qs) /\ Plain(qs)
  BY <1>1, <1>2
<1>4. /\ wire' \in Queues /\ (NoLeave(wire) => NoLeave(wire')) /\ (OneLeave(wire) => OneLeave(wire'))
      /\ \A ch, jid : Flight(wire, ch, jid) => Flight(wire', ch, jid)
  BY <1>3, Known, PlainPosted
<1>5. Leaves(wire', gr')
  BY <1>4, Known DEF Leaves
<1> QED
  BY <1>1, <1>4, <1>5, Known, CommandKept

LEMMA AskRoomKept ==
  ASSUME RoomInv, Command, NEW q \in Requests, q.op \in {"join", "open", "missions"}, q.live, Ask(q),
         UNCHANGED gr
  PROVE  RoomInv'
<1>1. /\ wire' = Post(wire, channel, <<q>>) /\ crossed' \in BOOLEAN /\ (crossed => crossed')
      /\ ~crossed' => ~InFlight({"switch"})
  BY DEF Ask, RoomInv, RoomTypeOK, RoomOps
<1>2. ~crossed' => NoneOf(wire, {"switch"})
  BY <1>1, Known, Written
<1>3. /\ wire' \in Queues /\ (NoLeave(wire) => NoLeave(wire')) /\ (OneLeave(wire) => OneLeave(wire'))
      /\ \A jid : Flight(wire, channel, jid) /\ NoneOf(wire, {"switch"}) => Flight(wire', channel, jid)
  BY <1>1, Known, RoomOpPosted
<1>4. Leaves(wire', gr')
  BY <1>3, Known DEF Leaves
<1> QED
  BY <1>1, <1>2, <1>3, <1>4, Known, CommandKept

LEMMA SwitchKept ==
  ASSUME RoomInv, Command, NEW c \in Channels, NEW arg \in RoomIds \cup {NULL, "first"},
         NEW then \in {"none", "edit", "safe"}, SwitchTo(c, arg, then)
  PROVE  RoomInv'
<1> DEFINE q == Request("switch", arg, then)
<1>1. q \in Requests /\ q.op = "switch" /\ q.live
  BY DEF Request, Requests
<1> HIDE DEF q
<1>2. /\ wire' = Post(wire, c, <<q>>) /\ crossed' \in BOOLEAN /\ (crossed => crossed') /\ gr' = gr
      /\ ~crossed' => ~InFlight(RoomOps \cup {"switch"}) /\ gr.jid = NULL
  BY DEF SwitchTo, RoomInv, RoomTypeOK, q
<1>3. ~crossed' => NoneOf(wire, RoomOps \cup {"switch"})
  BY <1>2, Known, Written
<1>4. /\ wire' \in Queues /\ (NoLeave(wire) => NoLeave(wire')) /\ (OneLeave(wire) => OneLeave(wire'))
      /\ \A ch : Flight(wire, ch, NULL) /\ NoneOf(wire, RoomOps \cup {"switch"}) => Flight(wire', ch, NULL)
  BY <1>1, <1>2, Known, SwitchPosted
<1>5. Leaves(wire', gr')
  BY <1>2, <1>4, Known DEF Leaves
<1>6. ~crossed' /\ ~late => Flight(wire', channel, gr.jid)
  BY <1>2, <1>3, <1>4, Known
<1> QED
  BY <1>2, <1>4, <1>5, <1>6, Known, CommandKept

LEMMA CommandsInv ==
  ASSUME RoomInv, Commands
  PROVE  RoomInv'
<1>1. ASSUME NEW c \in Channels, NEW r \in RoomIds, Join(c, r) PROVE RoomInv'
  <2>1. Command
    BY <1>1 DEF Join
  <2>2. CASE c = channel
    <3>1. PICK q : q = Request("join", r, "none")
      OBVIOUS
    <3>2. q \in Requests /\ q.op = "join" /\ q.live
      BY <3>1 DEF Request, Requests
    <3>3. Ask(q) /\ UNCHANGED gr
      BY <1>1, <2>2, <3>1 DEF Join
    <3> QED
      BY <2>1, <3>2, <3>3, AskRoomKept
  <2>3. CASE c # channel
    BY <1>1, <2>1, <2>3, SwitchKept DEF Join
  <2> QED
    BY <2>2, <2>3
<1>2. ASSUME NEW c \in Channels, NEW then \in {"none", "edit"}, Open(c, then) PROVE RoomInv'
  <2>1. Command
    BY <1>2 DEF Open
  <2>2. CASE c = channel
    <3>1. PICK q : q = Request("open", "first", then)
      OBVIOUS
    <3>2. q \in Requests /\ q.op = "open" /\ q.live
      BY <3>1 DEF Request, Requests
    <3>3. Ask(q) /\ UNCHANGED gr
      BY <1>2, <2>2, <3>1 DEF Open
    <3> QED
      BY <2>1, <3>2, <3>3, AskRoomKept
  <2>3. CASE c # channel
    BY <1>2, <2>1, <2>3, SwitchKept DEF Open
  <2> QED
    BY <2>2, <2>3
<1>3. ASSUME NEW c \in Channels, Safe(c) \/ Channel(c) PROVE RoomInv'
  BY <1>3, SwitchKept DEF Safe, Channel
<1>4. ASSUME Leave PROVE RoomInv'
  <2>1. /\ Command /\ ~gr.leaving /\ gr' = [gr EXCEPT !.leaving = TRUE] /\ Ask(LeaveRequest)
    BY <1>4 DEF Leave, MayLeave
  <2>2. /\ wire' = Post(wire, channel, <<LeaveRequest>>) /\ crossed' \in BOOLEAN /\ (crossed => crossed')
        /\ ~crossed' => ~InFlight({"switch"})
    BY <2>1 DEF Ask, RoomInv, RoomTypeOK, RoomOps, LeaveRequest, Request
  <2>3. ~crossed' => NoneOf(wire, {"switch"})
    BY <2>2, Known, Written
  <2>4. /\ wire' \in Queues /\ (NoLeave(wire) => OneLeave(wire'))
        /\ \A jid : Flight(wire, channel, jid) /\ NoneOf(wire, {"switch"}) => Flight(wire', channel, jid)
    BY <2>2, Known, LeavePosted
  <2>5. gr' \in Gamerooms /\ gr'.leaving /\ gr'.jid = gr.jid /\ gr'.of = gr.of /\ gr'.players = gr.players
    BY <2>1, Known DEF Gamerooms
  <2>6. Leaves(wire', gr')
    BY <2>1, <2>4, <2>5, Known DEF Leaves
  <2> QED
    BY <2>1, <2>2, <2>3, <2>4, <2>5, <2>6, Known, CommandKept
<1>5. ASSUME NEW s \in {"ready", "unready"}, SetPlayer(s) PROVE RoomInv'
  <2>1. /\ gr' \in Gamerooms /\ gr'.leaving = gr.leaving /\ gr'.jid = gr.jid /\ gr'.of = gr.of
        /\ gr'.players = gr.players
    BY <1>5, Known DEF SetPlayer, Gamerooms
  <2>2. PICK q : q = Request("setplayer", s, "none")
    OBVIOUS
  <2>3. Plain(<<q>>) /\ Ask(q) /\ Command
    BY <1>5, <2>2, PlainRequests DEF SetPlayer
  <2> QED
    BY <2>1, <2>3, AskPlainKept
<1>6. ASSUME Edit PROVE RoomInv'
  <2>1. PICK q : q = Request("edit", NULL, "none")
    OBVIOUS
  <2>2. Plain(<<q>>) /\ Ask(q) /\ Command /\ gr' = gr
    BY <1>6, <2>1, PlainRequests DEF Edit
  <2> QED
    BY <2>2, Known, AskPlainKept
<1> QED
  BY <1>1, <1>2, <1>3, <1>4, <1>5, <1>6 DEF Commands

-----------------------------------------------------------------------------
(* An answer seats the client, or leaves it where it was. *)
LEMMA SeatTold ==
  ASSUME RoomInv, NEW c \in Channels, wire[c] # <<>>, NEW a \in Outcomes(c)
  PROVE  /\ a.seat \in Seats /\ (a.seat.id = NULL => a.seat = NoSeat) /\ a.faults \in {0, 1}
         /\ a.res = "ok" => a \in Grants(c)
         /\ a.res # "ok" => a.seat = seat[c]
<1>1. SeatInv
  BY DEF RoomInv
<1>2. seat[c] \in Seats /\ (seat[c].id = NULL => seat[c] = NoSeat)
  BY <1>1, Known DEF SeatInv
<1>3. CASE a \in Grants(c) /\ a.res = "ok" /\ a.faults = 0
  BY <1>1, <1>3, Known, Grant, GameroomAssumption
<1>4. CASE a.res \in {"error", "stale"} /\ a.seat = seat[c] /\ a.faults \in {0, 1}
  BY <1>2, <1>4
<1> QED
  BY <1>3, <1>4, Known, Outcome

(* Answers: what handing one over comes to, *)
LEMMA Answering ==
  ASSUME RoomInv, NEW c \in Channels, NEW op, NEW a \in Outcomes(c), Handle(c, op, a)
  PROVE  LET q == wire[c][1] IN
         /\ wire[c] # <<>> /\ Head(wire[c]) = q /\ q \in Requests /\ q.op = op /\ q.live
         /\ Popped(c) = Pop(wire, c) /\ Popped(c) \in Queues
         /\ NoLeave(wire) => NoLeave(Popped(c))
         /\ OneLeave(wire) /\ op # "leave" => OneLeave(Popped(c))
         /\ op = "leave" => NoLeave(Popped(c))
         /\ \A ops : NoneOf(wire, ops) => NoneOf(Popped(c), ops)
         /\ \A ch, jid : Flight(wire, ch, jid) => Flight(Popped(c), ch, jid)
         /\ seat' = [seat EXCEPT ![c] = a.seat] /\ seat' \in [Channels -> Seats] /\ SeatInv'
         /\ spent' \in [commands : Nat, notices : Nat, faults : Nat]
         /\ chats' = chats /\ member' = member /\ crossed' = crossed /\ late' = late
         /\ a.res # "ok" => a.seat = seat[c]
<1>1. /\ wire[c] # <<>> /\ Head(wire[c]).live /\ Head(wire[c]).op = op
      /\ seat' = [seat EXCEPT ![c] = a.seat] /\ spent' = [spent EXCEPT !.faults = @ + a.faults]
      /\ chats' = chats /\ member' = member /\ crossed' = crossed /\ late' = late
  BY DEF Handle
<1>2. Head(wire[c]) \in Requests /\ Head(wire[c]) = wire[c][1] /\ 1 \in DOMAIN wire[c]
  BY <1>1, Known, Taken
<1>3. Popped(c) = Pop(wire, c) /\ Popped(c) \in Queues
  BY <1>1, Known, Taken DEF Popped, Pop
<1>4. LeaveAt(wire, c, 1) <=> op = "leave"
  BY <1>1, <1>2 DEF LeaveAt
<1>5. /\ NoLeave(wire) => NoLeave(Popped(c))
      /\ OneLeave(wire) /\ op # "leave" => OneLeave(Popped(c))
      /\ OneLeave(wire) /\ op = "leave" => NoLeave(Popped(c))
      /\ \A ops : NoneOf(wire, ops) => NoneOf(Popped(c), ops)
      /\ \A ch, jid : Flight(wire, ch, jid) => Flight(Popped(c), ch, jid)
  BY <1>1, <1>3, <1>4, Known, HeadTaken
<1>6. op = "leave" => NoLeave(Popped(c))
  BY <1>5, Known DEF Leaves
<1>7. /\ a.seat \in Seats /\ (a.seat.id = NULL => a.seat = NoSeat) /\ a.faults \in {0, 1}
      /\ a.res # "ok" => a.seat = seat[c]
  BY <1>1, SeatTold
<1>8. seat' \in [Channels -> Seats]
  BY <1>1, <1>7, Known
<1>9. SeatInv'
  BY <1>1, <1>7, Known DEF RoomInv, SeatInv
<1>10. spent' \in [commands : Nat, notices : Nat, faults : Nat]
  <2>1. spent \in [commands : Nat, notices : Nat, faults : Nat]
    BY DEF RoomInv, RoomTypeOK
  <2>2. spent.faults + a.faults \in Nat
    BY <1>7, <2>1
  <2> QED
    BY <1>1, <2>1, <2>2
<1> QED
  BY <1>1, <1>2, <1>3, <1>5, <1>6, <1>7, <1>8, <1>9, <1>10

(* what is left to show, *)
LEMMA AnswerKept ==
  ASSUME RoomInv, NEW c \in Channels, NEW op, NEW a \in Outcomes(c), Handle(c, op, a),
         channel' \in Channels, gr' \in Gamerooms, status' \in {"lobby", "room", "playing"},
         safe' \in BOOLEAN, crashed' \in BOOLEAN, global' \in Chats \cup {NULL},
         wire' \in Queues, moves' \in Seq(Presences),
         (\A i \in DOMAIN moves : moves[i].live) => \A i \in DOMAIN moves' : moves'[i].live,
         Leaves(wire', gr'), ~crossed /\ ~late => Flight(wire', channel', gr'.jid),
         PlayersInv', PlaceInv'
  PROVE  RoomInv'
<1>1. /\ seat' \in [Channels -> Seats] /\ SeatInv' /\ spent' \in [commands : Nat, notices : Nat, faults : Nat]
      /\ chats' = chats /\ member' = member /\ crossed' = crossed /\ late' = late
  BY Answering
<1>2. RoomTypeOK'
  <2>1. /\ crossed \in BOOLEAN /\ late \in BOOLEAN /\ chats \subseteq Chats /\ member \subseteq Chats
    BY DEF RoomInv, RoomTypeOK
  <2> QED
    BY <1>1, <2>1 DEF RoomTypeOK, Queues, Presences
<1>3. ChatsInv'
  BY <1>1 DEF RoomInv, ChatsInv
<1> QED
  BY <1>1, <1>2, <1>3, Assembled

(* and nothing when the callback does nothing. *)
LEMMA FailedKept ==
  ASSUME RoomInv, NEW c \in Channels, NEW op, op # "leave", NEW a \in Outcomes(c), Handle(c, op, a),
         a.seat = seat[c], Failed(c)
  PROVE  RoomInv'
<1>1. /\ wire' = Popped(c) /\ channel' = channel /\ gr' = gr /\ status' = status /\ safe' = safe
      /\ global' = global /\ crashed' = crashed /\ moves' = moves
  BY DEF Failed
<1>2. /\ Popped(c) \in Queues /\ (NoLeave(wire) => NoLeave(Popped(c)))
      /\ (OneLeave(wire) => OneLeave(Popped(c)))
      /\ \A ch, jid : Flight(wire, ch, jid) => Flight(Popped(c), ch, jid)
      /\ crossed' = crossed /\ late' = late /\ seat' = [seat EXCEPT ![c] = a.seat]
  BY Answering
<1>3. seat' = seat
  BY <1>2, Known
<1>4. PlayersInv' /\ PlaceInv'
  BY <1>1, <1>2, <1>3 DEF RoomInv, PlayersInv, PlaceInv
<1>5. Leaves(wire', gr') /\ (~crossed /\ ~late => Flight(wire', channel', gr'.jid))
  BY <1>1, <1>2, Known DEF Leaves
<1>6. /\ channel' \in Channels /\ gr' \in Gamerooms /\ status' \in {"lobby", "room", "playing"}
      /\ safe' \in BOOLEAN /\ crashed' \in BOOLEAN /\ global' \in Chats \cup {NULL}
      /\ moves' \in Seq(Presences)
  BY <1>1, Known DEF RoomInv, RoomTypeOK
<1> QED
  BY <1>1, <1>2, <1>4, <1>5, <1>6, AnswerKept

(* The client enters a room, *)
LEMMA Entered ==
  ASSUME RoomInv, NEW y \in Syncs, EnterRoom(y)
  PROVE  /\ gr' \in Gamerooms /\ gr'.leaving = gr.leaving /\ gr'.players /\ gr'.of = y.room
         /\ gr'.jid = <<channel, y.room[2]>> /\ status' = "room"
         /\ moves' \in Seq(Presences)
         /\ (\A i \in DOMAIN moves : moves[i].live) => \A i \in DOMAIN moves' : moves'[i].live
         /\ Plain(EntryRequests(y))
<1> DEFINE jid == <<channel, y.room[2]>>
           g == [Cleared(gr) EXCEPT !.jid = jid, !.desired = "ready"]
<1>1. jid \in RoomJids
  BY Known DEF Syncs, RoomJids
<1>2. g \in Gamerooms /\ g.leaving = gr.leaving /\ g.players /\ g.jid = jid
  BY <1>1, Known DEF Cleared, Gamerooms
<1>3. gr' = GameroomSync(g, y) /\ status' = "room"
  BY DEF EnterRoom
<1>4. /\ gr' \in Gamerooms /\ gr'.leaving = gr.leaving /\ gr'.players /\ gr'.of = y.room /\ gr'.jid = jid
  BY <1>2, <1>3, SyncOutcome
<1>5. [Cleared(gr) EXCEPT !.desired = "ready"] \in Gamerooms
  BY Known DEF Cleared, Gamerooms
<1>6. Plain(EntryRequests(y))
  BY <1>5, SyncOutcome DEF EntryRequests
<1>7. /\ moves' \in Seq(Presences)
      /\ (\A i \in DOMAIN moves : moves[i].live) => \A i \in DOMAIN moves' : moves'[i].live
  <2>1. gr.jid \in Chats \cup {NULL} /\ global \in Chats \cup {NULL} /\ jid \in Chats \cup {NULL}
    BY <1>1, Known, JidsAreChats DEF Gamerooms, RoomInv, RoomTypeOK
  <2>2. PICK p1, p2, p3 : /\ p1 = Presence(Leaving(gr.jid)) /\ p2 = Presence(Leaving(global))
                         /\ p3 = Presence(Entering(jid))
    OBVIOUS
  <2>3. AllLive(p1) /\ AllLive(p2) /\ AllLive(p3)
    BY <2>1, <2>2, PresenceOutcome
  <2>4. moves' = ((moves \o p1) \o p2) \o p3
    BY <2>2 DEF EnterRoom
  <2>5. /\ moves \o p1 \in Seq(Presences)
        /\ (\A i \in DOMAIN moves : moves[i].live) => \A i \in DOMAIN (moves \o p1) : (moves \o p1)[i].live
    BY <2>3, Known, MovesJoined
  <2>6. PICK m1 : m1 = moves \o p1
    OBVIOUS
  <2>7. /\ m1 \o p2 \in Seq(Presences)
        /\ (\A i \in DOMAIN m1 : m1[i].live) => \A i \in DOMAIN (m1 \o p2) : (m1 \o p2)[i].live
    BY <2>3, <2>5, <2>6, MovesJoined
  <2>8. PICK m2 : m2 = m1 \o p2
    OBVIOUS
  <2>9. /\ m2 \o p3 \in Seq(Presences)
        /\ (\A i \in DOMAIN m2 : m2[i].live) => \A i \in DOMAIN (m2 \o p3) : (m2 \o p3)[i].live
    BY <2>3, <2>7, <2>8, MovesJoined
  <2> QED
    BY <2>4, <2>5, <2>6, <2>7, <2>8, <2>9
<1> QED
  BY <1>3, <1>4, <1>6, <1>7

(* or is out of it. *)
LEMMA RoomLeft ==
  ASSUME RoomInv, NEW g \in Gamerooms, OutOfRoom(g)
  PROVE  /\ gr' \in Gamerooms /\ gr'.leaving = g.leaving /\ gr'.jid = NULL /\ status' = "lobby"
         /\ moves' \in Seq(Presences)
         /\ (\A i \in DOMAIN moves : moves[i].live) => \A i \in DOMAIN moves' : moves'[i].live
<1>1. gr' = [Freed(g) EXCEPT !.jid = NULL] /\ status' = "lobby"
  BY DEF OutOfRoom
<1>2. gr' \in Gamerooms /\ gr'.leaving = g.leaving /\ gr'.jid = NULL
  BY <1>1 DEF Freed, Gamerooms
<1>3. gr.jid \in Chats \cup {NULL} /\ global \in Chats \cup {NULL}
  BY Known, JidsAreChats DEF Gamerooms, RoomInv, RoomTypeOK
<1>4. PICK p1, p2 : p1 = Presence(Leaving(gr.jid)) /\ p2 = Presence(Entering(global))
  OBVIOUS
<1>5. AllLive(p1) /\ AllLive(p2)
  BY <1>3, <1>4, PresenceOutcome
<1>6. moves' = (moves \o p1) \o p2
  BY <1>4 DEF OutOfRoom
<1>7. /\ moves \o p1 \in Seq(Presences)
      /\ (\A i \in DOMAIN moves : moves[i].live) => \A i \in DOMAIN (moves \o p1) : (moves \o p1)[i].live
  BY <1>5, Known, MovesJoined
<1>8. PICK m1 : m1 = moves \o p1
  OBVIOUS
<1>9. /\ m1 \o p2 \in Seq(Presences)
      /\ (\A i \in DOMAIN m1 : m1[i].live) => \A i \in DOMAIN (m1 \o p2) : (m1 \o p2)[i].live
  BY <1>5, <1>7, <1>8, MovesJoined
<1> QED
  BY <1>1, <1>2, <1>6, <1>7, <1>8, <1>9

(* A further sync of the room. *)
LEMMA Applied ==
  ASSUME RoomInv, NEW w \in Queues, NEW g \in Gamerooms, NEW y \in Syncs, ApplySync(w, g, y),
         g.jid = gr.jid, g.leaving = gr.leaving, g.players = gr.players
  PROVE  /\ gr' \in Gamerooms /\ gr'.leaving = gr.leaving /\ gr'.jid = gr.jid /\ gr'.players = gr.players
         /\ crashed' \in BOOLEAN /\ (gr.players => crashed' = crashed /\ gr'.of = y.room)
         /\ wire' \in Queues /\ (NoLeave(w) => NoLeave(wire')) /\ (OneLeave(w) => OneLeave(wire'))
         /\ \A ch, jid : Flight(w, ch, jid) => Flight(wire', ch, jid)
         /\ channel' = channel /\ status' = status /\ safe' = safe /\ global' = global /\ moves' = moves
<1>1. /\ channel' = channel /\ status' = status /\ safe' = safe /\ global' = global /\ moves' = moves
  BY DEF ApplySync
<1>2. CASE SyncCrashes(g, y)
  <2>1. crashed' = TRUE /\ gr' = gr /\ wire' = w /\ ~gr.players
    BY <1>2 DEF ApplySync, SyncCrashes
  <2> QED
    BY <1>1, <2>1, Known
<1>3. CASE ~SyncCrashes(g, y)
  <2>1. /\ gr' = GameroomSync(g, y) /\ wire' = Post(w, channel, SyncRequests(g, y)) /\ crashed' = crashed
    BY <1>3 DEF ApplySync
  <2>2. /\ gr' \in Gamerooms /\ gr'.leaving = gr.leaving /\ gr'.jid = gr.jid /\ gr'.players = gr.players
        /\ gr'.of = y.room /\ Plain(SyncRequests(g, y))
    BY <2>1, SyncOutcome
  <2>3. /\ wire' \in Queues /\ (NoLeave(w) => NoLeave(wire')) /\ (OneLeave(w) => OneLeave(wire'))
        /\ \A ch, jid : Flight(w, ch, jid) => Flight(wire', ch, jid)
    BY <2>1, <2>2, Known, PlainPosted
  <2>4. crashed' \in BOOLEAN
    BY <2>1 DEF RoomInv, RoomTypeOK
  <2> QED
    BY <1>1, <2>1, <2>2, <2>3, <2>4
<1> QED
  BY <1>2, <1>3
(* Nothing but the queues changes: a request that is about the room is followed by another. *)
LEMMA FollowedKept ==
  ASSUME RoomInv, NEW c \in Channels, NEW op \in {"join", "open", "missions"}, NEW a \in Outcomes(c),
         Handle(c, op, a), a.seat = seat[c], NEW q \in Requests, q.op \in {"open", "missions"}, q.live,
         wire' = Post(Popped(c), channel, <<q>>),
         UNCHANGED <<channel, gr, status, safe, global, crashed, moves>>
  PROVE  RoomInv'
<1>1. /\ wire[c] # <<>> /\ wire[c][1].op = op
      /\ Popped(c) \in Queues /\ (NoLeave(wire) => NoLeave(Popped(c)))
      /\ (OneLeave(wire) => OneLeave(Popped(c)))
      /\ \A ops : NoneOf(wire, ops) => NoneOf(Popped(c), ops)
      /\ \A ch, jid : Flight(wire, ch, jid) => Flight(Popped(c), ch, jid)
      /\ crossed' = crossed /\ late' = late /\ seat' = [seat EXCEPT ![c] = a.seat]
  BY Answering
<1>2. /\ wire' \in Queues /\ (NoLeave(wire) => NoLeave(wire')) /\ (OneLeave(wire) => OneLeave(wire'))
      /\ \A jid : Flight(Popped(c), channel, jid) /\ NoneOf(Popped(c), {"switch"}) =>
                 Flight(wire', channel, jid)
  BY <1>1, Known, RoomOpPosted
<1>3. ~crossed /\ ~late => Flight(wire', channel, gr.jid)
  <2> SUFFICES ASSUME ~crossed, ~late PROVE Flight(wire', channel, gr.jid)
    OBVIOUS
  <2>1. Flight(wire, channel, gr.jid) /\ op \in RoomOps
    BY Known DEF RoomOps
  <2>2. NoneOf(wire, {"switch"})
    BY <1>1, <2>1, Known, RoomOpAlone
  <2> QED
    BY <1>1, <1>2, <2>1, <2>2
<1>4. seat' = seat
  BY <1>1, Known
<1>5. PlayersInv' /\ PlaceInv'
  BY <1>1, <1>4 DEF RoomInv, PlayersInv, PlaceInv
<1>6. Leaves(wire', gr')
  BY <1>2, Known DEF Leaves
<1>7. /\ channel' \in Channels /\ gr' \in Gamerooms /\ status' \in {"lobby", "room", "playing"}
      /\ safe' \in BOOLEAN /\ crashed' \in BOOLEAN /\ global' \in Chats \cup {NULL}
      /\ moves' \in Seq(Presences)
  BY Known DEF RoomInv, RoomTypeOK
<1> QED
  BY <1>2, <1>3, <1>5, <1>6, <1>7, AnswerKept

(* The masterserver has let the client into a room. *)
LEMMA RoomEntered ==
  ASSUME RoomInv, NEW c \in Channels, NEW op \in {"join", "open"}, NEW a \in Outcomes(c),
         Handle(c, op, a), a.res = "ok", EnterRoom(a.sync), NEW qs, Plain(qs),
         wire' = Post(Popped(c), channel, qs), safe' \in BOOLEAN, UNCHANGED <<channel, global, crashed>>
  PROVE  RoomInv'
<1>1. /\ wire[c] # <<>> /\ wire[c][1].op = op /\ Head(wire[c]).op = op
      /\ Popped(c) \in Queues /\ (NoLeave(wire) => NoLeave(Popped(c)))
      /\ (OneLeave(wire) => OneLeave(Popped(c)))
      /\ \A ops : NoneOf(wire, ops) => NoneOf(Popped(c), ops)
      /\ \A ch, jid : Flight(wire, ch, jid) => Flight(Popped(c), ch, jid)
      /\ crossed' = crossed /\ late' = late /\ seat' = [seat EXCEPT ![c] = a.seat]
  BY Answering
<1>2. a.seat.id \in RoomIds /\ a.sync \in Syncs /\ a.sync.room = <<c, a.seat.id>>
  <2>1. a \in Grants(c) /\ SeatInv
    BY <1>1, SeatTold DEF RoomInv
  <2> QED
    BY <1>1, <2>1, Known, Grant, GameroomAssumption
<1>3. PICK y \in Syncs : y = a.sync /\ y.room = <<c, a.seat.id>>
  BY <1>2
<1>4. /\ gr' \in Gamerooms /\ gr'.leaving = gr.leaving /\ gr'.players /\ gr'.of = <<c, a.seat.id>>
      /\ gr'.jid = <<channel, a.seat.id>> /\ status' = "room" /\ moves' \in Seq(Presences)
      /\ (\A i \in DOMAIN moves : moves[i].live) => \A i \in DOMAIN moves' : moves'[i].live
  BY <1>3, Entered
<1>5. /\ wire' \in Queues /\ (NoLeave(wire) => NoLeave(wire')) /\ (OneLeave(wire) => OneLeave(wire'))
      /\ \A ch, jid : Flight(Popped(c), ch, jid) => Flight(wire', ch, jid)
  BY <1>1, Known, PlainPosted
<1>6. ASSUME ~crossed, ~late
      PROVE  c = channel /\ NoneOf(Popped(c), {"switch"}) /\ Flight(Popped(c), channel, gr.jid)
  <2>1. Flight(wire, channel, gr.jid) /\ op \in RoomOps
    BY <1>6, Known DEF RoomOps
  <2>2. c = channel /\ NoneOf(wire, {"switch"})
    BY <1>1, <2>1, Known, RoomOpAlone
  <2> QED
    BY <1>1, <2>1, <2>2
<1>7. ~crossed /\ ~late => Flight(wire', channel', gr'.jid)
  <2> SUFFICES ASSUME ~crossed, ~late PROVE Flight(wire', channel, gr'.jid)
    OBVIOUS
  <2>1. Flight(Popped(c), channel, gr'.jid)
    BY <1>1, <1>6, OtherRoom
  <2> QED
    BY <1>5, <2>1
<1>8. PlaceInv'
  <2> SUFFICES ASSUME ~crossed, ~late
               PROVE  (/\ ~crashed
                       /\ \A d \in Channels : d # channel => seat[d].id = NULL
                       /\ gr.jid = IF seat[channel].id = NULL THEN NULL ELSE <<channel, seat[channel].id>>
                       /\ gr.jid # NULL => gr.of = gr.jid
                       /\ (status = "lobby") <=> (gr.jid = NULL))'
    BY <1>1 DEF PlaceInv
  <2>1. ~crashed /\ \A d \in Channels : d # channel => seat[d].id = NULL
    BY DEF RoomInv, PlaceInv
  <2>2. c = channel
    BY <1>6
  <2>3. /\ seat'[channel] = a.seat /\ \A d \in Channels : d # channel => seat'[d] = seat[d]
    BY <1>1, <2>2, Known
  <2>4. a.seat.id # NULL /\ <<channel, a.seat.id>> # NULL
    BY <1>2, Known, GameroomAssumption DEF GameroomAssumption
  <2>5. gr'.of = gr'.jid /\ gr'.jid = <<channel, a.seat.id>> /\ status' = "room"
    BY <1>4, <2>2
  <2> QED
    BY <2>1, <2>3, <2>4, <2>5
<1>9. PlayersInv' /\ Leaves(wire', gr')
  BY <1>4, <1>5, Known DEF PlayersInv, Leaves
<1>10. channel' \in Channels /\ crashed' \in BOOLEAN /\ global' \in Chats \cup {NULL}
  BY Known DEF RoomInv, RoomTypeOK
<1> QED
  BY <1>4, <1>5, <1>7, <1>8, <1>9, <1>10, AnswerKept

LEMMA JoinInv ==
  ASSUME RoomInv, NEW c \in Channels, NEW a \in Outcomes(c), JoinAnswered(c, a)
  PROVE  RoomInv'
<1>1. Handle(c, "join", a)
  BY DEF JoinAnswered
<1>2. CASE a.res # "ok"
  BY <1>1, <1>2, Answering, FailedKept DEF JoinAnswered
<1>3. CASE a.res = "ok"
  <2>1. /\ EnterRoom(a.sync) /\ wire' = Post(Popped(c), channel, EntryRequests(a.sync))
        /\ UNCHANGED <<channel, safe, global, crashed>>
    BY <1>3 DEF JoinAnswered
  <2>2. a.sync \in Syncs
    <3>1. a \in Grants(c) /\ SeatInv /\ wire[c] # <<>> /\ Head(wire[c]).op = "join"
      BY <1>1, <1>3, SeatTold DEF RoomInv, Handle
    <3> QED
      BY <3>1, Known, Grant, GameroomAssumption
  <2>3. Plain(EntryRequests(a.sync)) /\ safe' \in BOOLEAN
    BY <2>1, <2>2, Entered DEF RoomInv, RoomTypeOK
  <2> QED
    BY <1>1, <1>3, <2>1, <2>3, RoomEntered
<1> QED
  BY <1>2, <1>3

LEMMA OpenInv ==
  ASSUME RoomInv, NEW c \in Channels, NEW a \in Outcomes(c), OpenAnswered(c, a)
  PROVE  RoomInv'
<1> DEFINE then == Head(wire[c]).then
           edit == Request("edit", NULL, "none")
<1>1. Handle(c, "open", a) /\ wire[c] # <<>> /\ Head(wire[c]).op = "open"
  BY DEF OpenAnswered, Handle
<1>2. Head(wire[c]) \in Requests
  BY <1>1, Answering
<1>3. then \in {"none", "edit", "safe"}
  BY <1>1, <1>2 DEF Requests
<1>4. a.res # "ok" => a.seat = seat[c]
  BY <1>1, SeatTold
<1>5. CASE a.res = "stale" /\ Head(wire[c]).arg = "first"
  <2>1. PICK q : q = Request("missions", "retry", then)
    OBVIOUS
  <2>2. q \in Requests /\ q.op = "missions" /\ q.live
    BY <1>3, <2>1 DEF Request, Requests
  <2>3. /\ wire' = Post(Popped(c), channel, <<q>>)
        /\ UNCHANGED <<channel, gr, status, safe, global, crashed, moves>>
    BY <1>5, <2>1 DEF OpenAnswered
  <2> QED
    BY <1>1, <1>4, <1>5, <2>2, <2>3, FollowedKept
<1>6. CASE a.res = "ok"
  <2>1. /\ EnterRoom(a.sync) /\ safe' = (safe \/ then = "safe")
        /\ wire' = Post(Popped(c), channel,
                        EntryRequests(a.sync) \o When(then = "safe", edit) \o When(then # "none", edit))
        /\ UNCHANGED <<channel, global, crashed>>
    BY <1>6 DEF OpenAnswered
  <2>2. a.sync \in Syncs
    <3>1. a \in Grants(c) /\ SeatInv
      BY <1>1, <1>6, SeatTold DEF RoomInv
    <3> QED
      BY <1>1, <3>1, Known, Grant, GameroomAssumption
  <2>3. Plain(When(then = "safe", edit)) /\ Plain(When(then # "none", edit))
    BY PlainRequests DEF When
  <2>4. Plain(EntryRequests(a.sync))
    BY <2>1, <2>2, Entered
  <2>5. PICK qs : qs = EntryRequests(a.sync) \o When(then = "safe", edit) \o When(then # "none", edit)
    OBVIOUS
  <2>6. Plain(qs)
    BY <2>3, <2>4, <2>5, PlainJoined
  <2>7. safe' \in BOOLEAN
    BY <2>1
  <2> QED
    BY <1>1, <1>6, <2>1, <2>5, <2>6, <2>7, RoomEntered
<1>7. CASE a.res # "ok" /\ ~(a.res = "stale" /\ Head(wire[c]).arg = "first")
  <2>1. Failed(c)
    BY <1>7 DEF OpenAnswered
  <2> QED
    BY <1>1, <1>4, <1>7, <2>1, FailedKept
<1> QED
  BY <1>5, <1>6, <1>7

LEMMA MissionsInv ==
  ASSUME RoomInv, NEW c \in Channels, NEW a \in Outcomes(c), MissionsAnswered(c, a)
  PROVE  RoomInv'
<1>1. Handle(c, "missions", a) /\ wire[c] # <<>> /\ Head(wire[c]).op = "missions"
  BY DEF MissionsAnswered, Handle
<1>2. Head(wire[c]) \in Requests
  BY <1>1, Answering
<1>3. a.seat = seat[c]
  <2>1. CASE a.res = "ok"
    <3>1. a \in Grants(c) /\ SeatInv
      BY <1>1, <2>1, SeatTold DEF RoomInv
    <3> QED
      BY <1>1, <3>1, Known, Grant, GameroomAssumption
  <2>2. CASE a.res # "ok"
    BY <1>1, <2>2, SeatTold
  <2> QED
    BY <2>1, <2>2
<1>4. CASE Failed(c)
  BY <1>1, <1>3, <1>4, FailedKept
<1>5. CASE ~Failed(c)
  <2>1. PICK q : q = Request("open", Head(wire[c]).arg, Head(wire[c]).then)
    OBVIOUS
  <2>2. q \in Requests /\ q.op = "open" /\ q.live
    BY <1>1, <1>2, <2>1 DEF Request, Requests
  <2>3. /\ wire' = Post(Popped(c), channel, <<q>>)
        /\ UNCHANGED <<channel, gr, status, safe, global, crashed, moves>>
    BY <1>5, <2>1 DEF MissionsAnswered
  <2> QED
    BY <1>1, <1>3, <2>2, <2>3, FollowedKept
<1> QED
  BY <1>4, <1>5
LEMMA LeaveInv ==
  ASSUME RoomInv, NEW c \in Channels, NEW a \in Outcomes(c), LeaveAnswered(c, a)
  PROVE  RoomInv'
<1> DEFINE g == [gr EXCEPT !.leaving = FALSE]
<1>1. /\ Handle(c, "leave", a) /\ wire' = Popped(c) /\ UNCHANGED <<channel, global, crashed>>
      /\ IF a.res # "ok" THEN gr' = g /\ UNCHANGED <<status, safe, moves>>
         ELSE OutOfRoom(g) /\ safe' = FALSE
  BY DEF LeaveAnswered
<1>2. /\ wire[c] # <<>> /\ wire[c][1].op = "leave" /\ Head(wire[c]).op = "leave"
      /\ Popped(c) \in Queues /\ NoLeave(Popped(c))
      /\ \A ch, jid : Flight(wire, ch, jid) => Flight(Popped(c), ch, jid)
      /\ crossed' = crossed /\ late' = late /\ seat' = [seat EXCEPT ![c] = a.seat]
  BY <1>1, Answering
<1>3. g \in Gamerooms /\ ~g.leaving /\ g.jid = gr.jid /\ g.of = gr.of /\ g.players = gr.players
  BY Known DEF Gamerooms
<1> HIDE DEF g
<1>4. channel' \in Channels /\ crashed' \in BOOLEAN /\ global' \in Chats \cup {NULL}
  BY <1>1, Known DEF RoomInv, RoomTypeOK
<1>5. CASE a.res # "ok"
  <2>1. gr' = g /\ status' = status /\ safe' = safe /\ moves' = moves
    BY <1>1, <1>5
  <2>2. seat' = seat
    BY <1>1, <1>2, <1>5, Known, SeatTold
  <2>3. PlayersInv' /\ PlaceInv'
    BY <1>1, <1>2, <1>3, <2>1, <2>2 DEF RoomInv, PlayersInv, PlaceInv
  <2>4. Leaves(wire', gr') /\ (~crossed /\ ~late => Flight(wire', channel', gr'.jid))
    BY <1>1, <1>2, <1>3, <2>1, Known DEF Leaves
  <2>5. status' \in {"lobby", "room", "playing"} /\ safe' \in BOOLEAN /\ moves' \in Seq(Presences)
    BY <2>1, Known DEF RoomInv, RoomTypeOK
  <2> QED
    BY <1>1, <1>2, <1>3, <1>4, <2>1, <2>3, <2>4, <2>5, AnswerKept
<1>6. CASE a.res = "ok"
  <2>1. OutOfRoom(g) /\ safe' = FALSE
    BY <1>1, <1>6
  <2>2. /\ gr' \in Gamerooms /\ ~gr'.leaving /\ gr'.jid = NULL /\ status' = "lobby"
        /\ moves' \in Seq(Presences)
        /\ (\A i \in DOMAIN moves : moves[i].live) => \A i \in DOMAIN moves' : moves'[i].live
    BY <1>3, <2>1, RoomLeft
  <2>3. a.seat = NoSeat
    <3>1. a \in Grants(c) /\ SeatInv
      BY <1>1, <1>2, <1>6, SeatTold DEF RoomInv
    <3> QED
      BY <1>2, <3>1, Known, Grant, GameroomAssumption
  <2>4. ASSUME ~crossed, ~late PROVE c = channel /\ Flight(Popped(c), channel, NULL)
    <3>1. Flight(wire, channel, gr.jid)
      BY <2>4, Known
    <3>2. c = channel /\ NoneOf(wire, {"switch"})
      BY <1>2, <3>1, Known, RoomOpAlone DEF RoomOps
    <3> QED
      BY <1>2, <3>1, <3>2, OtherRoom
  <2>5. PlaceInv'
    <3> SUFFICES ASSUME ~crossed, ~late
                 PROVE  ~crashed' /\ \A d \in Channels : seat'[d].id = NULL
      BY <1>1, <1>2, <2>2, <1>4 DEF PlaceInv
    <3>1. ~crashed /\ \A d \in Channels : d # channel => seat[d].id = NULL
      BY DEF RoomInv, PlaceInv
    <3> QED
      BY <1>1, <1>2, <2>3, <2>4, <3>1, Known DEF NoSeat, Seat
  <2>6. PlayersInv' /\ Leaves(wire', gr') /\ (~crossed /\ ~late => Flight(wire', channel', gr'.jid))
    BY <1>1, <1>2, <2>2, <2>4 DEF PlayersInv, Leaves
  <2> QED
    BY <1>1, <1>2, <1>4, <2>1, <2>2, <2>5, <2>6, AnswerKept
<1> QED
  BY <1>5, <1>6

(* The answers that carry the room's new state. *)
LEMMA SyncInv ==
  ASSUME RoomInv, NEW c \in Channels, NEW a \in Outcomes(c),
         PlayerAnswered(c, a) \/ EditAnswered(c, a)
  PROVE  RoomInv'
<1>1. PICK op \in {"setplayer", "edit"} : Handle(c, op, a)
  BY DEF PlayerAnswered, EditAnswered
<1>2. /\ wire[c] # <<>> /\ wire[c][1].op = op /\ Head(wire[c]).op = op
      /\ Popped(c) \in Queues /\ (NoLeave(wire) => NoLeave(Popped(c)))
      /\ (OneLeave(wire) => OneLeave(Popped(c)))
      /\ \A ch, jid : Flight(wire, ch, jid) => Flight(Popped(c), ch, jid)
      /\ crossed' = crossed /\ late' = late /\ seat' = [seat EXCEPT ![c] = a.seat]
  BY <1>1, Answering
<1>3. CASE a.res # "ok"
  BY <1>1, <1>2, <1>3, SeatTold, FailedKept DEF PlayerAnswered, EditAnswered
<1>4. CASE a.res = "ok"
  <2>1. PICK g \in {gr, [gr EXCEPT !.joined = FALSE]} : ApplySync(Popped(c), g, a.sync)
    BY <1>4 DEF PlayerAnswered, EditAnswered
  <2>2. g \in Gamerooms /\ g.jid = gr.jid /\ g.leaving = gr.leaving /\ g.players = gr.players
    BY <2>1, Known DEF Gamerooms
  <2>3. seat[c].id # NULL /\ a.seat.id = seat[c].id /\ a.sync \in Syncs /\ a.sync.room = <<c, seat[c].id>>
    <3>1. a \in Grants(c) /\ SeatInv
      BY <1>2, <1>4, SeatTold DEF RoomInv
    <3> QED
      BY <1>2, <3>1, Known, Grant, GameroomAssumption
  <2>4. PICK y \in Syncs : y = a.sync /\ y.room = <<c, seat[c].id>>
    BY <2>3
  <2>5. /\ gr' \in Gamerooms /\ gr'.leaving = gr.leaving /\ gr'.jid = gr.jid /\ gr'.players = gr.players
        /\ crashed' \in BOOLEAN /\ (gr.players => crashed' = crashed /\ gr'.of = y.room)
        /\ wire' \in Queues
        /\ (NoLeave(Popped(c)) => NoLeave(wire')) /\ (OneLeave(Popped(c)) => OneLeave(wire'))
        /\ \A ch, jid : Flight(Popped(c), ch, jid) => Flight(wire', ch, jid)
        /\ channel' = channel /\ status' = status /\ safe' = safe /\ global' = global /\ moves' = moves
    BY <1>2, <2>1, <2>2, <2>4, Applied
  <2>6. PlaceInv'
    <3> SUFFICES ASSUME ~crossed, ~late
                 PROVE  (/\ ~crashed
                         /\ \A d \in Channels : d # channel => seat[d].id = NULL
                         /\ gr.jid = IF seat[channel].id = NULL THEN NULL ELSE <<channel, seat[channel].id>>
                         /\ gr.jid # NULL => gr.of = gr.jid
                         /\ (status = "lobby") <=> (gr.jid = NULL))'
      BY <1>2 DEF PlaceInv
    <3>1. /\ ~crashed /\ \A d \in Channels : d # channel => seat[d].id = NULL
          /\ gr.jid = IF seat[channel].id = NULL THEN NULL ELSE <<channel, seat[channel].id>>
          /\ (status = "lobby") <=> (gr.jid = NULL)
      BY DEF RoomInv, PlaceInv
    <3>2. c = channel /\ gr.jid = <<channel, seat[channel].id>> /\ gr.jid # NULL
      BY <2>3, <3>1, Known, GameroomAssumption DEF GameroomAssumption, Seats
    <3>3. gr.players
      BY <3>2 DEF RoomInv, PlayersInv
    <3>4. \A d \in Channels : seat'[d].id = seat[d].id
      BY <1>2, <2>3, Known
    <3> QED
      BY <2>4, <2>5, <3>1, <3>2, <3>3, <3>4, Known
  <2>7. PlayersInv'
    BY <2>5 DEF RoomInv, PlayersInv
  <2>8. Leaves(wire', gr') /\ (~crossed /\ ~late => Flight(wire', channel', gr'.jid))
    BY <1>2, <2>5, Known DEF Leaves
  <2>9. /\ channel' \in Channels /\ status' \in {"lobby", "room", "playing"} /\ safe' \in BOOLEAN
        /\ global' \in Chats \cup {NULL} /\ moves' \in Seq(Presences)
    BY <2>5, Known DEF RoomInv, RoomTypeOK
  <2> QED
    BY <1>1, <2>5, <2>6, <2>7, <2>8, <2>9, AnswerKept
<1> QED
  BY <1>3, <1>4

LEMMA SessionJoinInv ==
  ASSUME RoomInv, NEW c \in Channels, NEW a \in Outcomes(c), SessionJoinAnswered(c, a)
  PROVE  RoomInv'
<1>1. Handle(c, "session_join", a)
  BY DEF SessionJoinAnswered
<1>2. /\ wire[c] # <<>> /\ wire[c][1].op = "session_join" /\ Head(wire[c]).op = "session_join"
      /\ Popped(c) \in Queues /\ (NoLeave(wire) => NoLeave(Popped(c)))
      /\ (OneLeave(wire) => OneLeave(Popped(c)))
      /\ \A ops : NoneOf(wire, ops) => NoneOf(Popped(c), ops)
      /\ \A ch, jid : Flight(wire, ch, jid) => Flight(Popped(c), ch, jid)
      /\ crossed' = crossed /\ late' = late /\ seat' = [seat EXCEPT ![c] = a.seat]
  BY <1>1, Answering
<1>3. CASE a.res # "ok"
  BY <1>1, <1>2, <1>3, SeatTold, FailedKept DEF SessionJoinAnswered
<1>4. ASSUME a.res = "ok" PROVE seat[c].id # NULL /\ seat' = seat
  <2>1. a \in Grants(c) /\ SeatInv
    BY <1>2, <1>4, SeatTold DEF RoomInv
  <2>2. seat[c].id # NULL /\ a.seat = seat[c]
    BY <1>2, <2>1, Known, Grant, GameroomAssumption
  <2> QED
    BY <1>2, <2>2, Known
<1>5. ASSUME a.res = "ok", ~crossed, ~late PROVE gr.jid # NULL /\ status # "lobby"
  <2>1. /\ \A d \in Channels : d # channel => seat[d].id = NULL
        /\ gr.jid = IF seat[channel].id = NULL THEN NULL ELSE <<channel, seat[channel].id>>
        /\ (status = "lobby") <=> (gr.jid = NULL)
    BY <1>5 DEF RoomInv, PlaceInv
  <2> QED
    BY <1>4, <1>5, <2>1, Known, GameroomAssumption DEF GameroomAssumption, Seats
(* Whatever it does, it stays where it is. *)
<1>6. ASSUME a.res = "ok", gr' \in Gamerooms, gr'.jid = gr.jid, gr'.of = gr.of, gr'.players = gr.players,
             status' \in {"playing", status},
             wire' \in Queues, Leaves(wire', gr'), ~crossed /\ ~late => Flight(wire', channel, gr.jid),
             UNCHANGED <<channel, safe, global, crashed, moves>>
      PROVE  RoomInv'
  <2>1. PlayersInv'
    BY <1>6 DEF RoomInv, PlayersInv
  <2>2. PlaceInv'
    BY <1>2, <1>4, <1>5, <1>6 DEF RoomInv, PlaceInv
  <2>3. /\ channel' \in Channels /\ status' \in {"lobby", "room", "playing"} /\ safe' \in BOOLEAN
        /\ crashed' \in BOOLEAN /\ global' \in Chats \cup {NULL} /\ moves' \in Seq(Presences)
    BY <1>6, Known DEF RoomInv, RoomTypeOK
  <2> QED
    BY <1>1, <1>6, <2>1, <2>2, <2>3, AnswerKept
<1>7. CASE /\ a.res = "ok" /\ status' = "playing"
           /\ wire' = Post(Popped(c), channel, When(gr.match, Request("setplayer", "unready", "none")))
           /\ gr' = IF gr.match THEN [gr EXCEPT !.desired = "unready"] ELSE gr
           /\ UNCHANGED <<channel, safe, global, crashed, moves>>
  <2>1. /\ gr' \in Gamerooms /\ gr'.jid = gr.jid /\ gr'.of = gr.of /\ gr'.players = gr.players
        /\ gr'.leaving = gr.leaving
    BY <1>7, Known DEF Gamerooms
  <2>2. PICK qs : qs = When(gr.match, Request("setplayer", "unready", "none"))
    OBVIOUS
  <2>3. Plain(qs) /\ wire' = Post(Popped(c), channel, qs)
    BY <1>7, <2>2, PlainRequests DEF When
  <2>4. /\ wire' \in Queues /\ (NoLeave(wire) => NoLeave(wire')) /\ (OneLeave(wire) => OneLeave(wire'))
        /\ \A ch, jid : Flight(wire, ch, jid) => Flight(wire', ch, jid)
    BY <1>2, <2>3, Known, PlainPosted
  <2>5. Leaves(wire', gr') /\ (~crossed /\ ~late => Flight(wire', channel, gr.jid))
    BY <2>1, <2>4, Known DEF Leaves
  <2> QED
    BY <1>6, <1>7, <2>1, <2>4, <2>5
<1>8. CASE /\ a.res = "ok"
           /\ wire' = Post(Popped(c), channel, When(MayLeave, LeaveRequest))
           /\ gr' = IF MayLeave THEN [gr EXCEPT !.leaving = TRUE] ELSE gr
           /\ UNCHANGED <<channel, status, safe, global, crashed, moves>>
  <2>1. CASE MayLeave
    <3>1. /\ gr' \in Gamerooms /\ gr'.jid = gr.jid /\ gr'.of = gr.of /\ gr'.players = gr.players
          /\ gr'.leaving /\ ~gr.leaving /\ gr.jid # NULL
      BY <1>8, <2>1, Known DEF Gamerooms, MayLeave
    <3>2. wire' = Post(Popped(c), channel, <<LeaveRequest>>)
      BY <1>8, <2>1 DEF When
    <3>3. /\ wire' \in Queues /\ (NoLeave(Popped(c)) => OneLeave(wire'))
          /\ \A jid : Flight(Popped(c), channel, jid) /\ NoneOf(Popped(c), {"switch"}) =>
                     Flight(wire', channel, jid)
      BY <1>2, <3>2, Known, LeavePosted
    <3>4. Leaves(wire', gr')
      BY <1>2, <3>1, <3>3, Known DEF Leaves
    <3>5. ~crossed /\ ~late => Flight(wire', channel, gr.jid)
      BY <1>2, <3>1, <3>3, Known
    <3> QED
      BY <1>6, <1>8, <3>1, <3>3, <3>4, <3>5
  <2>2. CASE ~MayLeave
    <3>1. gr' = gr /\ wire' = Post(Popped(c), channel, <<>>)
      BY <1>8, <2>2 DEF When
    <3>2. /\ wire' \in Queues /\ (NoLeave(wire) => NoLeave(wire')) /\ (OneLeave(wire) => OneLeave(wire'))
          /\ \A ch, jid : Flight(wire, ch, jid) => Flight(wire', ch, jid)
      BY <1>2, <3>1, Known, PlainPosted, PlainRequests
    <3>3. Leaves(wire', gr') /\ (~crossed /\ ~late => Flight(wire', channel, gr.jid))
      BY <3>1, <3>2, Known DEF Leaves
    <3> QED
      BY <1>6, <1>8, <3>1, <3>2, <3>3, Known
  <2> QED
    BY <2>1, <2>2
<1> QED
  BY <1>3, <1>7, <1>8 DEF SessionJoinAnswered
(* The channel is joined, or not: the client leaves behind what it must. *)
LEMMA SwitchInv ==
  ASSUME RoomInv, NEW c \in Channels, NEW a \in Outcomes(c), SwitchAnswered(c, a)
  PROVE  RoomInv'
<1> DEFINE q == Head(wire[c])
           next == CASE q.arg = NULL -> <<>>
                     [] q.arg = "first" -> <<Request("open", q.arg, q.then)>>
                     [] OTHER -> <<Request("join", q.arg, "none")>>
           logout == When(channel # c, LogoutRequest)
           w1 == Popped(c)
           w2 == Post(w1, channel, When(MayLeave, LeaveRequest))
           w3 == Post(w2, c, next)
<1>1. /\ Handle(c, "switch", a) /\ safe' = safe /\ crashed' = crashed
      /\ IF a.res # "ok"
         THEN wire' = Post(w1, c, logout) /\ UNCHANGED <<channel, gr, status, global, moves>>
         ELSE /\ channel' = c /\ status' = "lobby"
              /\ gr' = IF MayLeave THEN [gr EXCEPT !.leaving = TRUE] ELSE gr
              /\ wire' = Post(w3, channel, logout)
              /\ IF JoinGlobal /\ global # <<c, GLOBAL>>
                 THEN /\ global' = <<c, GLOBAL>>
                      /\ moves' = moves \o Presence(Leaving(IF gr.jid = NULL THEN global ELSE NULL))
                                        \o Presence(Entering(<<c, GLOBAL>>))
                 ELSE UNCHANGED <<global, moves>>
  BY DEF SwitchAnswered, LogoutRequest
<1>2. /\ wire[c] # <<>> /\ wire[c][1].op = "switch" /\ q.op = "switch" /\ q \in Requests
      /\ w1 \in Queues /\ (NoLeave(wire) => NoLeave(w1)) /\ (OneLeave(wire) => OneLeave(w1))
      /\ \A ops : NoneOf(wire, ops) => NoneOf(w1, ops)
      /\ \A ch, jid : Flight(wire, ch, jid) => Flight(w1, ch, jid)
      /\ crossed' = crossed /\ late' = late /\ seat' = [seat EXCEPT ![c] = a.seat]
  BY <1>1, Answering
<1>3. \A ch, jid : Flight(wire, ch, jid) =>
        jid = NULL /\ NoneOf(w1, RoomOps \cup {"switch"}) /\ Flight(w1, c, jid)
  <2>1. w1 = Pop(wire, c) /\ wire \in Queues
    BY <1>1, Answering, Known
  <2>2. \A ch, jid : Flight(wire, ch, jid) =>
          jid = NULL /\ NoneOf(Pop(wire, c), RoomOps \cup {"switch"}) /\ Flight(Pop(wire, c), c, jid)
    <3> HIDE DEF q, next, logout, w1, w2, w3
    <3> QED
      BY <1>2, <2>1, HeadTaken
  <2> QED
    BY <2>1, <2>2
<1>4. seat' = seat
  <2>1. CASE a.res # "ok"
    BY <1>2, <2>1, Known, SeatTold
  <2>2. CASE a.res = "ok"
    <3>1. a \in Grants(c) /\ SeatInv
      BY <1>2, <2>2, SeatTold DEF RoomInv
    <3> QED
      BY <1>2, <3>1, Known, Grant, GameroomAssumption
  <2> QED
    BY <2>1, <2>2
<1>5. /\ Plain(<<>>)
      /\ \/ logout = <<>> /\ channel = c
         \/ logout = <<LogoutRequest>> /\ channel # c
  BY PlainRequests DEF When
<1>6. PICK ls : ls = logout
  OBVIOUS
<1>7. PICK w : w = w1
  OBVIOUS
<1> HIDE DEF logout, w1
<1>8. CASE a.res # "ok"
  <2>1. wire' = Post(w, c, ls) /\ UNCHANGED <<channel, gr, status, global, moves>>
    BY <1>1, <1>6, <1>7, <1>8
  <2>2. /\ wire' \in Queues /\ (NoLeave(w) => NoLeave(wire')) /\ (OneLeave(w) => OneLeave(wire'))
        /\ \A ch, jid : Flight(w, ch, jid) /\ NoneOf(w, {"switch"}) /\ ch = channel => Flight(wire', ch, jid)
    BY <1>2, <1>5, <1>6, <1>7, <2>1, PlainPosted, LogoutPosted
  <2>3. ~crossed /\ ~late => Flight(wire', channel, gr.jid)
    <3> SUFFICES ASSUME ~crossed, ~late PROVE Flight(wire', channel, gr.jid)
      OBVIOUS
    <3>1. Flight(wire, channel, gr.jid)
      BY Known
    <3>2. Flight(w, channel, gr.jid) /\ NoneOf(w, RoomOps \cup {"switch"})
      BY <1>2, <1>3, <1>7, <3>1
    <3>3. NoneOf(w, {"switch"})
      BY <3>2 DEF NoneOf
    <3> QED
      BY <2>2, <3>2, <3>3
  <2>4. PlayersInv' /\ PlaceInv'
    BY <1>1, <1>2, <1>4, <2>1 DEF RoomInv, PlayersInv, PlaceInv
  <2>5. Leaves(wire', gr')
    BY <1>2, <1>7, <2>1, <2>2, Known DEF Leaves
  <2>6. /\ channel' \in Channels /\ gr' \in Gamerooms /\ status' \in {"lobby", "room", "playing"}
        /\ safe' \in BOOLEAN /\ crashed' \in BOOLEAN /\ global' \in Chats \cup {NULL}
        /\ moves' \in Seq(Presences)
    BY <1>1, <2>1, Known DEF RoomInv, RoomTypeOK
  <2> QED
    BY <1>1, <2>1, <2>2, <2>3, <2>4, <2>5, <2>6, AnswerKept
<1>9. CASE a.res = "ok"
  <2>1. PICK ms : ms = When(MayLeave, LeaveRequest)
    OBVIOUS
  <2>2. PICK x, y : x = Post(w, channel, ms) /\ y = Post(x, c, next)
    OBVIOUS
  <2>3. /\ channel' = c /\ status' = "lobby"
        /\ gr' = IF MayLeave THEN [gr EXCEPT !.leaving = TRUE] ELSE gr
        /\ wire' = Post(y, channel, ls)
    BY <1>1, <1>6, <1>7, <1>9, <2>1, <2>2
  <2>4. /\ gr' \in Gamerooms /\ gr'.jid = gr.jid /\ gr'.of = gr.of /\ gr'.players = gr.players
        /\ MayLeave => gr'.leaving /\ ~gr.leaving /\ gr.jid # NULL
        /\ ~MayLeave => gr' = gr
    BY <2>3, Known DEF Gamerooms, MayLeave
  (* First the leave, *)
  <2>5. /\ x \in Queues /\ (MayLeave /\ NoLeave(w) => OneLeave(x))
        /\ ~MayLeave => /\ (NoLeave(w) => NoLeave(x)) /\ (OneLeave(w) => OneLeave(x))
                        /\ \A ch, jid : Flight(w, ch, jid) => Flight(x, ch, jid)
                        /\ NoneOf(w, {"switch"}) => NoneOf(x, {"switch"})
    <3>1. CASE MayLeave
      <4>1. ms = <<LeaveRequest>>
        BY <2>1, <3>1 DEF When
      <4> QED
        BY <1>2, <1>7, <2>2, <3>1, <4>1, Known, LeavePosted
    <3>2. CASE ~MayLeave
      <4>1. ms = <<>>
        BY <2>1, <3>2 DEF When
      <4>2. {"switch"} \cap {"setplayer", "edit", "session_join"} = {}
        OBVIOUS
      <4> QED
        BY <1>2, <1>5, <1>7, <2>2, <3>2, <4>1, <4>2, Known, PlainPosted
    <3> QED
      BY <3>1, <3>2
  (* then what waited for the channel, *)
  <2>6. /\ y \in Queues /\ (NoLeave(x) => NoLeave(y)) /\ (OneLeave(x) => OneLeave(y))
        /\ NoneOf(x, {"switch"}) => /\ NoneOf(y, {"switch"})
                                    /\ \A jid : Flight(x, c, jid) => Flight(y, c, jid)
    <3>1. CASE q.arg = NULL
      <4>1. next = <<>>
        BY <3>1, GameroomAssumption DEF GameroomAssumption
      <4>2. {"switch"} \cap {"setplayer", "edit", "session_join"} = {}
        OBVIOUS
      <4> QED
        BY <1>5, <2>2, <2>5, <4>1, <4>2, PlainPosted
    <3>2. CASE q.arg # NULL
      <4>1. PICK r : r = IF q.arg = "first" THEN Request("open", q.arg, q.then)
                                            ELSE Request("join", q.arg, "none")
        OBVIOUS
      <4>2. next = <<r>>
        BY <3>2, <4>1
      <4>3. r \in Requests /\ r.op \in {"join", "open", "missions"} /\ r.live
        <5>1. q.then \in {"none", "edit", "safe"} /\ q.arg \in RoomIds \cup {"first"}
          BY <1>2, <3>2 DEF Requests
        <5>2. CASE q.arg = "first"
          <6>1. r = Request("open", "first", q.then)
            BY <4>1, <5>2
          <6> QED
            BY <5>1, <6>1 DEF Request, Requests
        <5>3. CASE q.arg # "first"
          <6>1. r = Request("join", q.arg, "none") /\ q.arg \in RoomIds
            BY <4>1, <5>1, <5>3
          <6> QED
            BY <6>1 DEF Request, Requests
        <5> QED
          BY <5>2, <5>3
      <4> HIDE DEF next
      <4> QED
        BY <2>2, <2>5, <4>2, <4>3, RoomOpPosted
    <3> QED
      BY <3>1, <3>2
  (* and the client out of the channel it leaves. *)
  <2>7. /\ wire' \in Queues /\ (NoLeave(y) => NoLeave(wire')) /\ (OneLeave(y) => OneLeave(wire'))
        /\ \A jid : Flight(y, c, jid) /\ NoneOf(y, {"switch"}) => Flight(wire', c, jid)
    BY <1>5, <1>6, <2>3, <2>6, Known, PlainPosted, LogoutPosted
  <2>8. Leaves(wire', gr')
    <3>1. Leaves(w, gr)
      BY <1>2, <1>7, Known DEF Leaves
    <3> QED
      BY <2>4, <2>5, <2>6, <2>7, <3>1 DEF Leaves
  <2>9. ASSUME ~crossed, ~late PROVE gr' = gr /\ gr.jid = NULL /\ Flight(wire', c, NULL)
    <3>1. Flight(wire, channel, gr.jid)
      BY <2>9, Known
    <3>2. gr.jid = NULL /\ Flight(w, c, NULL) /\ NoneOf(w, RoomOps \cup {"switch"})
      BY <1>3, <1>7, <3>1
    <3>3. NoneOf(w, {"switch"})
      BY <3>2 DEF NoneOf
    <3>4. ~MayLeave
      BY <3>2 DEF MayLeave
    <3> QED
      BY <2>4, <2>5, <2>6, <2>7, <3>2, <3>3, <3>4
  <2>10. PlaceInv'
    <3> SUFFICES ASSUME ~crossed, ~late
                 PROVE  ~crashed' /\ gr'.jid = NULL /\ \A d \in Channels : seat'[d].id = NULL
      BY <1>2, <2>3 DEF PlaceInv
    <3>1. /\ ~crashed /\ \A d \in Channels : d # channel => seat[d].id = NULL
          /\ gr.jid = IF seat[channel].id = NULL THEN NULL ELSE <<channel, seat[channel].id>>
      BY DEF RoomInv, PlaceInv
    <3>2. seat[channel].id = NULL
      BY <2>9, <3>1, Known, GameroomAssumption DEF GameroomAssumption, Seats
    <3> QED
      BY <1>1, <1>4, <2>9, <3>1, <3>2
  <2>11. PlayersInv' /\ (~crossed /\ ~late => Flight(wire', channel', gr'.jid))
    BY <2>3, <2>4, <2>9 DEF RoomInv, PlayersInv
  <2>12. /\ global' \in Chats \cup {NULL} /\ moves' \in Seq(Presences)
         /\ (\A i \in DOMAIN moves : moves[i].live) => \A i \in DOMAIN moves' : moves'[i].live
    <3>1. CASE JoinGlobal /\ global # <<c, GLOBAL>>
      <4>1. PICK p1, p2 : /\ p1 = Presence(Leaving(IF gr.jid = NULL THEN global ELSE NULL))
                          /\ p2 = Presence(Entering(<<c, GLOBAL>>))
        OBVIOUS
      <4>2. global' = <<c, GLOBAL>> /\ moves' = (moves \o p1) \o p2
        BY <1>1, <1>9, <3>1, <4>1
      <4>3. <<c, GLOBAL>> \in Chats /\ (IF gr.jid = NULL THEN global ELSE NULL) \in Chats \cup {NULL}
        BY JidsAreChats DEF RoomInv, RoomTypeOK
      <4>4. AllLive(p1) /\ AllLive(p2)
        BY <4>1, <4>3, PresenceOutcome
      <4>5. /\ moves \o p1 \in Seq(Presences)
            /\ (\A i \in DOMAIN moves : moves[i].live) => \A i \in DOMAIN (moves \o p1) : (moves \o p1)[i].live
        BY <4>4, Known, MovesJoined
      <4>6. PICK m1 : m1 = moves \o p1
        OBVIOUS
      <4>7. /\ m1 \o p2 \in Seq(Presences)
            /\ (\A i \in DOMAIN m1 : m1[i].live) => \A i \in DOMAIN (m1 \o p2) : (m1 \o p2)[i].live
        BY <4>4, <4>5, <4>6, MovesJoined
      <4> QED
        BY <4>2, <4>3, <4>5, <4>6, <4>7
    <3>2. CASE ~(JoinGlobal /\ global # <<c, GLOBAL>>)
      <4>1. global' = global /\ moves' = moves
        BY <1>1, <1>9, <3>2
      <4> QED
        BY <4>1, Known DEF RoomInv, RoomTypeOK
    <3> QED
      BY <3>1, <3>2
  <2>13. channel' \in Channels /\ status' \in {"lobby", "room", "playing"} /\ safe' \in BOOLEAN
         /\ crashed' \in BOOLEAN
    BY <1>1, <2>3 DEF RoomInv, RoomTypeOK
  <2> QED
    BY <1>1, <2>4, <2>7, <2>8, <2>10, <2>11, <2>12, <2>13, AnswerKept
<1> QED
  BY <1>8, <1>9
(* An answer nobody hears takes the client out of no room it takes itself to be in. *)
LEMMA UnheardInv ==
  ASSUME RoomInv, NEW c \in Channels, Unheard(c)
  PROVE  RoomInv'
<1> DEFINE q == Head(wire[c])
<1>1. /\ wire[c] # <<>> /\ wire' = Popped(c) /\ gr' = gr /\ channel' = channel
      /\ UNCHANGED <<status, safe, chats, global, crashed, moves, member, crossed, late>>
  BY DEF Unheard, client
<1>2. PICK a \in Outcomes(c) :
        /\ ~q.live \/ q.op = "logout"
        /\ seat' = [seat EXCEPT ![c] = IF q.op = "logout" THEN NoSeat ELSE a.seat]
        /\ spent' = [spent EXCEPT !.faults = @ + a.faults]
  BY DEF Unheard
<1>3. q = wire[c][1] /\ ~LeaveAt(wire, c, 1)
  BY <1>1, <1>2, Known, Taken DEF LeaveAt
<1>4. wire' = Pop(wire, c) /\ wire' \in Queues
  BY <1>1, Known, Taken DEF Popped, Pop
<1>5. /\ (NoLeave(wire) => NoLeave(wire')) /\ (OneLeave(wire) => OneLeave(wire'))
      /\ \A ch, jid : Flight(wire, ch, jid) => Flight(wire', ch, jid)
  BY <1>1, <1>3, <1>4, Known, HeadTaken
<1>6. Leaves(wire', gr') /\ (~crossed /\ ~late => Flight(wire', channel, gr.jid))
  BY <1>1, <1>5, Known DEF Leaves
<1>7. a.seat \in Seats /\ (a.seat.id = NULL => a.seat = NoSeat) /\ a.faults \in {0, 1}
  BY <1>1, SeatTold
<1>8. NoSeat \in Seats /\ NoSeat.id = NULL
  BY DEF NoSeat, Seat, Seats, Statuses
<1>9. PICK s \in Seats : /\ seat' = [seat EXCEPT ![c] = s] /\ (s.id = NULL => s = NoSeat)
                         /\ q.op = "logout" => s = NoSeat
  BY <1>2, <1>7, <1>8
<1>10. seat' \in [Channels -> Seats] /\ SeatInv'
  BY <1>9, Known DEF RoomInv, SeatInv
<1>11. PlaceInv'
  <2> SUFFICES ASSUME ~crossed, ~late PROVE seat' = seat
    BY <1>1 DEF RoomInv, PlaceInv
  <2>1. Flight(wire, channel, gr.jid)
    BY Known
  <2>2. q.op = "logout" /\ c # channel
    BY <1>1, <1>2, <1>3, <2>1, Known, RoomOpAlone
  <2>3. seat[c] = NoSeat
    BY <2>2 DEF RoomInv, PlaceInv, SeatInv
  <2> QED
    BY <1>9, <2>2, <2>3, Known
<1>12. RoomTypeOK'
  <2>1. spent \in [commands : Nat, notices : Nat, faults : Nat]
    BY DEF RoomInv, RoomTypeOK
  <2>2. spent.faults + a.faults \in Nat
    BY <1>7, <2>1
  <2>3. spent' \in [commands : Nat, notices : Nat, faults : Nat]
    BY <1>2, <2>1, <2>2
  <2> QED
    BY <1>1, <1>4, <1>10, <2>3 DEF RoomInv, RoomTypeOK, Queues
<1>13. ChatsInv' /\ PlayersInv'
  BY <1>1 DEF RoomInv, ChatsInv, PlayersInv
<1> QED
  BY <1>1, <1>6, <1>10, <1>11, <1>12, <1>13, Assembled

(* Once a handler has expired only the flag of leave is still kept. *)
LEMMA ExpireInv ==
  ASSUME RoomInv, NEW c \in Channels, Expire(c)
  PROVE  RoomInv'
<1>1. /\ late' = TRUE /\ spent' = [spent EXCEPT !.faults = @ + 1]
      /\ UNCHANGED <<channel, status, safe, chats, global, crashed, moves, seat, member, crossed>>
  BY DEF Expire, server
<1>2. PICK i \in DOMAIN wire[c] :
        /\ wire[c][i].live
        /\ wire' = [wire EXCEPT ![c][i].live = FALSE]
        /\ gr' = IF wire[c][i].op = "leave" THEN [gr EXCEPT !.leaving = FALSE] ELSE gr
  BY DEF Expire
<1>3. /\ wire' \in Queues
      /\ NoLeave(wire) => NoLeave(wire')
      /\ OneLeave(wire) /\ wire[c][i].op # "leave" => OneLeave(wire')
      /\ OneLeave(wire) /\ wire[c][i].op = "leave" => NoLeave(wire')
  <2>1. wire' = Silence(wire, c, i)
    BY <1>2 DEF Silence
  <2>2. wire \in Queues /\ i \in DOMAIN wire[c] /\ wire[c][i].live
    BY <1>2, Known
  <2>3. /\ Silence(wire, c, i) \in Queues
        /\ NoLeave(wire) => NoLeave(Silence(wire, c, i))
        /\ OneLeave(wire) /\ wire[c][i].op # "leave" => OneLeave(Silence(wire, c, i))
        /\ OneLeave(wire) /\ wire[c][i].op = "leave" => NoLeave(Silence(wire, c, i))
    BY <2>2, Silenced
  <2> QED
    BY <2>1, <2>3
<1>4. /\ gr' \in Gamerooms /\ gr'.jid = gr.jid /\ gr'.players = gr.players
      /\ gr'.leaving = (gr.leaving /\ wire[c][i].op # "leave")
  BY <1>2, Known DEF Gamerooms
<1>5. Leaves(wire', gr')
  BY <1>3, <1>4, Known DEF Leaves
<1>6. RoomTypeOK'
  <2>1. spent' \in [commands : Nat, notices : Nat, faults : Nat]
    <3>1. spent \in [commands : Nat, notices : Nat, faults : Nat]
      BY DEF RoomInv, RoomTypeOK
    <3> QED
      BY <1>1, <3>1
  <2> QED
    BY <1>1, <1>3, <1>4, <2>1 DEF RoomInv, RoomTypeOK, Queues
<1>7. ChatsInv' /\ PlayersInv' /\ SeatInv' /\ PlaceInv'
  BY <1>1, <1>4 DEF RoomInv, ChatsInv, PlayersInv, SeatInv, PlaceInv
<1> QED
  BY <1>1, <1>5, <1>6, <1>7, Assembled

(* A notice. *)
LEMMA Noticed ==
  ASSUME RoomInv, NEW c \in Channels, NEW s \in Seats, s.id = NULL => s = NoSeat, Notice(c, s)
  PROVE  /\ seat[c].id # NULL /\ seat' = [seat EXCEPT ![c] = s]
         /\ seat' \in [Channels -> Seats] /\ SeatInv'
         /\ spent' \in [commands : Nat, notices : Nat, faults : Nat]
         /\ UNCHANGED <<chats, member, crossed, late>>
         /\ ~crossed /\ ~late => c = channel /\ gr.jid # NULL
<1>1. /\ seat[c].id # NULL /\ seat' = [seat EXCEPT ![c] = s] /\ UNCHANGED <<chats, member, crossed, late>>
      /\ spent' = [spent EXCEPT !.notices = @ + 1]
  BY DEF Notice
<1>2. seat' \in [Channels -> Seats]
  BY <1>1, Known
<1>3. SeatInv'
  BY <1>1, Known DEF RoomInv, SeatInv
<1>4. spent' \in [commands : Nat, notices : Nat, faults : Nat]
  <2>1. spent \in [commands : Nat, notices : Nat, faults : Nat]
    BY DEF RoomInv, RoomTypeOK
  <2> QED
    BY <1>1, <2>1
<1>5. ASSUME ~crossed, ~late PROVE c = channel /\ gr.jid # NULL
  <2>1. /\ \A d \in Channels : d # channel => seat[d].id = NULL
        /\ gr.jid = IF seat[channel].id = NULL THEN NULL ELSE <<channel, seat[channel].id>>
    BY <1>5 DEF RoomInv, PlaceInv
  <2> QED
    BY <1>1, <2>1, Known, GameroomAssumption DEF GameroomAssumption, Seats
<1> QED
  BY <1>1, <1>2, <1>3, <1>4, <1>5

LEMMA NotifiedInv ==
  ASSUME RoomInv, NEW c \in Channels, NEW s \in Seats, s.id = seat[c].id, NEW nodes \in Nodes,
         SyncNotified(c, s, nodes)
  PROVE  RoomInv'
<1>1. Notice(c, s) /\ seat[c].id # NULL
  BY DEF SyncNotified, Notice
<1>2. /\ seat' = [seat EXCEPT ![c] = s] /\ seat' \in [Channels -> Seats] /\ SeatInv'
      /\ spent' \in [commands : Nat, notices : Nat, faults : Nat]
      /\ UNCHANGED <<chats, member, crossed, late>>
      /\ ~crossed /\ ~late => c = channel /\ gr.jid # NULL
  BY <1>1, Noticed
<1>3. \A d \in Channels : seat'[d].id = seat[d].id
  BY <1>2, Known
<1>4. CASE gr.jid # NULL
  <2>1. PICK y \in Syncs : y = SyncOf(c, s, nodes) /\ y.room = <<c, s.id>>
    BY <1>1, SyncOfSeat
  <2>2. ApplySync(wire, gr, y)
    BY <1>4, <2>1 DEF SyncNotified
  <2>3. /\ gr' \in Gamerooms /\ gr'.leaving = gr.leaving /\ gr'.jid = gr.jid /\ gr'.players = gr.players
        /\ crashed' \in BOOLEAN /\ (gr.players => crashed' = crashed /\ gr'.of = y.room)
        /\ wire' \in Queues /\ (NoLeave(wire) => NoLeave(wire')) /\ (OneLeave(wire) => OneLeave(wire'))
        /\ \A ch, jid : Flight(wire, ch, jid) => Flight(wire', ch, jid)
        /\ channel' = channel /\ status' = status /\ safe' = safe /\ global' = global /\ moves' = moves
    BY <2>2, Known, Applied
  <2>4. gr.players
    BY <1>4 DEF RoomInv, PlayersInv
  <2>5. PlaceInv'
    <3> SUFFICES ASSUME ~crossed, ~late
                 PROVE  (/\ ~crashed
                         /\ \A d \in Channels : d # channel => seat[d].id = NULL
                         /\ gr.jid = IF seat[channel].id = NULL THEN NULL ELSE <<channel, seat[channel].id>>
                         /\ gr.jid # NULL => gr.of = gr.jid
                         /\ (status = "lobby") <=> (gr.jid = NULL))'
      BY <1>2 DEF PlaceInv
    <3>1. /\ ~crashed /\ \A d \in Channels : d # channel => seat[d].id = NULL
          /\ gr.jid = IF seat[channel].id = NULL THEN NULL ELSE <<channel, seat[channel].id>>
          /\ (status = "lobby") <=> (gr.jid = NULL)
      BY DEF RoomInv, PlaceInv
    <3>2. gr'.of = <<channel, seat[channel].id>> /\ gr.jid = <<channel, seat[channel].id>>
      BY <1>1, <1>2, <2>1, <2>3, <2>4, <3>1
    <3> QED
      BY <1>3, <2>3, <2>4, <3>1, <3>2, Known
  <2>6. RoomTypeOK'
    BY <1>2, <2>3 DEF RoomInv, RoomTypeOK, Queues
  <2>7. ChatsInv' /\ PlayersInv'
    BY <1>2, <2>3 DEF RoomInv, ChatsInv, PlayersInv
  <2>8. Leaves(wire', gr') /\ (~crossed' /\ ~late' => Flight(wire', channel', gr'.jid))
    BY <1>2, <2>3, Known DEF Leaves
  <2> QED
    BY <1>2, <2>5, <2>6, <2>7, <2>8, Assembled
<1>5. CASE gr.jid = NULL
  <2>1. UNCHANGED <<channel, gr, status, safe, global, crashed, wire, moves>>
    BY <1>5 DEF SyncNotified
  <2>2. RoomTypeOK'
    BY <1>2, <2>1 DEF RoomInv, RoomTypeOK
  <2>3. ChatsInv' /\ PlayersInv' /\ PlaceInv'
    BY <1>2, <1>5, <2>1 DEF RoomInv, ChatsInv, PlayersInv, PlaceInv
  <2>4. Leaves(wire', gr') /\ (~crossed' /\ ~late' => Flight(wire', channel', gr'.jid))
    BY <1>2, <2>1, Known
  <2> QED
    BY <1>2, <2>2, <2>3, <2>4, Assembled
<1> QED
  BY <1>4, <1>5

LEMMA KickedInv ==
  ASSUME RoomInv, NEW c \in Channels, KickNotified(c)
  PROVE  RoomInv'
<1>1. Notice(c, NoSeat) /\ OutOfRoom(gr) /\ UNCHANGED <<channel, safe, global, crashed, wire>>
  BY DEF KickNotified
<1>2. NoSeat \in Seats /\ NoSeat.id = NULL
  BY DEF NoSeat, Seat, Seats, Statuses
<1>3. /\ seat' = [seat EXCEPT ![c] = NoSeat] /\ seat' \in [Channels -> Seats] /\ SeatInv'
      /\ spent' \in [commands : Nat, notices : Nat, faults : Nat]
      /\ UNCHANGED <<chats, member, crossed, late>>
      /\ ~crossed /\ ~late => c = channel /\ gr.jid # NULL
  BY <1>1, <1>2, Noticed
<1>4. /\ gr' \in Gamerooms /\ gr'.leaving = gr.leaving /\ gr'.jid = NULL /\ status' = "lobby"
      /\ moves' \in Seq(Presences)
      /\ (\A i \in DOMAIN moves : moves[i].live) => \A i \in DOMAIN moves' : moves'[i].live
  BY <1>1, Known, RoomLeft
<1>5. PlaceInv'
  <2> SUFFICES ASSUME ~crossed, ~late PROVE ~crashed' /\ \A d \in Channels : seat'[d].id = NULL
    BY <1>1, <1>3, <1>4, Known DEF PlaceInv
  <2>1. ~crashed /\ \A d \in Channels : d # channel => seat[d].id = NULL
    BY DEF RoomInv, PlaceInv
  <2> QED
    BY <1>1, <1>2, <1>3, <2>1, Known
<1>6. RoomTypeOK'
  BY <1>1, <1>3, <1>4 DEF RoomInv, RoomTypeOK, Presences
<1>7. ChatsInv' /\ PlayersInv'
  BY <1>3, <1>4 DEF RoomInv, ChatsInv, PlayersInv
<1>8. Leaves(wire', gr')
  BY <1>1, <1>4, Known DEF Leaves
<1>9. ~crossed' /\ ~late' => Flight(wire', channel', gr'.jid)
  <2> SUFFICES ASSUME ~crossed, ~late PROVE Flight(wire, channel, NULL)
    BY <1>1, <1>3, <1>4
  <2> QED
    BY Known, OtherRoom
<1> QED
  BY <1>3, <1>5, <1>6, <1>7, <1>8, <1>9, Assembled

(* The chat service answers the oldest presence, *)
LEMMA PresenceInv ==
  ASSUME RoomInv, PresenceAnswered
  PROVE  RoomInv'
<1> DEFINE m == Head(moves)
           Moved(rooms) == IF m.op = "leave" THEN rooms \ {m.chat} ELSE rooms \cup {m.chat}
<1>1. /\ moves # <<>> /\ moves' = Tail(moves)
      /\ UNCHANGED <<channel, gr, status, safe, global, crashed, wire, seat, crossed, late>>
      /\ \/ /\ member' = Moved(member) /\ chats' = IF m.live THEN Moved(chats) ELSE chats
            /\ spent' = spent
         \/ /\ spent' = [spent EXCEPT !.faults = @ + 1] /\ member' = member /\ chats' = chats
  BY DEF PresenceAnswered
<1>2. m \in Presences /\ m = moves[1] /\ 1 \in DOMAIN moves
  BY <1>1, Known
<1>3. moves' \in Seq(Presences) /\ \A i \in DOMAIN moves' : i + 1 \in DOMAIN moves /\ moves'[i] = moves[i + 1]
  BY <1>1, Known
<1>4. m.chat \in Chats
  BY <1>2 DEF Presences
<1> HIDE DEF m
<1>5. RoomTypeOK'
  <2>1. chats \subseteq Chats /\ member \subseteq Chats /\ spent \in [commands : Nat, notices : Nat, faults : Nat]
    BY DEF RoomInv, RoomTypeOK
  <2>2. chats' \subseteq Chats /\ member' \subseteq Chats
    BY <1>1, <1>4, <2>1
  <2>3. spent' \in [commands : Nat, notices : Nat, faults : Nat]
    BY <1>1, <2>1
  <2> QED
    BY <1>1, <1>3, <2>2, <2>3 DEF RoomInv, RoomTypeOK, Presences
<1>6. ChatsInv'
  <2> SUFFICES ASSUME ~late PROVE chats' = member' /\ \A i \in DOMAIN moves' : moves'[i].live
    BY <1>1 DEF ChatsInv
  <2>1. chats = member /\ \A i \in DOMAIN moves : moves[i].live
    BY DEF RoomInv, ChatsInv
  <2> QED
    BY <1>1, <1>2, <1>3, <2>1
<1>7. PlayersInv' /\ SeatInv' /\ PlaceInv'
  BY <1>1 DEF RoomInv, PlayersInv, SeatInv, PlaceInv
<1> QED
  BY <1>1, <1>5, <1>6, <1>7, Known, Assembled

(* or its handler expires. *)
LEMMA ExpirePresenceInv ==
  ASSUME RoomInv, ExpirePresence
  PROVE  RoomInv'
<1>1. /\ late' = TRUE /\ spent' = [spent EXCEPT !.faults = @ + 1]
      /\ UNCHANGED <<channel, gr, status, safe, chats, global, crashed, wire, seat, member, crossed>>
  BY DEF ExpirePresence, client, server
<1>2. PICK i \in DOMAIN moves : moves' = [moves EXCEPT ![i].live = FALSE]
  BY DEF ExpirePresence
<1>3. moves' \in Seq(Presences)
  <2>1. moves[i] \in Presences
    BY Known
  <2>2. PICK m : m = [moves[i] EXCEPT !.live = FALSE]
    OBVIOUS
  <2>3. m \in Presences
    BY <2>1, <2>2 DEF Presences
  <2>4. moves' = [moves EXCEPT ![i] = m]
    BY <1>2, <2>2
  <2> QED
    BY <2>3, <2>4, Known
<1>4. RoomTypeOK'
  <2>1. spent' \in [commands : Nat, notices : Nat, faults : Nat]
    <3>1. spent \in [commands : Nat, notices : Nat, faults : Nat]
      BY DEF RoomInv, RoomTypeOK
    <3> QED
      BY <1>1, <3>1
  <2> QED
    BY <1>1, <1>3, <2>1 DEF RoomInv, RoomTypeOK, Presences
<1>5. ChatsInv' /\ PlayersInv' /\ SeatInv' /\ PlaceInv'
  BY <1>1 DEF RoomInv, ChatsInv, PlayersInv, SeatInv, PlaceInv
<1> QED
  BY <1>1, <1>4, <1>5, Known, Assembled

LEMMA RoomNextInv == RoomInv /\ [RoomNext]_roomVars => RoomInv'
<1> SUFFICES ASSUME RoomInv, [RoomNext]_roomVars PROVE RoomInv'
  OBVIOUS
<1>1. CASE Commands
  BY <1>1, CommandsInv
<1>2. ASSUME NEW c \in Channels, MasterAnswers(c) PROVE RoomInv'
  <2>1. PICK a \in Outcomes(c) :
          \/ JoinAnswered(c, a) \/ OpenAnswered(c, a) \/ MissionsAnswered(c, a)
          \/ LeaveAnswered(c, a) \/ PlayerAnswered(c, a) \/ EditAnswered(c, a)
          \/ SessionJoinAnswered(c, a) \/ SwitchAnswered(c, a)
    BY <1>2 DEF MasterAnswers
  <2> QED
    BY <2>1, JoinInv, OpenInv, MissionsInv, LeaveInv, SyncInv, SessionJoinInv, SwitchInv
<1>3. ASSUME NEW c \in Channels, Unheard(c) PROVE RoomInv'
  BY <1>3, UnheardInv
<1>4. ASSUME NEW c \in Channels, Expire(c) PROVE RoomInv'
  BY <1>4, ExpireInv
<1>5. ASSUME NEW c \in Channels, SessionNotified(c) PROVE RoomInv'
  <2>1. PICK nodes \in {"all", "session"} : SyncNotified(c, [seat[c] EXCEPT !.running = ~@], nodes)
    BY <1>5 DEF SessionNotified
  <2>2. PICK s : s = [seat[c] EXCEPT !.running = ~@]
    OBVIOUS
  <2>3. s \in Seats /\ s.id = seat[c].id
    BY <2>2, Known DEF Seats
  <2> QED
    BY <2>1, <2>2, <2>3, NotifiedInv DEF Nodes
<1>6. ASSUME NEW c \in Channels, RoomNotified(c) PROVE RoomInv'
  <2>1. PICK nodes \in {"core", "params"} : SyncNotified(c, seat[c], nodes)
    BY <1>6 DEF RoomNotified
  <2> QED
    BY <2>1, Known, NotifiedInv DEF Nodes
<1>7. ASSUME NEW c \in Channels, KickNotified(c) PROVE RoomInv'
  BY <1>7, KickedInv
<1>8. CASE PresenceAnswered
  BY <1>8, PresenceInv
<1>9. CASE ExpirePresence
  BY <1>9, ExpirePresenceInv
<1>10. CASE UNCHANGED roomVars
  <2>1. /\ UNCHANGED <<channel, gr, status, safe, chats, global, crashed, wire, moves>>
        /\ UNCHANGED <<seat, member, spent, crossed, late>>
    BY <1>10 DEF roomVars, client, server
  <2>2. RoomTypeOK' /\ ChatsInv' /\ PlayersInv' /\ SeatInv' /\ PlaceInv'
    BY <2>1 DEF RoomInv, RoomTypeOK, ChatsInv, PlayersInv, SeatInv, PlaceInv
  <2> QED
    BY <2>1, <2>2, Known, Assembled
<1> QED
  BY <1>1, <1>2, <1>3, <1>4, <1>5, <1>6, <1>7, <1>8, <1>9, <1>10 DEF RoomNext

(* The state of the room, what is under way and where the masterservers have   *)
(* the client keep to each other in every step.                              *)
THEOREM RoomInvariant == RoomSpec => []RoomInv
BY RoomInitInv, RoomNextInv, PTL DEF RoomSpec

(* Every variable keeps its type, each request the argument its callback reads. *)
THEOREM RoomTypeCorrect == RoomSpec => []RoomTypeOK
<1>1. RoomInv => RoomTypeOK
  BY DEF RoomInv
<1> QED
  BY <1>1, RoomInvariant, PTL

(* gameroom_leave(): the flag that keeps a second leave from being sent is set *)
(* exactly while one is outstanding, and there is one at most.               *)
THEOREM LeaveIsAnswered == RoomSpec => []LeavingIsAnswered
<1>1. RoomInv => LeavingIsAnswered
  BY DEF RoomInv
<1> QED
  BY <1>1, RoomInvariant, PTL

(* Once everything is answered the client is where the masterserver has it,    *)
(* unless a change of channel overlapped one of room or an answer came late.  *)
THEOREM PlacesAgree == RoomSpec => []AgreeAtRest
<1>1. RoomInv => AgreeAtRest
  BY DEF RoomInv, PlaceInv, AgreeAtRest
<1> QED
  BY <1>1, RoomInvariant, PTL

(* gameroom_sync(): the list of players exists in a room, and without these    *)
(* overlaps the client applies no other room's state and follows no freed list. *)
THEOREM SyncOfTheRoomOnly == RoomSpec => []SyncIsOfTheRoom
<1>1. RoomInv => SyncIsOfTheRoom
  BY DEF RoomInv, PlayersInv, PlaceInv, SyncIsOfTheRoom
<1> QED
  BY <1>1, RoomInvariant, PTL

(* session.xmpp.rooms is the list of the chat rooms the service has the client in. *)
THEOREM ChatsAreAgreed == RoomSpec => []ChatsAgree
<1>1. RoomInv => ChatsAgree
  BY DEF RoomInv, ChatsInv, ChatsAgree
<1> QED
  BY <1>1, RoomInvariant, PTL
=============================================================================
