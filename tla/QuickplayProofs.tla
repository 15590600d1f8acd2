--------------------------- MODULE QuickplayProofs ---------------------------
(***************************************************************************)
(* Proofs about Quickplay for any players, uids and number of commands.    *)
(***************************************************************************)
EXTENDS Quickplay, FiniteSetTheorems, WellFoundedInduction, TLAPS

(* A nonempty set of numbers has a least one, so that PlaceOf() is a place. *)
LessThan == {mn \in Nat \X Nat : mn[1] < mn[2]}

LEMMA LessThanWellFounded == IsWellFoundedOn(LessThan, Nat)
BY NatLessThanWellFounded DEF OpToRel, LessThan

LEMMA MinIsMember ==
  ASSUME NEW S \in SUBSET Nat, S # {}
  PROVE  Min(S) \in S
<1>1. PICK x \in S : \A y \in S : ~ (<<y, x>> \in LessThan)
  BY LessThanWellFounded, WFMin, Zenon
<1>2. \A y \in S : ~ (y < x)
  BY <1>1 DEF LessThan
<1>3. \A y \in S : x =< y
  BY <1>2
<1> QED
  BY <1>3 DEF Min
-----------------------------------------------------------------------------
(* What the helpers do to the queues: typed, and what a queue carries       *)
(* afterwards was there before or is the message sent.                      *)
LEMMA SentToCarries ==
  ASSUME NEW queues \in Net, NEW s \in Parties, NEW rs, NEW m \in Messages
  PROVE  /\ SentTo(queues, s, rs, m) \in Net
         /\ \A x, y \in Parties :
              \A k \in Range(SentTo(queues, s, rs, m)[x][y]) :
                k \in Range(queues[x][y]) \/ (x = s /\ y \in rs /\ k = m)
<1> DEFINE after == SentTo(queues, s, rs, m)
<1>1. \A x, y \in Parties : queues[x][y] \in Seq(Messages)
  BY DEF Net
<1>2. \A x, y \in Parties :
        after[x][y] = IF x = s /\ y \in rs THEN Append(queues[x][y], m) ELSE queues[x][y]
  BY DEF SentTo, Net
<1>3. after \in [Parties -> [Parties -> Seq(Messages)]]
  <2>1. after = [x \in Parties |->
                   IF x = s THEN [y \in Parties |-> IF y \in rs THEN Append(queues[s][y], m)
                                                    ELSE queues[s][y]]
                   ELSE queues[x]]
    BY DEF SentTo, Net
  <2>2. [y \in Parties |-> IF y \in rs THEN Append(queues[s][y], m) ELSE queues[s][y]]
          \in [Parties -> Seq(Messages)]
    BY <1>1
  <2> QED
    BY <2>1, <2>2 DEF Net
<1>4. ASSUME NEW q \in Seq(Messages), NEW k \in Range(Append(q, m))
      PROVE  k \in Range(q) \/ k = m
  BY <1>4 DEF Range
<1> QED
  BY <1>1, <1>2, <1>3, <1>4 DEF Net

LEMMA TakenCarries ==
  ASSUME net \in Net, NEW s \in Parties, NEW r \in Parties, net[s][r] # <<>>
  PROVE  /\ Taken(s, r) \in Net
         /\ \A x, y \in Parties :
              \A k \in Range(Taken(s, r)[x][y]) : k \in Range(net[x][y])
<1>1. \A x, y \in Parties : net[x][y] \in Seq(Messages)
  BY DEF Net
<1>2. \A x, y \in Parties :
        Taken(s, r)[x][y] = IF x = s /\ y = r THEN Tail(net[s][r]) ELSE net[x][y]
  BY DEF Taken, Net
<1>3. Tail(net[s][r]) \in Seq(Messages) /\ \A k \in Range(Tail(net[s][r])) : k \in Range(net[s][r])
  BY <1>1 DEF Range
<1>4. Taken(s, r) \in [Parties -> [Parties -> Seq(Messages)]]
  BY <1>3 DEF Taken, Net
<1> QED
  BY <1>2, <1>3, <1>4 DEF Net

(* The oldest message of a queue is one of those it carries. *)
LEMMA HeadCarried ==
  ASSUME net \in Net, NEW s \in Parties, NEW r \in Parties, NEW type, Receives(s, r, type)
  PROVE  /\ net[s][r] # <<>>
         /\ Head(net[s][r]) \in Range(net[s][r]) /\ Head(net[s][r]) \in Messages
         /\ Head(net[s][r]).type = type
<1>1. net[s][r] \in Seq(Messages) /\ net[s][r] # <<>>
  BY DEF Net, Receives
<1>2. Head(net[s][r]) = net[s][r][1] /\ 1 \in DOMAIN net[s][r]
  BY <1>1
<1> QED
  BY <1>1, <1>2 DEF Range, Receives

(* What the messages hold. *)
LEMMA MessageFields ==
  ASSUME NEW m \in Messages
  PROVE  /\ m.type # "quickplay_cancel" => m.uid \in Uids
         /\ m.type = "preinvite_response" => m.accepted \in BOOLEAN
         /\ m.type = "quickplay" => m.with \in SUBSET Players /\ m.tries \in {0, 1}
         /\ m.type = "offer_response" => m.result \in BOOLEAN
         /\ m.type = "offer" => m.bare \in BOOLEAN
BY DEF Messages

LEMMA MessagesMade ==
  ASSUME NEW u \in Uids
  PROVE  /\ Invite(u) \in Messages /\ Cancel(u) \in Messages /\ SearchCancel \in Messages
         /\ \A b \in BOOLEAN : Response(u, b) \in Messages /\ OfferResponse(u, b) \in Messages
         /\ \A w \in SUBSET Players, t \in {0, 1} : Search(u, w, t) \in Messages
         /\ \A type \in {"started", "succeeded", "canceled", "joined",
                         "expired", "missions"} : Notice(type, u) \in Messages
         /\ \A b \in BOOLEAN : Proposal(u, b) \in Messages
BY DEF Messages, Invite, Cancel, SearchCancel, Response, OfferResponse, Search, Notice, Proposal
-----------------------------------------------------------------------------
(* Sequences put together, and functions that are sequences. *)
LEMMA Concatenated ==
  ASSUME NEW S, NEW a \in Seq(S), NEW b \in Seq(S)
  PROVE  /\ a \o b \in Seq(S) /\ Len(a \o b) = Len(a) + Len(b)
         /\ \A i \in 1 .. Len(a \o b) :
              (a \o b)[i] = IF i =< Len(a) THEN a[i] ELSE b[i - Len(a)]
OBVIOUS

LEMMA FunctionIsSequence ==
  ASSUME NEW S, NEW n \in Nat, NEW f \in [1 .. n -> S]
  PROVE  f \in Seq(S) /\ Len(f) = n
OBVIOUS

LEMMA Preceded ==
  ASSUME NEW S, NEW x \in S, NEW h \in Seq(S)
  PROVE  /\ <<x>> \o h \in Seq(S)
         /\ \A i \in DOMAIN (<<x>> \o h) :
              (<<x>> \o h)[i] = x \/ (\E j \in DOMAIN h : (<<x>> \o h)[i] = h[j])
OBVIOUS

(* What the commands and answers do to a group. *)
LEMMA MadeIsTyped ==
  ASSUME NEW p, NEW g, g # NULL => g \in Seq(Members(p))
  PROVE  Made(g) \in Seq(Members(p)) /\ Accepted(Made(g)) = Accepted(g)
<1>1. CASE g = NULL
  <2>1. Made(g) = <<>> /\ Accepted(g) = {}
    BY <1>1 DEF Made, Accepted
  <2>2. Accepted(<<>>) = {}
    BY DEF Accepted
  <2> QED
    BY <2>1, <2>2
<1>2. CASE g # NULL
  BY <1>2 DEF Made
<1> QED
  BY <1>1, <1>2

LEMMA InvitedIsTyped ==
  ASSUME NEW p \in Players, NEW q \in Players \ {p}, NEW g, g # NULL => g \in Seq(Members(p))
  PROVE  /\ <<Member(q, FALSE)>> \o Made(g) \in Seq(Members(p))
         /\ Accepted(<<Member(q, FALSE)>> \o Made(g)) \subseteq Accepted(g)
<1> DEFINE h == Made(g)
           e == <<Member(q, FALSE)>>
           k == e \o h
<1>1. h \in Seq(Members(p)) /\ Accepted(h) = Accepted(g)
  BY MadeIsTyped
<1>2. Member(q, FALSE) \in Members(p)
  BY DEF Member, Members
<1>3. /\ k \in Seq(Members(p))
      /\ \A i \in DOMAIN k : k[i] = Member(q, FALSE) \/ (\E j \in DOMAIN h : k[i] = h[j])
  <2> DEFINE x == Member(q, FALSE)
             S == Members(p)
  <2>1. x \in S /\ h \in Seq(S)
    BY <1>1, <1>2
  <2> HIDE DEF h, x, S
  <2>2. /\ <<x>> \o h \in Seq(S)
        /\ \A i \in DOMAIN (<<x>> \o h) :
             (<<x>> \o h)[i] = x \/ (\E j \in DOMAIN h : (<<x>> \o h)[i] = h[j])
    BY <2>1, Preceded
  <2> QED
    BY <2>2, Zenon DEF x, S
<1>4. ASSUME NEW a \in Accepted(k) PROVE a \in Accepted(h)
  <2>1. PICK i \in DOMAIN k : k[i].accepted /\ k[i].who = a
    BY <1>4 DEF Accepted
  <2>2. k[i] # Member(q, FALSE)
    BY <2>1 DEF Member
  <2>3. PICK j \in DOMAIN h : k[i] = h[j]
    BY <1>3, <2>1, <2>2
  <2>4. h # NULL
    BY <2>3 DEF Made
  <2> HIDE DEF h
  <2> QED
    BY <2>1, <2>3, <2>4 DEF Accepted
<1> QED
  BY <1>1, <1>3, <1>4

LEMMA AcceptedAreOthers ==
  ASSUME NEW p \in Players, NEW g, g # NULL => g \in Seq(Members(p))
  PROVE  Accepted(g) \in SUBSET (Players \ {p})
<1>1. CASE g = NULL
  BY <1>1 DEF Accepted
<1>2. CASE g # NULL
  <2>1. \A i \in DOMAIN g : g[i] \in Members(p)
    BY <1>2
  <2> QED
    BY <1>2, <2>1 DEF Accepted, Members
<1> QED
  BY <1>1, <1>2

LEMMA PlaceIsFound ==
  ASSUME NEW p, NEW g \in Seq(Members(p)), g # NULL, NEW s \in Whom(g)
  PROVE  PlaceOf(s, g) \in DOMAIN g /\ g[PlaceOf(s, g)].who = s
<1> DEFINE places == {i \in DOMAIN g : g[i].who = s}
<1>1. places \in SUBSET Nat /\ places # {}
  BY DEF Whom
<1>2. Min(places) \in places
  BY <1>1, MinIsMember
<1> QED
  BY <1>2 DEF PlaceOf

LEMMA MarkedIsTyped ==
  ASSUME NEW p, NEW g \in Seq(Members(p)), g # NULL, NEW s \in Whom(g)
  PROVE  LET h == [g EXCEPT ![PlaceOf(s, g)].accepted = TRUE]
         IN  h \in Seq(Members(p)) /\ Accepted(h) \subseteq Accepted(g) \cup {s}
<1> DEFINE i == PlaceOf(s, g)
           h == [g EXCEPT ![i].accepted = TRUE]
<1>1. i \in DOMAIN g /\ g[i].who = s
  BY PlaceIsFound
<1>2. /\ DOMAIN h = DOMAIN g
      /\ \A j \in DOMAIN g : h[j].who = g[j].who /\ (j # i => h[j] = g[j])
      /\ \A j \in DOMAIN g : h[j] \in Members(p)
  <2>1. DOMAIN h = DOMAIN g /\ \A j \in DOMAIN g : g[j] \in Members(p)
    OBVIOUS
  <2>2. \A j \in DOMAIN g : h[j] = IF j = i THEN [g[i] EXCEPT !.accepted = TRUE] ELSE g[j]
    BY <1>1
  <2>3. \A k \in Members(p) : /\ [k EXCEPT !.accepted = TRUE] \in Members(p)
                               /\ [k EXCEPT !.accepted = TRUE].who = k.who
    BY DEF Members
  <2> HIDE DEF h
  <2> QED
    BY <1>1, <2>1, <2>2, <2>3
<1>3. h \in Seq(Members(p))
  <2>1. DOMAIN g = 1 .. Len(g) /\ h \in [DOMAIN g -> {h[j] : j \in DOMAIN g}]
    BY <1>1
  <2> HIDE DEF h
  <2>2. h \in [1 .. Len(g) -> Members(p)]
    BY <1>2, <2>1
  <2> QED
    BY <2>2, FunctionIsSequence
<1>4. Accepted(h) \subseteq Accepted(g) \cup {s}
  BY <1>1, <1>2 DEF Accepted
<1> QED
  BY <1>3, <1>4

LEMMA RemovedPlaces ==
  ASSUME NEW p, NEW g \in Seq(Members(p)), NEW i \in DOMAIN g
  PROVE  LET h == RemoveAt(g, i)
         IN  /\ h \in Seq(Members(p)) /\ Len(h) = Len(g) - 1
             /\ \A j \in 1 .. Len(g) - 1 : h[j] = IF j < i THEN g[j] ELSE g[j + 1]
<1> DEFINE h == RemoveAt(g, i)
<1>1. i \in 1 .. Len(g) /\ Len(g) \in Nat
  OBVIOUS
<1>2. /\ SubSeq(g, 1, i - 1) \in Seq(Members(p)) /\ SubSeq(g, i + 1, Len(g)) \in Seq(Members(p))
      /\ Len(SubSeq(g, 1, i - 1)) = i - 1 /\ Len(SubSeq(g, i + 1, Len(g))) = Len(g) - i
      /\ \A j \in 1 .. i - 1 : SubSeq(g, 1, i - 1)[j] = g[j]
      /\ \A j \in 1 .. Len(g) - i : SubSeq(g, i + 1, Len(g))[j] = g[j + i]
  BY <1>1
<1>3. /\ h \in Seq(Members(p)) /\ Len(h) = Len(g) - 1
      /\ \A j \in 1 .. Len(g) - 1 : h[j] = IF j < i THEN g[j] ELSE g[j + 1]
  <2> DEFINE a == SubSeq(g, 1, i - 1)
             b == SubSeq(g, i + 1, Len(g))
  <2>1. h = a \o b
    BY DEF RemoveAt
  <2> HIDE DEF a, b, h
  <2>2. /\ h \in Seq(Members(p)) /\ Len(h) = Len(a) + Len(b)
        /\ \A j \in 1 .. Len(h) : h[j] = IF j =< Len(a) THEN a[j] ELSE b[j - Len(a)]
    BY <1>2, <2>1, Concatenated DEF a, b
  <2>5. Len(a) = i - 1 /\ Len(b) = Len(g) - i
    BY <1>2 DEF a, b
  <2>3. Len(h) = Len(g) - 1
    BY <1>1, <2>2, <2>5
  <2>4. ASSUME NEW j \in 1 .. Len(g) - 1
        PROVE  h[j] = IF j < i THEN g[j] ELSE g[j + 1]
    <3>2. CASE j < i
      <4>1. j \in 1 .. Len(h) /\ j =< Len(a) /\ j \in 1 .. i - 1
        BY <1>1, <2>3, <2>5, <3>2
      <4>2. h[j] = a[j]
        BY <2>2, <4>1
      <4>3. a[j] = g[j]
        BY <1>2, <4>1 DEF a
      <4> QED
        BY <3>2, <4>2, <4>3
    <3>3. CASE ~ (j < i)
      <4>1. j - (i - 1) \in 1 .. Len(g) - i /\ (j - (i - 1)) + i = j + 1
        BY <1>1, <3>3
      <4>2. h[j] = b[j - (i - 1)]
        BY <1>1, <2>2, <2>3, <2>5, <3>3
      <4>3. b[j - (i - 1)] = g[(j - (i - 1)) + i]
        BY <1>2, <4>1 DEF b
      <4> QED
        BY <3>3, <4>1, <4>2, <4>3
    <3> QED
      BY <3>2, <3>3
  <2> QED
    BY <2>2, <2>3, <2>4
<1> QED
  BY <1>3

LEMMA RemovedIsTyped ==
  ASSUME NEW p, NEW g \in Seq(Members(p)), g # NULL, NEW i \in DOMAIN g
  PROVE  RemoveAt(g, i) \in Seq(Members(p)) /\ Accepted(RemoveAt(g, i)) \subseteq Accepted(g)
<1> DEFINE h == RemoveAt(g, i)
<1>1. i \in 1 .. Len(g) /\ Len(g) \in Nat
  OBVIOUS
<1>2. /\ h \in Seq(Members(p)) /\ Len(h) = Len(g) - 1
      /\ \A j \in 1 .. Len(g) - 1 : h[j] = IF j < i THEN g[j] ELSE g[j + 1]
  BY RemovedPlaces
<1> HIDE DEF h
<1>3. ASSUME NEW j \in DOMAIN h
      PROVE  \E l \in DOMAIN g : h[j] = g[l]
  <2>1. j \in 1 .. Len(g) - 1
    BY <1>1, <1>2
  <2>2. j \in DOMAIN g /\ j + 1 \in DOMAIN g
    BY <1>1, <2>1
  <2> QED
    BY <1>2, <2>1, <2>2
<1>4. Accepted(h) \subseteq Accepted(g)
  BY <1>3 DEF Accepted
<1> QED
  BY <1>2, <1>4 DEF h
-----------------------------------------------------------------------------
(* The agreements only grow, and the mixing of two groups is not forgotten.  *)
Grows ==
  /\ \A u \in Uids : agreed[u] \subseteq agreed'[u]
  /\ mixed => mixed'

(* What the step makes sound; its message is not primed with it. *)
After(s, r, m) == SoundBy(agreed', mixed', s, r, m)

(* Queues that carry nothing but what was under way, and sound messages.     *)
Kept(queues) ==
  /\ queues \in Net
  /\ \A x, y \in Parties : \A k \in Range(queues[x][y]) :
       k \in Range(net[x][y]) \/ After(x, y, k)

LEMMA KeptNet == ASSUME Inv PROVE Kept(net)
BY DEF Inv, TypeOK, Kept

LEMMA KeptTaken ==
  ASSUME Inv, NEW s \in Parties, NEW r \in Parties, net[s][r] # <<>>
  PROVE  Kept(Taken(s, r))
<1>1. net \in Net
  BY DEF Inv, TypeOK
<1>2. /\ Taken(s, r) \in Net
      /\ \A x, y \in Parties : \A k \in Range(Taken(s, r)[x][y]) : k \in Range(net[x][y])
  BY <1>1, TakenCarries
<1> QED
  BY <1>2 DEF Kept

LEMMA KeptSent ==
  ASSUME NEW queues, Kept(queues), NEW s \in Parties, NEW rs, NEW m \in Messages,
         \A r \in Parties : r \in rs => After(s, r, m)
  PROVE  Kept(SentTo(queues, s, rs, m))
<1>1. queues \in Net
  BY DEF Kept
<1>2. /\ SentTo(queues, s, rs, m) \in Net
      /\ \A x, y \in Parties :
           \A k \in Range(SentTo(queues, s, rs, m)[x][y]) :
             k \in Range(queues[x][y]) \/ (x = s /\ y \in rs /\ k = m)
  BY <1>1, SentToCarries
<1>3. ASSUME NEW x \in Parties, NEW y \in Parties,
             NEW k \in Range(SentTo(queues, s, rs, m)[x][y])
      PROVE  k \in Range(net[x][y]) \/ After(x, y, k)
  <2>1. CASE k \in Range(queues[x][y])
    BY <2>1 DEF Kept
  <2>2. CASE x = s /\ y \in rs /\ k = m
    BY <2>2
  <2> QED
    BY <1>2, <2>1, <2>2
<1> QED
  BY <1>2, <1>3 DEF Kept

LEMMA SoundKept ==
  ASSUME Inv, Grows, NEW s \in Parties, NEW r \in Parties, NEW m \in Messages, Sound(s, r, m)
  PROVE  After(s, r, m)
<1>1. m.type # "quickplay_cancel" => m.uid \in Uids
  BY MessageFields
<1>2. \A u \in Uids : agreed[u] \subseteq agreed'[u]
  BY DEF Grows
<1>3. ~mixed' => ~mixed
  BY DEF Grows
<1> QED
  BY <1>1, <1>2, <1>3 DEF Sound, SoundBy, After

LEMMA FlightKept ==
  ASSUME Inv, Grows, Kept(net')
  PROVE  FlightInv' /\ (net \in Net)'
<1>1. ASSUME NEW s \in Parties, NEW r \in Parties, NEW m \in Range(net'[s][r])
      PROVE  After(s, r, m)
  <2>1. CASE m \in Range(net[s][r])
    <3>1. Sound(s, r, m) /\ net[s][r] \in Seq(Messages)
      BY <2>1 DEF Inv, FlightInv, TypeOK, Net
    <3>2. m \in Messages
      BY <2>1, <3>1 DEF Range
    <3> QED
      BY <3>1, <3>2, SoundKept
  <2>2. CASE After(s, r, m)
    BY <2>2
  <2> QED
    BY <2>1, <2>2 DEF Kept
<1> QED
  BY <1>1 DEF Kept, FlightInv, Sound, After

(* A group that has gained no accepted member is as sound as it was. *)
LEMMA GroupKept ==
  ASSUME Inv, Grows, NEW p \in Players,
         pre'[p] # NULL => pre'[p] = pre[p] /\ Accepted(group'[p]) \subseteq Accepted(group[p])
  PROVE  GroupSound(p)'
<1>1. GroupSound(p) /\ pre[p] \in Uids \cup {NULL}
  BY DEF Inv, GroupInv, TypeOK, SessionOK
<1>2. ~mixed' => ~mixed
  BY DEF Grows
<1>3. pre[p] # NULL => agreed[pre[p]] \subseteq agreed'[pre[p]]
  BY <1>1 DEF Grows
<1> QED
  BY <1>1, <1>2, <1>3 DEF GroupSound

(* A client whose groups a step leaves as they are, and one in a group at    *)
(* most unless its open was overtaken.                                       *)
SameGroups(q) ==
  /\ pre'[q] = pre[q] /\ uid'[q] = uid[q] /\ group'[q] = group[q]
  /\ overtaken'[q] = overtaken[q]

OneOrOvertaken(p) == pre[p] = NULL \/ uid[p] = NULL \/ overtaken[p]

(* What a step of one client, that leaves the service alone, has to show. *)
LEMMA ClientStep ==
  ASSUME Inv, NEW p \in Players, Grows, Kept(net'), SessionOK', CountsOK',
         UNCHANGED service,
         \A q \in Players \ {p} : SameGroups(q),
         OneOrOvertaken(p)',
         GroupSound(p)'
  PROVE  Inv'
<1>1. FlightInv' /\ (net \in Net)'
  BY FlightKept
<1>2. ServiceOK'
  BY DEF Inv, TypeOK, ServiceOK, service
<1>3. OneGroupAtATime'
  BY DEF Inv, OneGroupAtATime, OneOrOvertaken, SameGroups
<1>4. GroupInv'
  <2>1. ASSUME NEW q \in Players \ {p}
        PROVE  GroupSound(q)'
    <3>1. Accepted(group'[q]) \subseteq Accepted(group[q]) /\ pre'[q] = pre[q]
      BY DEF SameGroups
    <3> QED
      BY <3>1, GroupKept
  <2> QED
    BY <2>1 DEF GroupInv
<1>5. GroupAgreed'
  BY DEF Inv, GroupAgreed, Grows, service
<1> QED
  BY <1>1, <1>2, <1>3, <1>4, <1>5 DEF Inv, TypeOK
-----------------------------------------------------------------------------
(* The initial states, and the clients' commands. *)
LEMMA Constants ==
  /\ NULL \notin Uids /\ NULL \notin Players /\ Service \in Parties
  /\ \A p \in Players : p \in Parties /\ p # Service
  /\ MaxUid \in Nat /\ 0 \in 0 .. MaxUid /\ 0 \in 0 .. MaxCommands
BY QuickplayAssumption DEF Uids, Parties

LEMMA InitInv == ASSUME Init PROVE Inv
<1>1. Accepted(NULL) = {}
  BY DEF Accepted
<1>2. \A s, r \in Parties : net[s][r] = <<>>
  BY DEF Init
<1>3. net \in Net
  <2>1. <<>> \in Seq(Messages)
    OBVIOUS
  <2> QED
    BY <2>1 DEF Init, Net
<1>4. FlightInv
  BY <1>2 DEF FlightInv, Range
<1>5. SessionOK
  BY DEF Init, SessionOK
<1>6. ServiceOK
  BY DEF Init, ServiceOK
<1>7. CountsOK
  BY Constants DEF Init, CountsOK
<1>8. OneGroupAtATime /\ GroupInv /\ GroupAgreed
  BY DEF Init, OneGroupAtATime, GroupInv, GroupSound, GroupAgreed
<1> QED
  BY <1>3, <1>4, <1>5, <1>6, <1>7, <1>8 DEF Inv, TypeOK

LEMMA OpeningInv ==
  ASSUME Inv, NEW p \in Players, Opening(p)
  PROVE  Inv'
<1>1. Kept(net')
  BY KeptNet DEF Opening
<1>2. CountsOK' /\ Grows /\ UNCHANGED <<pre, uid, group, master, overtaken, tryAgain, service>>
  BY DEF Inv, TypeOK, CountsOK, Opening, session, groups, history, Grows
<1>3. SessionOK'
  BY <1>2 DEF Inv, TypeOK, SessionOK
<1>4. \A q \in Players \ {p} : SameGroups(q)
  BY <1>2 DEF SameGroups
<1>5. OneOrOvertaken(p)'
  BY <1>2 DEF Inv, OneGroupAtATime, OneOrOvertaken
<1>6. pre'[p] = pre[p] /\ Accepted(group'[p]) \subseteq Accepted(group[p])
  BY <1>2
<1>7. GroupSound(p)'
  BY <1>2, <1>6, GroupKept
<1> QED
  BY <1>1, <1>2, <1>3, <1>4, <1>5, <1>7, ClientStep

LEMMA OpenInv ==
  ASSUME Inv, NEW p \in Players, Open(p)
  PROVE  Inv'
<1>1. opened' \in Uids /\ opened' \in 0 .. MaxUid
  BY Constants DEF Inv, TypeOK, CountsOK, Open, Uids
<1>2. CountsOK'
  BY <1>1 DEF Inv, TypeOK, CountsOK, Open
<1>3. Grows
  BY DEF Inv, TypeOK, CountsOK, Open, Grows
<1>4. Kept(net')
  BY KeptNet DEF Open
<1>5. SessionOK'
  BY <1>1 DEF Inv, TypeOK, SessionOK, Open
<1>6. pre'[p] = opened' /\ p \in agreed'[opened'] /\ group' = group
  BY <1>1 DEF Inv, TypeOK, SessionOK, CountsOK, Open
<1>7. GroupSound(p)'
  <2>1. ~mixed' => group[p] = NULL
    BY DEF Open
  <2>2. Accepted(NULL) = {}
    BY DEF Accepted
  <2> QED
    BY <1>6, <2>1, <2>2 DEF GroupSound
<1>8. OneOrOvertaken(p)' /\ UNCHANGED service
  <2>1. overtaken'[p] = (uid[p] # NULL) /\ uid' = uid
    BY DEF Inv, TypeOK, SessionOK, Open
  <2> QED
    BY <2>1 DEF OneOrOvertaken, Open
<1>9. \A q \in Players \ {p} : SameGroups(q)
  BY DEF Inv, TypeOK, SessionOK, CountsOK, Open, SameGroups
<1> QED
  BY <1>2, <1>3, <1>4, <1>5, <1>7, <1>8, <1>9, ClientStep

(* A command counts, and leaves the service and the agreements as they are. *)
LEMMA Commanded ==
  ASSUME Inv, Command, UNCHANGED <<agreed, mixed>>
  PROVE  CountsOK' /\ Grows /\ UNCHANGED service /\ tryAgain' = tryAgain
<1>1. commands' \in 0 .. MaxCommands
  BY QuickplayAssumption DEF Inv, TypeOK, CountsOK, Command
<1> QED
  BY <1>1 DEF Inv, TypeOK, CountsOK, Command, Grows, opens

LEMMA PreinviteInv ==
  ASSUME Inv, NEW p \in Players, NEW q \in Players \ {p}, Preinvite(p, q)
  PROVE  Inv'
<1>1. CountsOK' /\ Grows /\ UNCHANGED service /\ tryAgain' = tryAgain
  BY Commanded DEF Preinvite, history
<1>2. pre[p] \in Uids /\ (group[p] # NULL => group[p] \in Seq(Members(p)))
  BY DEF Inv, TypeOK, SessionOK, Preinvite
<1>3. Kept(net')
  <2>1. Invite(pre[p]) \in Messages
    BY <1>2, MessagesMade
  <2>2. \A r \in Parties : After(p, r, Invite(pre[p]))
    BY DEF After, SoundBy, Invite
  <2> QED
    BY <2>1, <2>2, KeptNet, KeptSent, Constants DEF Preinvite
<1>4. /\ <<Member(q, FALSE)>> \o Made(group[p]) \in Seq(Members(p))
      /\ Accepted(<<Member(q, FALSE)>> \o Made(group[p])) \subseteq Accepted(group[p])
  BY <1>2, InvitedIsTyped
<1>5. group'[p] = <<Member(q, FALSE)>> \o Made(group[p])
      /\ DOMAIN group' = Players /\ \A r \in Players \ {p} : group'[r] = group[r]
  BY DEF Inv, TypeOK, SessionOK, Preinvite
<1>6. SessionOK'
  BY <1>1, <1>4, <1>5 DEF Inv, TypeOK, SessionOK, Preinvite
<1>7. GroupSound(p)'
  BY <1>1, <1>4, <1>5, GroupKept DEF Preinvite
<1>8. UNCHANGED <<pre, uid, overtaken>> /\ OneOrOvertaken(p)'
  BY DEF Preinvite, Inv, OneGroupAtATime, OneOrOvertaken
<1> QED
  BY <1>1, <1>3, <1>5, <1>6, <1>7, <1>8, ClientStep DEF SameGroups

LEMMA StartInv ==
  ASSUME Inv, NEW p \in Players, Start(p)
  PROVE  Inv'
<1>1. CountsOK' /\ Grows /\ UNCHANGED service /\ tryAgain' = tryAgain
  BY Commanded DEF Start, history
<1>2. pre[p] \in Uids /\ (group[p] # NULL => group[p] \in Seq(Members(p)))
  BY DEF Inv, TypeOK, SessionOK, Start
<1>3. Accepted(group[p]) \in SUBSET Players
  BY <1>2, AcceptedAreOthers
<1>4. Kept(net')
  <2> DEFINE m == Search(pre[p], Accepted(group[p]), 0)
  <2>1. m \in Messages
    BY <1>2, <1>3, MessagesMade
  <2>2. GroupSound(p)
    BY DEF Inv, GroupInv
  <2>3. \A r \in Parties : After(p, r, m)
    BY <1>2, <2>2 DEF Start, history, GroupSound, After, SoundBy, Search
  <2> QED
    BY <2>1, <2>3, KeptNet, KeptSent, Constants DEF Start
<1>5. Made(group[p]) \in Seq(Members(p)) /\ Accepted(Made(group[p])) = Accepted(group[p])
  BY <1>2, MadeIsTyped
<1>6. group'[p] = Made(group[p])
      /\ DOMAIN group' = Players /\ \A r \in Players \ {p} : group'[r] = group[r]
  BY DEF Inv, TypeOK, SessionOK, Start
<1>7. SessionOK'
  BY <1>1, <1>5, <1>6 DEF Inv, TypeOK, SessionOK, Start
<1>8. GroupSound(p)'
  BY <1>1, <1>5, <1>6, GroupKept DEF Start
<1>9. UNCHANGED <<pre, uid, overtaken>> /\ OneOrOvertaken(p)'
  BY DEF Start, Inv, OneGroupAtATime, OneOrOvertaken
<1> QED
  BY <1>1, <1>4, <1>6, <1>7, <1>8, <1>9, ClientStep DEF SameGroups

(* The client's session is forgotten, and nothing else of any client changes. *)
LEMMA ForgottenOK ==
  ASSUME Inv, NEW p \in Players, Forgotten(p), tryAgain' \in [Players -> BOOLEAN]
  PROVE  /\ SessionOK' /\ OneOrOvertaken(p)'
         /\ \A q \in Players \ {p} : SameGroups(q)
         /\ GroupSound(p)'
<1>1. pre'[p] = NULL /\ group'[p] = NULL /\ DOMAIN group' = Players
  BY DEF Inv, TypeOK, SessionOK, Forgotten
<1>2. \A q \in Players \ {p} : SameGroups(q)
  BY DEF Inv, TypeOK, SessionOK, CountsOK, Forgotten, SameGroups
<1>3. SessionOK'
  BY <1>1, <1>2 DEF Inv, TypeOK, SessionOK, Forgotten, SameGroups
<1> QED
  BY <1>1, <1>2, <1>3 DEF GroupSound, OneOrOvertaken

LEMMA CancelCommandInv ==
  ASSUME Inv, NEW p \in Players, CancelCommand(p)
  PROVE  Inv'
<1>1. CountsOK' /\ Grows /\ UNCHANGED service /\ tryAgain' = tryAgain
  BY Commanded DEF CancelCommand
<1> DEFINE told == IF pre[p] = NULL THEN net ELSE SentTo(net, p, Whom(group[p]), Cancel(pre[p]))
<1>2. Kept(told)
  <2>1. CASE pre[p] = NULL
    BY <2>1, KeptNet
  <2>2. CASE pre[p] # NULL
    <3>1. pre[p] \in Uids
      BY <2>2 DEF Inv, TypeOK, SessionOK
    <3>2. Cancel(pre[p]) \in Messages /\ \A r \in Parties : After(p, r, Cancel(pre[p]))
      BY <3>1, MessagesMade DEF After, SoundBy, Cancel
    <3> QED
      BY <2>2, <3>2, KeptNet, KeptSent, Constants
  <2> QED
    BY <2>1, <2>2
<1>3. Kept(SentTo(told, p, {Service}, SearchCancel))
  <2>1. 1 \in Uids
    BY QuickplayAssumption DEF Uids
  <2>2. SearchCancel \in Messages /\ \A r \in Parties : After(p, r, SearchCancel)
    BY <2>1, MessagesMade DEF After, SoundBy, SearchCancel
  <2> HIDE DEF told
  <2> QED
    BY <1>2, <2>2, KeptSent, Constants
<1>4. Kept(net')
  BY <1>2, <1>3 DEF CancelCommand
<1>5. Forgotten(p) /\ tryAgain' \in [Players -> BOOLEAN]
  BY <1>1 DEF CancelCommand, Inv, TypeOK, SessionOK
<1> QED
  BY <1>1, <1>4, <1>5, ForgottenOK, ClientStep

LEMMA RoomChangedInv ==
  ASSUME Inv, NEW p \in Players, RoomChanged(p)
  PROVE  Inv'
<1>1. CountsOK' /\ Grows /\ UNCHANGED service /\ tryAgain' = tryAgain
  BY Commanded DEF RoomChanged, history
<1>2. Forgotten(p) /\ tryAgain' \in [Players -> BOOLEAN] /\ Kept(net')
  BY <1>1, KeptNet DEF RoomChanged, Inv, TypeOK, SessionOK
<1> QED
  BY <1>1, <1>2, ForgottenOK, ClientStep
-----------------------------------------------------------------------------
(* The handlers of what the clients tell each other. *)

(* The message a handler is about to take, and the queues without it. *)
LEMMA Received ==
  ASSUME Inv, NEW s \in Parties, NEW r \in Parties, NEW type, Receives(s, r, type)
  PROVE  LET m == Head(net[s][r])
         IN  /\ m \in Messages /\ m.type = type /\ Sound(s, r, m)
             /\ Kept(Taken(s, r))
             /\ type # "quickplay_cancel" => m.uid \in Uids
<1> DEFINE m == Head(net[s][r])
<1>1. net[s][r] # <<>> /\ m \in Range(net[s][r]) /\ m \in Messages /\ m.type = type
  BY HeadCarried DEF Inv, TypeOK
<1>2. Sound(s, r, m)
  BY <1>1 DEF Inv, FlightInv
<1>3. Kept(Taken(s, r))
  BY <1>1, KeptTaken
<1>4. m.type # "quickplay_cancel" => m.uid \in Uids
  BY <1>1, MessageFields
<1> QED
  BY <1>1, <1>2, <1>3, <1>4

LEMMA Handled ==
  ASSUME Inv, Handler, UNCHANGED <<agreed, mixed>>
  PROVE  CountsOK' /\ Grows /\ UNCHANGED service
BY DEF Inv, TypeOK, CountsOK, Handler, Grows, opens

LEMMA PreinvitedInv ==
  ASSUME Inv, NEW p \in Players, NEW s \in Players, Preinvited(p, s)
  PROVE  Inv'
<1> DEFINE m == Head(net[s][p])
           u == m.uid
<1>0. PICK accepted \in {pre[p] = NULL /\ uid[p] = NULL, FALSE} :
        /\ net' = SentTo(Taken(s, p), p, {s}, Response(u, accepted))
        /\ IF accepted
           THEN /\ pre' = [pre EXCEPT ![p] = u] /\ master' = [master EXCEPT ![p] = s]
                /\ agreed' = [agreed EXCEPT ![u] = @ \cup {p}]
           ELSE UNCHANGED <<pre, master, agreed>>
        /\ mixed' = (mixed \/ (accepted /\ group[p] # NULL))
  BY DEF Preinvited
<1>1. u \in Uids /\ Kept(Taken(s, p))
  BY Received, Constants DEF Preinvited
<1>2. /\ net' = SentTo(Taken(s, p), p, {s}, Response(u, accepted))
      /\ accepted => /\ pre' = [pre EXCEPT ![p] = u] /\ master' = [master EXCEPT ![p] = s]
                     /\ agreed' = [agreed EXCEPT ![u] = @ \cup {p}]
      /\ ~accepted => UNCHANGED <<pre, master, agreed>>
      /\ mixed' = (mixed \/ (accepted /\ group[p] # NULL))
      /\ UNCHANGED <<uid, group, tryAgain, overtaken, service, opened, opening, commands>>
      /\ accepted \in BOOLEAN /\ (accepted => pre[p] = NULL /\ uid[p] = NULL)
  BY <1>0 DEF Preinvited, Handler, opens
<1>3. CountsOK' /\ Grows /\ (accepted => p \in agreed'[u])
  BY <1>1, <1>2 DEF Inv, TypeOK, CountsOK, Grows
<1>4. Kept(net')
  <2>1. Response(u, accepted) \in Messages
    BY <1>1, <1>2, MessagesMade
  <2>2. \A r \in Parties : After(p, r, Response(u, accepted))
    BY <1>3 DEF After, SoundBy, Response
  <2> HIDE DEF u
  <2> QED
    BY <1>1, <1>2, <2>1, <2>2, KeptSent, Constants
<1>5. SessionOK'
  BY <1>1, <1>2 DEF Inv, TypeOK, SessionOK
<1>6. \A q \in Players \ {p} : SameGroups(q)
  BY <1>2 DEF Inv, TypeOK, SessionOK, SameGroups
<1>7. OneOrOvertaken(p)'
  BY <1>2 DEF Inv, OneGroupAtATime, OneOrOvertaken
<1>8. GroupSound(p)'
  <2>1. CASE accepted
    <3>1. pre'[p] = u /\ p \in agreed'[u] /\ group' = group
      BY <1>2, <1>3, <2>1 DEF Inv, TypeOK, SessionOK
    <3>2. ~mixed' => group[p] = NULL
      BY <1>2, <2>1
    <3>3. Accepted(NULL) = {}
      BY DEF Accepted
    <3> HIDE DEF u
    <3> QED
      BY <3>1, <3>2, <3>3 DEF GroupSound
  <2>2. CASE ~accepted
    BY <1>2, <1>3, <2>2, GroupKept
  <2> QED
    BY <2>1, <2>2
<1> QED
  BY <1>2, <1>3, <1>4, <1>5, <1>6, <1>7, <1>8, ClientStep DEF service

LEMMA PostponedInv ==
  ASSUME Inv, NEW p \in Players, NEW s \in Players, Postponed(p, s)
  PROVE  Inv'
<1>1. Kept(net')
  BY Received, Constants DEF Postponed
<1>2. CountsOK' /\ Grows /\ UNCHANGED service
  BY Handled DEF Postponed, history
<1>3. UNCHANGED <<pre, uid, group, master, overtaken, tryAgain>>
  BY DEF Postponed, session, groups
<1>4. SessionOK'
  BY <1>3 DEF Inv, TypeOK, SessionOK
<1>5. \A q \in Players \ {p} : SameGroups(q)
  BY <1>3 DEF SameGroups
<1>6. OneOrOvertaken(p)'
  BY <1>3 DEF Inv, OneGroupAtATime, OneOrOvertaken
<1>7. pre'[p] = pre[p] /\ Accepted(group'[p]) \subseteq Accepted(group[p])
  BY <1>3
<1>8. GroupSound(p)'
  BY <1>2, <1>7, GroupKept
<1> QED
  BY <1>1, <1>2, <1>4, <1>5, <1>6, <1>8, ClientStep

LEMMA RespondedInv ==
  ASSUME Inv, NEW p \in Players, NEW s \in Players, Responded(p, s)
  PROVE  Inv'
<1> DEFINE m == Head(net[s][p])
           g == group[p]
           known == s \in Whom(g) /\ pre[p] = m.uid
           marked == [g EXCEPT ![PlaceOf(s, g)].accepted = TRUE]
           removed == RemoveAt(g, PlaceOf(s, g))
<1>1. m \in Messages /\ m.type = "preinvite_response" /\ Sound(s, p, m)
      /\ Kept(Taken(s, p)) /\ m.uid \in Uids /\ m.accepted \in BOOLEAN
  BY Received, MessageFields, Constants DEF Responded
<1>2. CountsOK' /\ Grows /\ UNCHANGED service
  BY Handled DEF Responded, history
<1>3. UNCHANGED <<pre, uid, master, tryAgain, overtaken>> /\ agreed' = agreed /\ mixed' = mixed
  BY DEF Responded, history
<1>4. Kept(net')
  <2>1. Cancel(m.uid) \in Messages /\ \A r \in Parties : After(p, r, Cancel(m.uid))
    BY <1>1, MessagesMade DEF After, SoundBy, Cancel
  <2>2. Kept(SentTo(Taken(s, p), p, {s}, Cancel(m.uid)))
    BY <1>1, <2>1, KeptSent, Constants
  <2> QED
    BY <1>1, <2>2 DEF Responded
<1>5. g # NULL => g \in Seq(Members(p))
  BY DEF Inv, TypeOK, SessionOK
<1>6. known => g # NULL /\ s \in Whom(g)
  BY DEF Whom
<1>7. /\ DOMAIN group' = Players /\ \A q \in Players \ {p} : group'[q] = group[q]
      /\ ~known => group' = group
      /\ known /\ m.accepted => group'[p] = marked
      /\ known /\ ~m.accepted => group'[p] = removed
  BY <1>1 DEF Inv, TypeOK, SessionOK, Responded
<1>8. known => marked \in Seq(Members(p)) /\ Accepted(marked) \subseteq Accepted(g) \cup {s}
  BY <1>5, <1>6, MarkedIsTyped
<1>9. known => removed \in Seq(Members(p)) /\ Accepted(removed) \subseteq Accepted(g)
  <2> SUFFICES ASSUME known PROVE removed \in Seq(Members(p)) /\ Accepted(removed) \subseteq Accepted(g)
    OBVIOUS
  <2>1. PlaceOf(s, g) \in DOMAIN g
    BY <1>5, <1>6, PlaceIsFound
  <2> QED
    BY <1>5, <1>6, <2>1, RemovedIsTyped
<1> HIDE DEF known, marked, removed
<1>10. group'[p] # NULL => group'[p] \in Seq(Members(p))
  BY <1>1, <1>5, <1>7, <1>8, <1>9
<1>11. SessionOK'
  BY <1>3, <1>7, <1>10 DEF Inv, TypeOK, SessionOK
<1>12. GroupSound(p)'
  <2>1. CASE known /\ m.accepted
    <3>1. pre[p] = m.uid /\ s \in agreed[m.uid]
      BY <1>1, <2>1 DEF known, Sound, SoundBy
    <3>2. GroupSound(p)
      BY DEF Inv, GroupInv
    <3>3. group'[p] = marked /\ Accepted(marked) \subseteq Accepted(g) \cup {s}
      BY <1>7, <1>8, <2>1
    <3> HIDE DEF m
    <3> QED
      BY <1>3, <3>1, <3>2, <3>3 DEF GroupSound
  <2>2. CASE ~ (known /\ m.accepted)
    <3>1. Accepted(group'[p]) \subseteq Accepted(group[p])
      BY <1>7, <1>9, <2>2
    <3> QED
      BY <1>2, <1>3, <3>1, GroupKept
  <2> QED
    BY <2>1, <2>2
<1>13. UNCHANGED <<pre, uid, overtaken>> /\ OneOrOvertaken(p)'
  BY <1>3 DEF Inv, OneGroupAtATime, OneOrOvertaken
<1> QED
  BY <1>2, <1>4, <1>7, <1>11, <1>12, <1>13, ClientStep DEF SameGroups

LEMMA PreinviteCanceledInv ==
  ASSUME Inv, NEW p \in Players, NEW s \in Players, PreinviteCanceled(p, s)
  PROVE  Inv'
<1>1. Kept(net')
  BY Received, Constants DEF PreinviteCanceled
<1>2. CountsOK' /\ Grows /\ UNCHANGED service
  BY Handled DEF PreinviteCanceled, history
<1>3. SessionOK' /\ pre'[p] = NULL
  BY DEF Inv, TypeOK, SessionOK, PreinviteCanceled
<1>4. \A q \in Players \ {p} : SameGroups(q)
  BY DEF Inv, TypeOK, SessionOK, PreinviteCanceled, SameGroups
<1>5. GroupSound(p)' /\ OneOrOvertaken(p)'
  BY <1>3 DEF GroupSound, OneOrOvertaken
<1> QED
  BY <1>1, <1>2, <1>3, <1>4, <1>5, ClientStep
-----------------------------------------------------------------------------
(* The handlers of what the service tells a client. *)

(* A client that keeps its groups as they are. *)
LEMMA StaysInItsGroups ==
  ASSUME Inv, NEW p \in Players, Grows, UNCHANGED <<pre, uid, group, overtaken>>
  PROVE  /\ \A q \in Players \ {p} : SameGroups(q)
         /\ OneOrOvertaken(p)'
         /\ GroupSound(p)'
<1>1. pre'[p] = pre[p] /\ Accepted(group'[p]) \subseteq Accepted(group[p])
  OBVIOUS
<1>2. GroupSound(p)'
  BY <1>1, GroupKept
<1> QED
  BY <1>2 DEF Inv, OneGroupAtATime, OneOrOvertaken, SameGroups

LEMMA StartedInv ==
  ASSUME Inv, NEW p \in Players, Started(p)
  PROVE  Inv'
<1> DEFINE u == Head(net[Service][p]).uid
<1>1. u \in Uids /\ Kept(net')
  BY Received, Constants DEF Started, Told
<1>2. CountsOK' /\ Grows /\ UNCHANGED service
  BY Handled DEF Started, Told
<1>3. \/ /\ uid' = [uid EXCEPT ![p] = u] /\ pre' = [pre EXCEPT ![p] = NULL]
         /\ tryAgain' = [tryAgain EXCEPT ![p] = FALSE]
      \/ UNCHANGED <<uid, pre, tryAgain>>
  BY DEF Started
<1>4. SessionOK'
  BY <1>1, <1>3 DEF Inv, TypeOK, SessionOK, Started
<1>5. /\ \A q \in Players \ {p} : SameGroups(q)
      /\ pre'[p] = NULL \/ (pre'[p] = pre[p] /\ uid'[p] = uid[p])
      /\ group' = group /\ overtaken' = overtaken
  BY <1>3 DEF Inv, TypeOK, SessionOK, Started, SameGroups
<1>6. OneOrOvertaken(p)'
  BY <1>5 DEF Inv, OneGroupAtATime, OneOrOvertaken
<1>7. GroupSound(p)'
  BY <1>2, <1>5, GroupKept
<1> QED
  BY <1>1, <1>2, <1>4, <1>5, <1>6, <1>7, ClientStep

LEMMA OfferInv ==
  ASSUME Inv, NEW p \in Players, Offer(p)
  PROVE  Inv'
<1> DEFINE u == Head(net[Service][p]).uid
<1>1. u \in Uids /\ Kept(Taken(Service, p))
  BY Received, Constants DEF Offer, Told
<1>2. CountsOK' /\ Grows /\ UNCHANGED service
  BY Handled DEF Offer, Told
<1>3. \A b \in BOOLEAN : Kept(SentTo(Taken(Service, p), p, {Service}, OfferResponse(u, b)))
  <2> TAKE b \in BOOLEAN
  <2>1. OfferResponse(u, b) \in Messages /\ \A r \in Parties : After(p, r, OfferResponse(u, b))
    BY <1>1, MessagesMade DEF After, SoundBy, OfferResponse
  <2> QED
    BY <1>1, <2>1, KeptSent, Constants
<1>4. Kept(net')
  <2>1. (uid[p] # NULL \/ Head(net[Service][p]).bare) \in BOOLEAN
    OBVIOUS
  <2> QED
    BY <1>3, <2>1 DEF Offer
<1>6. UNCHANGED <<pre, uid, group, master, overtaken>>
  BY DEF Offer, groups
<1>5. SessionOK'
  BY <1>6 DEF Inv, TypeOK, SessionOK, Offer
<1> QED
  BY <1>2, <1>4, <1>5, <1>6, StaysInItsGroups, ClientStep

LEMMA ForgottenOrNot ==
  ASSUME Inv, NEW p \in Players, Kept(net'), CountsOK', Grows, UNCHANGED service,
         Forgotten(p) \/ UNCHANGED groups,
         tryAgain' \in [Players -> BOOLEAN]
  PROVE  Inv'
<1>1. CASE Forgotten(p)
  BY <1>1, ForgottenOK, ClientStep
<1>2. CASE UNCHANGED groups
  <2>1. SessionOK'
    BY <1>2 DEF Inv, TypeOK, SessionOK, groups
  <2>2. UNCHANGED <<pre, uid, group, overtaken>>
    BY <1>2 DEF groups
  <2> QED
    BY <2>1, <2>2, StaysInItsGroups, ClientStep
<1> QED
  BY <1>1, <1>2

LEMMA SucceededInv ==
  ASSUME Inv, NEW p \in Players, Succeeded(p)
  PROVE  Inv'
<1>1. Kept(net')
  BY Received, Constants DEF Succeeded, Told
<1>2. CountsOK' /\ Grows /\ UNCHANGED service
  BY Handled DEF Succeeded, Told
<1>3. tryAgain' \in [Players -> BOOLEAN]
  BY DEF Inv, TypeOK, SessionOK, Succeeded
<1>4. Forgotten(p) \/ UNCHANGED groups
  BY DEF Succeeded
<1> QED
  BY <1>1, <1>2, <1>3, <1>4, ForgottenOrNot

LEMMA CanceledInv ==
  ASSUME Inv, NEW p \in Players, Canceled(p)
  PROVE  Inv'
<1>1. Kept(net')
  BY Received, Constants DEF Canceled, Told
<1>2. CountsOK' /\ Grows /\ UNCHANGED service
  BY Handled DEF Canceled, Told
<1>3. tryAgain' \in [Players -> BOOLEAN]
  BY DEF Inv, TypeOK, SessionOK, Canceled
<1>4. Forgotten(p) \/ UNCHANGED groups
  BY DEF Canceled
<1> QED
  BY <1>1, <1>2, <1>3, <1>4, ForgottenOrNot

LEMMA JoinedInv ==
  ASSUME Inv, NEW p \in Players, Joined(p)
  PROVE  Inv'
<1>1. Kept(net')
  BY Received, Constants DEF Joined, Told
<1>2. CountsOK' /\ Grows /\ UNCHANGED service
  BY Handled DEF Joined, Told
<1>3. tryAgain' \in [Players -> BOOLEAN] /\ Forgotten(p)
  BY DEF Inv, TypeOK, SessionOK, Joined
<1> QED
  BY <1>1, <1>2, <1>3, ForgottenOrNot

LEMMA MissionExpiredInv ==
  ASSUME Inv, NEW p \in Players, MissionExpired(p)
  PROVE  Inv'
<1> DEFINE m == Head(net[Service][p])
<1>1. m.uid \in Uids /\ Kept(Taken(Service, p)) /\ p \in agreed[m.uid]
  BY Received, Constants DEF MissionExpired, Told, Sound, SoundBy
<1>2. CountsOK' /\ Grows /\ UNCHANGED service /\ agreed' = agreed
  BY Handled DEF MissionExpired, Told
<1>3. Kept(SentTo(Taken(Service, p), p, {Service}, Notice("missions", m.uid)))
  <2>1. Notice("missions", m.uid) \in Messages
    BY <1>1, MessagesMade
  <2>2. \A r \in Parties : After(p, r, Notice("missions", m.uid))
    BY <1>1, <1>2, Constants DEF After, SoundBy, Notice
  <2> QED
    BY <1>1, <2>1, <2>2, KeptSent, Constants
<1>4. Kept(net')
  BY <1>1, <1>3 DEF MissionExpired
<1>5. tryAgain' \in [Players -> BOOLEAN] /\ UNCHANGED groups
  BY DEF Inv, TypeOK, SessionOK, MissionExpired, session
<1> QED
  BY <1>2, <1>4, <1>5, ForgottenOrNot

LEMMA MissionsUpdatedInv ==
  ASSUME Inv, NEW p \in Players, MissionsUpdated(p)
  PROVE  Inv'
<1> DEFINE u == Head(net[Service][p]).uid
           again == Search(u, Accepted(group[p]), 1)
<1>1. u \in Uids /\ Kept(Taken(Service, p)) /\ p \in agreed[u]
  <2>1. Receives(Service, p, "missions") /\ p \in Parties /\ Service \in Parties
    BY Constants DEF MissionsUpdated, Told
  <2> QED
    BY <2>1, Received, Constants DEF Sound, SoundBy
<1>2. /\ UNCHANGED service /\ agreed' = agreed /\ UNCHANGED <<opens, commands>>
      /\ mixed' = (mixed \/ (pre[p] # u /\ group[p] # NULL)) \/ mixed' = mixed
  BY DEF MissionsUpdated, Told, Handler
<1>3. CountsOK' /\ Grows
  BY <1>2 DEF Inv, TypeOK, CountsOK, Grows, opens
<1>4. ASSUME mixed' = (mixed \/ (pre[p] # u /\ group[p] # NULL))
      PROVE  Kept(SentTo(Taken(Service, p), p, {Service}, again))
  <2>1. Accepted(group[p]) \in SUBSET Players
    <3>1. group[p] # NULL => group[p] \in Seq(Members(p))
      BY DEF Inv, TypeOK, SessionOK
    <3> QED
      BY <3>1, AcceptedAreOthers
  <2>2. again \in Messages
    BY <1>1, <2>1, MessagesMade
  <2>3. ~mixed' => Accepted(group[p]) \subseteq agreed[u]
    <3>1. GroupSound(p) /\ Accepted(NULL) = {}
      BY DEF Inv, GroupInv, Accepted
    <3> HIDE DEF u
    <3>2. CASE group[p] = NULL
      BY <3>1, <3>2
    <3>3. CASE group[p] # NULL
      BY <1>1, <1>4, <3>1, <3>3, Constants DEF GroupSound
    <3> QED
      BY <3>2, <3>3
  <2>4. \A r \in Parties : After(p, r, again)
    BY <1>1, <1>2, <2>3 DEF After, SoundBy, Search
  <2> HIDE DEF again
  <2> QED
    BY <1>1, <2>2, <2>4, KeptSent, Constants
<1>5. Kept(net')
  BY <1>1, <1>4 DEF MissionsUpdated
<1>6. tryAgain' \in [Players -> BOOLEAN] /\ UNCHANGED groups
  BY DEF Inv, TypeOK, SessionOK, MissionsUpdated, session
<1> QED
  BY <1>2, <1>3, <1>5, <1>6, ForgottenOrNot
-----------------------------------------------------------------------------
(* The service. *)
LEMMA CommandsKept == ASSUME Inv, UNCHANGED commands PROVE commands' \in 0 .. MaxCommands
BY DEF Inv, TypeOK, CountsOK

LEMMA ServiceStep ==
  ASSUME Inv, Serves, commands' \in 0 .. MaxCommands, Kept(net'), ServiceOK', GroupAgreed'
  PROVE  Inv'
<1>1. Grows
  BY DEF Serves, history, Grows
<1>2. FlightInv' /\ (net \in Net)'
  BY <1>1, FlightKept
<1>3. SessionOK' /\ CountsOK'
  BY DEF Inv, TypeOK, SessionOK, CountsOK, Serves, session, groups, opens, history
<1>4. OneGroupAtATime' /\ GroupInv'
  BY DEF Inv, OneGroupAtATime, GroupInv, GroupSound, Serves, session, groups, history
<1> QED
  BY <1>2, <1>3, <1>4 DEF Inv, TypeOK

LEMMA AgreedKept ==
  ASSUME Inv, Serves, \A u \in Uids : searches'[u] \subseteq searches[u]
  PROVE  GroupAgreed'
BY DEF Inv, GroupAgreed, Serves, history

(* A notice that does not put a search in motion. *)
LEMMA Notified ==
  ASSUME NEW queues, Kept(queues), NEW u \in Uids, NEW rs,
         NEW type \in {"started", "succeeded", "canceled", "joined"}
  PROVE  Kept(SentTo(queues, Service, rs, Notice(type, u)))
<1>1. Notice(type, u) \in Messages
  BY MessagesMade
<1>2. \A r \in Parties : After(Service, r, Notice(type, u))
  BY DEF After, SoundBy, Notice
<1> QED
  BY <1>1, <1>2, KeptSent, Constants

LEMMA SearchRequestedInv ==
  ASSUME Inv, NEW p \in Players, SearchRequested(p)
  PROVE  Inv'
<1> DEFINE m == Head(net[p][Service])
           u == m.uid
           all == {p} \cup m.with
<1>1. /\ m \in Messages /\ m.type = "quickplay" /\ Sound(p, Service, m)
      /\ u \in Uids /\ m.with \in SUBSET Players /\ Kept(Taken(p, Service))
  BY Received, MessageFields, Constants DEF SearchRequested
<1>2. /\ Serves /\ offered' = offered /\ agreed' = agreed /\ mixed' = mixed
      /\ commands' \in 0 .. MaxCommands
  BY CommandsKept DEF SearchRequested, Serves, history
<1>3. p \in agreed[u] /\ (~mixed => all \subseteq agreed[u])
  BY <1>1 DEF Sound, SoundBy
<1>4. CASE /\ searches[u] = {}
           /\ searches' = [searches EXCEPT ![u] = all]
           /\ net' = SentTo(Taken(p, Service), Service, all, Notice("started", u))
  <2>1. Kept(net')
    BY <1>1, <1>4, Notified
  <2>2. ServiceOK'
    BY <1>1, <1>2, <1>4 DEF Inv, TypeOK, ServiceOK
  <2>3. GroupAgreed'
    BY <1>1, <1>2, <1>3, <1>4 DEF Inv, TypeOK, ServiceOK, GroupAgreed
  <2> QED
    BY <1>2, <2>1, <2>2, <2>3, ServiceStep
<1>5. CASE searches' = searches /\ Kept(net')
  <2>1. ServiceOK'
    BY <1>2, <1>5 DEF Inv, TypeOK, ServiceOK
  <2>2. GroupAgreed'
    BY <1>2, <1>5, AgreedKept
  <2> QED
    BY <1>2, <1>5, <2>1, <2>2, ServiceStep
<1>6. Kept(SentTo(Taken(p, Service), Service, {p}, Notice("expired", u)))
  <2>1. Notice("expired", u) \in Messages
    BY <1>1, MessagesMade
  <2>2. \A r \in Parties : r \in {p} => After(Service, r, Notice("expired", u))
    BY <1>2, <1>3 DEF After, SoundBy, Notice
  <2> QED
    BY <1>1, <2>1, <2>2, KeptSent, Constants
<1>7. \/ /\ searches[u] = {}
         /\ searches' = [searches EXCEPT ![u] = all]
         /\ net' = SentTo(Taken(p, Service), Service, all, Notice("started", u))
      \/ net' = Taken(p, Service) /\ searches' = searches
      \/ /\ net' = SentTo(Taken(p, Service), Service, {p}, Notice("expired", u))
         /\ searches' = searches
  BY DEF SearchRequested
<1> QED
  BY <1>1, <1>4, <1>5, <1>6, <1>7

LEMMA MissionsAskedInv ==
  ASSUME Inv, NEW p \in Players, MissionsAsked(p)
  PROVE  Inv'
<1> DEFINE m == Head(net[p][Service])
<1>1. /\ m \in Messages /\ m.type = "missions" /\ Sound(p, Service, m)
      /\ Kept(Taken(p, Service))
  BY Received, Constants DEF MissionsAsked
<1>2. Serves /\ UNCHANGED service /\ agreed' = agreed /\ commands' \in 0 .. MaxCommands
  BY CommandsKept DEF MissionsAsked, Serves, history
<1>3. Kept(net')
  <2>1. \A r \in Parties : r \in {p} => After(Service, r, m)
    BY <1>1, <1>2, Constants DEF Sound, SoundBy, After
  <2>2. net' = SentTo(Taken(p, Service), Service, {p}, m)
    BY DEF MissionsAsked
  <2> HIDE DEF m
  <2> QED
    BY <1>1, <2>1, <2>2, KeptSent, Constants
<1>4. ServiceOK'
  BY <1>2 DEF Inv, TypeOK, ServiceOK, service
<1>5. GroupAgreed'
  BY <1>2, AgreedKept DEF service
<1> QED
  BY <1>2, <1>3, <1>4, <1>5, ServiceStep

LEMMA SearchCanceledInv ==
  ASSUME Inv, NEW p \in Players, SearchCanceled(p)
  PROVE  Inv'
<1> DEFINE theirs == {u \in Uids : p \in searches[u]}
           u == CHOOSE v \in theirs : TRUE
<1>1. Kept(Taken(p, Service)) /\ Serves /\ commands' \in 0 .. MaxCommands
  BY Received, Constants, CommandsKept DEF SearchCanceled
<1>2. Kept(net')
  <2>1. CASE theirs = {}
    BY <1>1, <2>1 DEF SearchCanceled
  <2>2. CASE theirs # {}
    <3>1. u \in Uids
      BY <2>2
    <3>2. net' = SentTo(Taken(p, Service), Service, searches[u], Notice("canceled", u))
      BY <2>2 DEF SearchCanceled
    <3> HIDE DEF u
    <3> QED
      BY <1>1, <3>1, <3>2, Notified
  <2> QED
    BY <2>1, <2>2
<1>3. /\ searches' = [v \in Uids |-> IF v \in theirs THEN {} ELSE searches[v]]
      /\ offered' = [v \in Uids |-> IF v \in theirs THEN {} ELSE offered[v]]
  BY DEF SearchCanceled
<1> HIDE DEF theirs
<1>4. ServiceOK'
  BY <1>3 DEF Inv, TypeOK, ServiceOK
<1>5. GroupAgreed'
  BY <1>1, <1>3, AgreedKept
<1> QED
  BY <1>1, <1>2, <1>4, <1>5, ServiceStep

LEMMA MatchInv ==
  ASSUME Inv, NEW u \in Uids, Match(u)
  PROVE  Inv'
<1>0. PICK bare \in BOOLEAN :
        net' = SentTo(SentTo(net, Service, searches[u], Proposal(u, bare)),
                      Service, searches[u], Notice("succeeded", u))
  BY QuickplayAssumption DEF Match
<1>1. Kept(SentTo(net, Service, searches[u], Proposal(u, bare)))
  <2>1. Proposal(u, bare) \in Messages /\ \A r \in Parties : After(Service, r, Proposal(u, bare))
    BY MessagesMade DEF After, SoundBy, Proposal
  <2> QED
    BY <2>1, KeptNet, KeptSent, Constants
<1>2. Kept(net')
  BY <1>0, <1>1, Notified
<1>3. ServiceOK'
  BY DEF Inv, TypeOK, ServiceOK, Match
<1>4. Serves /\ searches' = searches /\ commands' \in 0 .. MaxCommands
  BY QuickplayAssumption DEF Match, Inv, TypeOK, CountsOK
<1>5. GroupAgreed'
  BY <1>4, AgreedKept
<1> QED
  BY <1>2, <1>3, <1>4, <1>5, ServiceStep

LEMMA OfferAnsweredInv ==
  ASSUME Inv, NEW p \in Players, OfferAnswered(p)
  PROVE  Inv'
<1> DEFINE m == Head(net[p][Service])
           u == m.uid
<1>1. u \in Uids /\ Kept(Taken(p, Service))
  BY Received, Constants DEF OfferAnswered
<1>2. Kept(net') /\ Serves /\ commands' \in 0 .. MaxCommands
  BY <1>1, Notified, CommandsKept DEF OfferAnswered
<1>3. \/ /\ offered' = [offered EXCEPT ![u] = @ \ {p}]
         /\ searches' = [searches EXCEPT ![u] = @ \ {p}] \/ searches' = searches
      \/ offered' = offered /\ searches' = searches
  BY DEF OfferAnswered
<1>4. ServiceOK'
  BY <1>1, <1>3 DEF Inv, TypeOK, ServiceOK
<1>5. \A v \in Uids : searches'[v] \subseteq searches[v]
  BY <1>1, <1>3 DEF Inv, TypeOK, ServiceOK
<1> QED
  BY <1>2, <1>4, <1>5, AgreedKept, ServiceStep
-----------------------------------------------------------------------------
LEMMA StutterInv == ASSUME Inv, UNCHANGED vars PROVE Inv'
BY DEF Inv, TypeOK, SessionOK, ServiceOK, CountsOK, OneGroupAtATime, FlightInv, GroupInv,
       GroupSound, GroupAgreed, Sound, SoundBy, vars, session, groups, service, opens, history

LEMMA NextInv == ASSUME Inv, [Next]_vars PROVE Inv'
<1>1. ASSUME NEW p \in Players,
             Opening(p) \/ Open(p) \/ Start(p) \/ CancelCommand(p) \/ RoomChanged(p)
      PROVE  Inv'
  BY <1>1, OpeningInv, OpenInv, StartInv, CancelCommandInv, RoomChangedInv
<1>2. ASSUME NEW p \in Players, NEW q \in Players \ {p},
             Preinvite(p, q) \/ Preinvited(p, q) \/ Postponed(p, q) \/ Responded(p, q)
               \/ PreinviteCanceled(p, q)
      PROVE  Inv'
  BY <1>2, PreinviteInv, PreinvitedInv, PostponedInv, RespondedInv, PreinviteCanceledInv
<1>3. ASSUME NEW p \in Players,
             Started(p) \/ Offer(p) \/ Succeeded(p) \/ Canceled(p) \/ Joined(p)
               \/ MissionExpired(p) \/ MissionsUpdated(p)
      PROVE  Inv'
  BY <1>3, StartedInv, OfferInv, SucceededInv, CanceledInv, JoinedInv, MissionExpiredInv,
     MissionsUpdatedInv
<1>4. ASSUME NEW p \in Players,
             MissionsAsked(p) \/ SearchRequested(p) \/ SearchCanceled(p) \/ OfferAnswered(p)
      PROVE  Inv'
  BY <1>4, MissionsAskedInv, SearchRequestedInv, SearchCanceledInv, OfferAnsweredInv
<1> QED
  BY <1>1, <1>2, <1>3, <1>4, MatchInv, StutterInv DEF Next

(* The invariant holds in every state, whatever the players, the groups      *)
(* opened and the commands given.                                            *)
THEOREM QuickplayInvariant == Spec => []Inv
<1>1. Init => Inv
  BY InitInv
<1>2. Inv /\ [Next]_vars => Inv'
  BY NextInv
<1> QED
  BY <1>1, <1>2, PTL DEF Spec

(* What the clients and the service hold, and all that is under way between  *)
(* them, has its type; who is offered a match is in that search.             *)
THEOREM QuickplayTypeCorrect == Spec => []TypeOK
<1>1. Inv => TypeOK
  BY DEF Inv
<1> QED
  BY <1>1, QuickplayInvariant, PTL

(* A client is in one group at most, before or during its search, whatever   *)
(* invitations, answers and notices cross, unless a search began between the *)
(* check of its quickplay_open() and the new uid.                            *)
THEOREM OneGroup == Spec => []OneGroupAtATime
<1>1. Inv => OneGroupAtATime
  BY DEF Inv
<1> QED
  BY <1>1, QuickplayInvariant, PTL

(* The service searches for nobody who has neither opened the group nor      *)
(* accepted an invitation to it, however late the answers come and the       *)
(* retries are, unless two groups were mixed in one client.                  *)
THEOREM SearchedForWhoAgreed == Spec => []GroupAgreed
<1>1. Inv => GroupAgreed
  BY DEF Inv
<1> QED
  BY <1>1, QuickplayInvariant, PTL
-----------------------------------------------------------------------------
(* What a client waits for: the notices under way to it, place by place.    *)
(* A place of a queue after a message was added, or the oldest one taken.    *)
LEMMA Added ==
  ASSUME NEW q \in Seq(Messages), NEW m \in Messages
  PROVE  LET r == Append(q, m)
         IN  /\ r \in Seq(Messages) /\ r # <<>> /\ Len(q) \in Nat /\ Len(r) = Len(q) + 1
             /\ DOMAIN q = 1 .. Len(q) /\ DOMAIN r = 1 .. Len(q) + 1
             /\ \A i \in 1 .. Len(q) : r[i] = q[i]
             /\ r[Len(q) + 1] = m
             /\ q # <<>> => Head(r) = Head(q)
<1> DEFINE r == Append(q, m)
<1>1. /\ r \in Seq(Messages) /\ Len(q) \in Nat /\ Len(r) = Len(q) + 1
      /\ DOMAIN q = 1 .. Len(q) /\ DOMAIN r = 1 .. Len(q) + 1
  OBVIOUS
<1>2. (\A i \in 1 .. Len(q) : r[i] = q[i]) /\ r[Len(q) + 1] = m
  OBVIOUS
<1>3. r # <<>>
  BY <1>1
<1>4. q # <<>> => Head(r) = Head(q)
  BY <1>1, <1>2, <1>3
<1> QED
  BY <1>1, <1>2, <1>3, <1>4

LEMMA OldestTaken ==
  ASSUME NEW q \in Seq(Messages), q # <<>>
  PROVE  LET t == Tail(q)
         IN  /\ t \in Seq(Messages) /\ Len(t) \in Nat /\ Len(q) = Len(t) + 1
             /\ DOMAIN q = 1 .. Len(t) + 1 /\ DOMAIN t = 1 .. Len(t)
             /\ \A i \in 1 .. Len(t) : t[i] = q[i + 1]
             /\ Head(q) = q[1] /\ (t # <<>> => Head(t) = t[1] /\ 1 \in DOMAIN t)
             /\ 1 \in DOMAIN t => t # <<>>
<1> DEFINE t == Tail(q)
<1>1. t \in Seq(Messages) /\ Len(t) \in Nat /\ Len(q) = Len(t) + 1
  OBVIOUS
<1>2. DOMAIN q = 1 .. Len(t) + 1 /\ DOMAIN t = 1 .. Len(t)
  BY <1>1
<1>3. \A i \in 1 .. Len(t) : t[i] = q[i + 1]
  OBVIOUS
<1>4. Head(q) = q[1]
  OBVIOUS
<1>5. (t # <<>> => Head(t) = t[1] /\ 1 \in DOMAIN t) /\ (1 \in DOMAIN t => t # <<>>)
  <2> HIDE DEF t
  <2> QED
    BY <1>1, <1>2
<1> QED
  BY <1>1, <1>2, <1>3, <1>4, <1>5

(* A notice added says nothing of the places before it.                     *)
LEMMA AddedBefore ==
  ASSUME NEW q \in Seq(Messages), NEW m \in Messages, NEW u, NEW again, NEW v,
         NEW j \in 0 .. Len(q), NEW i \in j + 1 .. Len(q) + 1
  PROVE  /\ Waits(Append(q, m), u, j, v) <=> Waits(q, u, j, v)
         /\ Quiet(Append(q, m), j, i) <=> Quiet(q, j, i)
         /\ Over(Append(q, m), again, j, i, v) <=> Over(q, again, j, i, v)
<1> DEFINE r == Append(q, m)
<1>1. Len(q) \in Nat /\ \A k \in 1 .. Len(q) : r[k] = q[k]
  BY Added
<1> HIDE DEF r
<1>2. Waits(r, u, j, v) <=> Waits(q, u, j, v)
  BY <1>1 DEF Waits
<1>3. \A k \in j + 1 .. i - 1 : k \in 1 .. Len(q)
  BY <1>1
<1>4. Quiet(r, j, i) <=> Quiet(q, j, i)
  BY <1>1, <1>3 DEF Quiet
<1>5. Over(r, again, j, i, v) <=> Over(q, again, j, i, v)
  BY <1>1, <1>3 DEF Over
<1> QED
  BY <1>2, <1>4, <1>5 DEF r

(* At the end of the queue it is the last thing heard. *)
LEMMA AddedAtEnd ==
  ASSUME NEW q \in Seq(Messages), NEW m \in Messages, NEW again, NEW v, NEW j \in 0 .. Len(q)
  PROVE  LET r == Append(q, m)
             e == Len(q) + 2
         IN  /\ Quiet(r, j, e) => Quiet(q, j, Len(q) + 1) /\ m.type # "started"
             /\ m.type # "started" /\ Quiet(q, j, Len(q) + 1) => Quiet(r, j, e)
             /\ Over(q, again, j, Len(q) + 1, v) => Over(r, again, j, e, v)
             /\ m = Notice("canceled", v) => Over(r, again, j, e, v)
<1> DEFINE r == Append(q, m)
           e == Len(q) + 2
<1>1. Len(q) \in Nat /\ (\A k \in 1 .. Len(q) : r[k] = q[k]) /\ r[Len(q) + 1] = m
  BY Added
<1> HIDE DEF r
<1>2. /\ Len(q) + 1 \in j + 1 .. e - 1
      /\ \A k \in j + 1 .. (Len(q) + 1) - 1 : k \in j + 1 .. e - 1 /\ k \in 1 .. Len(q)
      /\ \A k \in j + 1 .. e - 1 : k = Len(q) + 1 \/ k \in j + 1 .. (Len(q) + 1) - 1
  BY <1>1
<1>3. Quiet(r, j, e) => Quiet(q, j, Len(q) + 1) /\ m.type # "started"
  BY <1>1, <1>2 DEF Quiet
<1>4. m.type # "started" /\ Quiet(q, j, Len(q) + 1) => Quiet(r, j, e)
  BY <1>1, <1>2 DEF Quiet
<1>5. Over(q, again, j, Len(q) + 1, v) => Over(r, again, j, e, v)
  BY <1>1, <1>2 DEF Over
<1>6. m = Notice("canceled", v) => Over(r, again, j, e, v)
  BY <1>1, <1>2 DEF Over
<1> QED
  BY <1>3, <1>4, <1>5, <1>6 DEF r

(* A notice that is neither an offer nor begins a search; one that ends the  *)
(* search takes the client out of it.                                        *)
LEMMA NoticeAdded ==
  ASSUME NEW q \in Seq(Messages), NEW a, NEW u, NEW again, NEW mine \in SUBSET Uids,
         NEW asked \in SUBSET Uids, NEW m \in Messages, m.type \notin {"offer", "started"},
         Followed(q, a, u, again, mine, asked),
         NEW left \in SUBSET mine, NEW still \in SUBSET asked,
         left = mine \/ (left = {} /\ \E w \in mine : m = Notice("canceled", w))
  PROVE  Followed(Append(q, m), a, u, again, left, still)
<1> DEFINE r == Append(q, m)
<1>1. /\ Len(q) \in Nat /\ Len(r) = Len(q) + 1 /\ DOMAIN q = 1 .. Len(q)
      /\ DOMAIN r = 1 .. Len(q) + 1 /\ r # <<>> /\ r[Len(q) + 1] = m
      /\ (\A i \in 1 .. Len(q) : r[i] = q[i]) /\ (q # <<>> => Head(r) = Head(q))
  BY Added
<1>2. Paired(q, again) /\ Ordered(q, u, again) /\ Tracked(q, u, again, mine)
      /\ Owed(q, a, u, again, asked)
  BY DEF Followed
<1>3. /\ \A v : \A j \in 0 .. Len(q) : \A i \in j + 1 .. Len(q) + 1 :
           /\ Waits(r, u, j, v) <=> Waits(q, u, j, v)
           /\ Quiet(r, j, i) <=> Quiet(q, j, i)
           /\ Over(r, again, j, i, v) <=> Over(q, again, j, i, v)
  BY AddedBefore
<1>4. \A v : \A j \in 0 .. Len(q) :
        /\ Quiet(r, j, Len(r) + 1) <=> Quiet(q, j, Len(q) + 1)
        /\ Over(q, again, j, Len(q) + 1, v) => Over(r, again, j, Len(r) + 1, v)
        /\ m = Notice("canceled", v) => Over(r, again, j, Len(r) + 1, v)
  <2> SUFFICES ASSUME NEW v, NEW j \in 0 .. Len(q)
               PROVE  /\ Quiet(r, j, Len(r) + 1) <=> Quiet(q, j, Len(q) + 1)
                      /\ Over(q, again, j, Len(q) + 1, v) => Over(r, again, j, Len(r) + 1, v)
                      /\ m = Notice("canceled", v) => Over(r, again, j, Len(r) + 1, v)
    OBVIOUS
  <2>1. Len(r) + 1 = Len(q) + 2 /\ m.type # "started"
    BY <1>1
  <2>2. /\ Quiet(r, j, Len(q) + 2) <=> Quiet(q, j, Len(q) + 1)
        /\ Over(q, again, j, Len(q) + 1, v) => Over(r, again, j, Len(q) + 2, v)
        /\ m = Notice("canceled", v) => Over(r, again, j, Len(q) + 2, v)
    BY <2>1, AddedAtEnd
  <2> HIDE DEF r
  <2> QED
    BY <2>1, <2>2
<1> HIDE DEF r
<1>5. Paired(r, again)
  BY <1>1, <1>2 DEF Paired
<1>6. Ordered(r, u, again)
  <2> SUFFICES ASSUME NEW j \in 0 .. Len(r), NEW v \in Uids, NEW i \in j + 1 .. Len(r),
                      Waits(r, u, j, v), Quiet(r, j, i)
               PROVE  /\ r[i].type = "offer" => r[i].uid = v
                      /\ r[i].type = "started" => Over(r, again, j, i, v)
    BY DEF Ordered
  <2>1. CASE i = Len(q) + 1
    BY <1>1, <2>1
  <2>2. CASE i \in 1 .. Len(q)
    <3>1. j \in 0 .. Len(q) /\ i \in j + 1 .. Len(q) /\ i \in j + 1 .. Len(q) + 1
      BY <1>1, <2>2
    <3>2. Waits(q, u, j, v) /\ Quiet(q, j, i) /\ (Over(q, again, j, i, v) => Over(r, again, j, i, v))
      BY <1>3, <3>1
    <3> QED
      BY <1>1, <1>2, <2>2, <3>1, <3>2 DEF Ordered
  <2> QED
    BY <1>1, <2>1, <2>2
<1>7. Tracked(r, u, again, left)
  <2>1. \A v, w \in left : v = w
    BY <1>2 DEF Tracked
  <2>2. ASSUME NEW j \in 0 .. Len(r), NEW v \in Uids, Waits(r, u, j, v), Quiet(r, j, Len(r) + 1)
        PROVE  v \in left \/ (left = {} /\ Over(r, again, j, Len(r) + 1, v))
    <3>1. j \in 0 .. Len(q)
      <4>1. CASE j = Len(q) + 1
        BY <1>1, <2>2, <4>1 DEF Waits, Notice
      <4> QED
        BY <1>1, <4>1
    <3>2. Waits(q, u, j, v) /\ Quiet(q, j, Len(q) + 1)
      <4>1. Len(q) + 1 \in j + 1 .. Len(q) + 1
        BY <1>1, <3>1
      <4> QED
        BY <1>3, <1>4, <2>2, <3>1, <4>1
    <3>3. v \in mine \/ (mine = {} /\ Over(q, again, j, Len(q) + 1, v))
      BY <1>2, <3>1, <3>2 DEF Tracked
    <3>4. \A w \in mine : v \in mine => v = w
      BY <1>2 DEF Tracked
    <3> QED
      BY <1>4, <3>1, <3>3, <3>4
  <2> QED
    BY <2>1, <2>2 DEF Tracked
<1>8. Owed(r, a, u, again, still)
  <2> SUFFICES ASSUME NEW v \in still
               PROVE  \/ \E i \in DOMAIN r : Offers(r[i], v) /\ Quiet(r, i, Len(r) + 1)
                      \/ /\ \A i \in DOMAIN r : r[i].type # "started"
                         /\ (\E i \in DOMAIN a : Takes(a, i, v)) =>
                              u = NULL \/ (r # <<>> /\ Head(r) = Notice("succeeded", u) /\ ~again)
    BY DEF Owed
  <2>1. CASE \E i \in DOMAIN q : Offers(q[i], v) /\ Quiet(q, i, Len(q) + 1)
    <3>1. PICK i \in DOMAIN q : Offers(q[i], v) /\ Quiet(q, i, Len(q) + 1)
      BY <2>1
    <3>2. i \in 0 .. Len(q) /\ i \in DOMAIN r /\ r[i] = q[i]
      BY <1>1
    <3>3. Quiet(r, i, Len(r) + 1)
      BY <1>4, <3>1, <3>2
    <3> QED
      BY <3>1, <3>2, <3>3
  <2>2. CASE /\ \A i \in DOMAIN q : q[i].type # "started"
             /\ (\E i \in DOMAIN a : Takes(a, i, v)) =>
                   u = NULL \/ (q # <<>> /\ Head(q) = Notice("succeeded", u) /\ ~again)
    <3>1. \A i \in DOMAIN r : i \in DOMAIN q \/ r[i] = m
      BY <1>1
    <3> QED
      BY <1>1, <2>2, <3>1
  <2> QED
    BY <1>2, <2>1, <2>2 DEF Owed
<1> QED
  BY <1>5, <1>6, <1>7, <1>8 DEF Followed, r

(* A search begins for a client that is in none. *)
LEMMA StartAdded ==
  ASSUME NEW q \in Seq(Messages), NEW a, NEW u, NEW again, NEW w \in Uids,
         Followed(q, a, u, again, {}, {})
  PROVE  Followed(Append(q, Notice("started", w)), a, u, again, {w}, {})
<1> DEFINE m == Notice("started", w)
           r == Append(q, m)
<1>0. m \in Messages /\ m.type = "started" /\ \A v : m = Notice("started", v) => v = w
  BY MessagesMade DEF Notice
<1> HIDE DEF m
<1>1. /\ Len(q) \in Nat /\ Len(r) = Len(q) + 1 /\ DOMAIN q = 1 .. Len(q)
      /\ DOMAIN r = 1 .. Len(q) + 1 /\ r # <<>> /\ r[Len(q) + 1] = m
      /\ (\A i \in 1 .. Len(q) : r[i] = q[i]) /\ (q # <<>> => Head(r) = Head(q))
  BY <1>0, Added
<1>2. Paired(q, again) /\ Ordered(q, u, again) /\ Tracked(q, u, again, {})
  BY DEF Followed
<1>3. /\ \A v : \A j \in 0 .. Len(q) : \A i \in j + 1 .. Len(q) + 1 :
           /\ Waits(r, u, j, v) <=> Waits(q, u, j, v)
           /\ Quiet(r, j, i) <=> Quiet(q, j, i)
           /\ Over(r, again, j, i, v) <=> Over(q, again, j, i, v)
  BY <1>0, AddedBefore
<1>4. \A j \in 0 .. Len(q) : ~ Quiet(r, j, Len(r) + 1)
  <2> SUFFICES ASSUME NEW j \in 0 .. Len(q) PROVE ~ Quiet(r, j, Len(r) + 1)
    OBVIOUS
  <2>1. Len(r) + 1 = Len(q) + 2
    BY <1>1
  <2>2. ~ Quiet(r, j, Len(q) + 2)
    BY <1>0, AddedAtEnd
  <2> HIDE DEF r
  <2> QED
    BY <2>1, <2>2
<1> HIDE DEF r
<1>5. Paired(r, again)
  BY <1>0, <1>1, <1>2 DEF Paired
<1>6. Ordered(r, u, again)
  <2> SUFFICES ASSUME NEW j \in 0 .. Len(r), NEW v \in Uids, NEW i \in j + 1 .. Len(r),
                      Waits(r, u, j, v), Quiet(r, j, i)
               PROVE  /\ r[i].type = "offer" => r[i].uid = v
                      /\ r[i].type = "started" => Over(r, again, j, i, v)
    BY DEF Ordered
  <2>1. j \in 0 .. Len(q) /\ i \in j + 1 .. Len(q) + 1
    BY <1>1
  <2>2. Waits(q, u, j, v) /\ Quiet(q, j, i) /\ (Over(q, again, j, i, v) => Over(r, again, j, i, v))
    BY <1>3, <2>1
  <2>3. CASE i = Len(q) + 1
    <3>1. Over(q, again, j, i, v)
      BY <1>2, <2>1, <2>2, <2>3 DEF Tracked
    <3> QED
      BY <1>0, <1>1, <2>2, <2>3, <3>1
  <2>4. CASE i \in j + 1 .. Len(q)
    BY <1>1, <1>2, <2>1, <2>2, <2>4 DEF Ordered
  <2> QED
    BY <1>1, <2>1, <2>3, <2>4
<1>7. Tracked(r, u, again, {w})
  <2> SUFFICES ASSUME NEW j \in 0 .. Len(r), NEW v \in Uids, Waits(r, u, j, v),
                      Quiet(r, j, Len(r) + 1)
               PROVE  v = w
    BY DEF Tracked
  <2>1. j = Len(q) + 1 /\ j # 0
    BY <1>1, <1>4
  <2> QED
    BY <1>0, <1>1, <2>1 DEF Waits
<1>8. Owed(r, a, u, again, {})
  BY DEF Owed
<1> QED
  BY <1>5, <1>6, <1>7, <1>8 DEF Followed, r, m

(* A match is found for a client in the search w. *)
LEMMA MatchAdded ==
  ASSUME NEW q \in Seq(Messages), NEW a, NEW u, NEW again, NEW mine \in SUBSET Uids,
         NEW asked \in SUBSET Uids, NEW w \in mine, NEW bare \in BOOLEAN,
         Followed(q, a, u, again, mine, asked)
  PROVE  Followed(Append(Append(q, Proposal(w, bare)), Notice("succeeded", w)),
                  a, u, again, mine, asked \cup {w})
<1> DEFINE o == Proposal(w, bare)
           y == Notice("succeeded", w)
           s == Append(q, o)
           r == Append(s, y)
<1>0. /\ o \in Messages /\ o.type = "offer" /\ o.uid = w
      /\ y \in Messages /\ y.type = "succeeded"
      /\ \A v : o # Notice("started", v) /\ y # Notice("started", v)
  <2>1. o \in Messages /\ y \in Messages
    BY MessagesMade
  <2>2. /\ o.type = "offer" /\ o.uid = w /\ y.type = "succeeded"
        /\ \A v : Notice("started", v).type = "started"
    BY DEF Proposal, Notice
  <2> QED
    BY <2>1, <2>2
<1>9. Offers(o, w) /\ y = Notice("succeeded", w)
  BY DEF Offers, Proposal
<1> HIDE DEF o, y
<1>1. /\ s \in Seq(Messages) /\ Len(q) \in Nat /\ Len(s) = Len(q) + 1 /\ DOMAIN q = 1 .. Len(q)
      /\ Len(r) = Len(q) + 2 /\ DOMAIN r = 1 .. Len(q) + 2 /\ r # <<>>
      /\ r[Len(q) + 1] = o /\ r[Len(q) + 2] = y
      /\ (\A i \in 1 .. Len(q) : r[i] = q[i]) /\ (q # <<>> => Head(r) = Head(q))
  <2>1. /\ s \in Seq(Messages) /\ Len(q) \in Nat /\ Len(s) = Len(q) + 1 /\ DOMAIN q = 1 .. Len(q)
        /\ s[Len(q) + 1] = o /\ s # <<>>
        /\ (\A i \in 1 .. Len(q) : s[i] = q[i]) /\ (q # <<>> => Head(s) = Head(q))
    BY <1>0, Added
  <2> HIDE DEF s
  <2>2. /\ Len(r) = Len(s) + 1 /\ DOMAIN r = 1 .. Len(s) + 1 /\ r # <<>>
        /\ r[Len(s) + 1] = y
        /\ (\A i \in 1 .. Len(s) : r[i] = s[i]) /\ (s # <<>> => Head(r) = Head(s))
    BY <1>0, <2>1, Added
  <2> HIDE DEF r
  <2> QED
    BY <2>1, <2>2
<1>2. Paired(q, again) /\ Ordered(q, u, again) /\ Tracked(q, u, again, mine)
      /\ Owed(q, a, u, again, asked)
  BY DEF Followed
<1>3. ASSUME NEW v, NEW j \in 0 .. Len(q), NEW i \in j + 1 .. Len(q) + 1
      PROVE  /\ Waits(r, u, j, v) <=> Waits(q, u, j, v)
             /\ Quiet(r, j, i) <=> Quiet(q, j, i)
             /\ Over(r, again, j, i, v) <=> Over(q, again, j, i, v)
  <2>1. /\ Waits(s, u, j, v) <=> Waits(q, u, j, v)
        /\ Quiet(s, j, i) <=> Quiet(q, j, i)
        /\ Over(s, again, j, i, v) <=> Over(q, again, j, i, v)
    BY <1>0, AddedBefore
  <2>2. j \in 0 .. Len(s) /\ i \in j + 1 .. Len(s) + 1 /\ s \in Seq(Messages)
    BY <1>1
  <2> HIDE DEF s
  <2>3. /\ Waits(r, u, j, v) <=> Waits(s, u, j, v)
        /\ Quiet(r, j, i) <=> Quiet(s, j, i)
        /\ Over(r, again, j, i, v) <=> Over(s, again, j, i, v)
    BY <1>0, <2>2, AddedBefore
  <2> QED
    BY <2>1, <2>3
<1>4. ASSUME NEW v, NEW j \in 0 .. Len(q)
      PROVE  /\ Quiet(r, j, Len(r) + 1) <=> Quiet(q, j, Len(q) + 1)
             /\ Over(q, again, j, Len(q) + 1, v) => Over(r, again, j, Len(r) + 1, v)
  <2>1. /\ Quiet(s, j, Len(q) + 2) <=> Quiet(q, j, Len(q) + 1)
        /\ Over(q, again, j, Len(q) + 1, v) => Over(s, again, j, Len(q) + 2, v)
    BY <1>0, AddedAtEnd
  <2>2. j \in 0 .. Len(s) /\ Len(s) + 1 = Len(q) + 2 /\ Len(r) + 1 = Len(s) + 2
    BY <1>1
  <2> HIDE DEF s
  <2>3. /\ Quiet(r, j, Len(s) + 2) <=> Quiet(s, j, Len(s) + 1)
        /\ Over(s, again, j, Len(s) + 1, v) => Over(r, again, j, Len(s) + 2, v)
    BY <1>0, <1>1, <2>2, AddedAtEnd
  <2> QED
    BY <2>1, <2>2, <2>3
<1> HIDE DEF r, s
<1>5. Paired(r, again)
  <2>1. ASSUME NEW i \in DOMAIN r, r[i].type = "offer"
        PROVE  i + 1 \in DOMAIN r /\ r[i + 1] = Notice("succeeded", r[i].uid)
    <3>1. CASE i \in 1 .. Len(q)
      <4>1. i + 1 \in DOMAIN q /\ q[i + 1] = Notice("succeeded", q[i].uid)
        BY <1>1, <1>2, <2>1, <3>1 DEF Paired
      <4> QED
        BY <1>1, <3>1, <4>1
    <3>2. CASE i = Len(q) + 1
      BY <1>0, <1>1, <1>9, <3>2
    <3> QED
      BY <1>0, <1>1, <2>1, <3>1, <3>2
  <2> QED
    BY <1>1, <1>2, <2>1 DEF Paired
<1>6. Ordered(r, u, again)
  <2> SUFFICES ASSUME NEW j \in 0 .. Len(r), NEW v \in Uids, NEW i \in j + 1 .. Len(r),
                      Waits(r, u, j, v), Quiet(r, j, i)
               PROVE  /\ r[i].type = "offer" => r[i].uid = v
                      /\ r[i].type = "started" => Over(r, again, j, i, v)
    BY DEF Ordered
  <2>1. CASE i = Len(q) + 2
    BY <1>0, <1>1, <2>1
  <2>2. CASE i \in 1 .. Len(q) + 1
    <3>1. j \in 0 .. Len(q) /\ i \in j + 1 .. Len(q) + 1
      BY <1>1, <2>2
    <3>2. Waits(q, u, j, v) /\ Quiet(q, j, i) /\ (Over(q, again, j, i, v) => Over(r, again, j, i, v))
      BY <1>3, <3>1
    <3>3. CASE i = Len(q) + 1
      <4>1. v \in mine
        BY <1>2, <3>1, <3>2, <3>3 DEF Tracked
      <4>2. v = w
        BY <1>2, <4>1 DEF Tracked
      <4> QED
        BY <1>0, <1>1, <3>3, <4>2
    <3>4. CASE i \in j + 1 .. Len(q)
      BY <1>1, <1>2, <2>2, <3>1, <3>2, <3>4 DEF Ordered
    <3> QED
      BY <1>1, <3>1, <3>3, <3>4
  <2> QED
    BY <1>1, <2>1, <2>2
<1>7. Tracked(r, u, again, mine)
  <2>1. \A v, x \in mine : v = x
    BY <1>2 DEF Tracked
  <2>2. ASSUME NEW j \in 0 .. Len(r), NEW v \in Uids, Waits(r, u, j, v), Quiet(r, j, Len(r) + 1)
        PROVE  v \in mine \/ (mine = {} /\ Over(r, again, j, Len(r) + 1, v))
    <3>1. j \in 0 .. Len(q)
      <4>1. CASE j = Len(q) + 1 \/ j = Len(q) + 2
        BY <1>0, <1>1, <2>2, <4>1 DEF Waits
      <4> QED
        BY <1>1, <4>1
    <3>2. Waits(q, u, j, v) /\ Quiet(q, j, Len(q) + 1)
      <4>1. Len(q) + 1 \in j + 1 .. Len(q) + 1
        BY <1>1, <3>1
      <4> QED
        BY <1>3, <1>4, <2>2, <3>1, <4>1
    <3>3. v \in mine
      BY <1>2, <3>1, <3>2 DEF Tracked
    <3> QED
      BY <3>3
  <2> QED
    BY <2>1, <2>2 DEF Tracked
<1>8. Owed(r, a, u, again, asked \cup {w})
  <2> SUFFICES ASSUME NEW v \in asked \cup {w}
               PROVE  \/ \E i \in DOMAIN r : Offers(r[i], v) /\ Quiet(r, i, Len(r) + 1)
                      \/ /\ \A i \in DOMAIN r : r[i].type # "started"
                         /\ (\E i \in DOMAIN a : Takes(a, i, v)) =>
                              u = NULL \/ (r # <<>> /\ Head(r) = Notice("succeeded", u) /\ ~again)
    BY DEF Owed
  <2>0. CASE v = w
    <3>1. Len(q) + 1 \in DOMAIN r /\ Offers(r[Len(q) + 1], v)
      BY <1>1, <1>9, <2>0
    <3>2. Quiet(r, Len(q) + 1, Len(r) + 1)
      BY <1>0, <1>1 DEF Quiet
    <3> QED
      BY <3>1, <3>2
  <2>1. CASE \E i \in DOMAIN q : Offers(q[i], v) /\ Quiet(q, i, Len(q) + 1)
    <3>1. PICK i \in DOMAIN q : Offers(q[i], v) /\ Quiet(q, i, Len(q) + 1)
      BY <2>1
    <3>2. i \in 0 .. Len(q) /\ i \in DOMAIN r /\ r[i] = q[i]
      BY <1>1
    <3>3. Quiet(r, i, Len(r) + 1)
      BY <1>4, <3>1, <3>2
    <3> QED
      BY <3>1, <3>2, <3>3
  <2>2. CASE /\ \A i \in DOMAIN q : q[i].type # "started"
             /\ (\E i \in DOMAIN a : Takes(a, i, v)) =>
                   u = NULL \/ (q # <<>> /\ Head(q) = Notice("succeeded", u) /\ ~again)
    <3>1. \A i \in DOMAIN r : i \in DOMAIN q \/ r[i] = o \/ r[i] = y
      BY <1>1
    <3> QED
      BY <1>0, <1>1, <2>2, <3>1
  <2> QED
    BY <1>2, <2>0, <2>1, <2>2 DEF Owed
<1> QED
  BY <1>5, <1>6, <1>7, <1>8 DEF Followed, r, s, o, y

(* What a client waits for once it has taken the oldest notice: the search   *)
(* that the notice began, or the one it was in, unless that is over.         *)
Goes(q, u, again, next) ==
  \A v \in Uids : next = v =>
    \/ q[1] = Notice("started", v)
    \/ /\ u = v /\ q[1].type # "started" /\ q[1] # Notice("canceled", v)
       /\ again \/ q[1] # Notice("succeeded", v)

LEMMA TakenBefore ==
  ASSUME NEW q \in Seq(Messages), q # <<>>, NEW u, NEW next, NEW again, NEW then,
         Goes(q, u, again, next),
         NEW v \in Uids, NEW j \in 0 .. Len(Tail(q)), NEW i \in j + 1 .. Len(Tail(q)) + 1,
         Waits(Tail(q), next, j, v), Quiet(Tail(q), j, i)
  PROVE  \E l \in 0 .. Len(q) :
           /\ l =< j + 1 /\ Waits(q, u, l, v) /\ Quiet(q, l, i + 1)
           /\ Over(q, again, l, i + 1, v) => Over(Tail(q), then, j, i, v)
<1> DEFINE t == Tail(q)
<1>1. Len(t) \in Nat /\ Len(q) = Len(t) + 1 /\ (\A k \in 1 .. Len(t) : t[k] = q[k + 1])
  BY OldestTaken
<1> HIDE DEF t
<1>2. \A k \in j + 1 .. i - 1 : k \in 1 .. Len(t) /\ t[k] = q[k + 1]
  BY <1>1 DEF t
<1>3. \A k \in j + 2 .. i : k - 1 \in j + 1 .. i - 1 /\ t[k - 1] = q[k]
  <2>1. ASSUME NEW k \in j + 2 .. i PROVE k - 1 \in j + 1 .. i - 1 /\ (k - 1) + 1 = k
    BY <1>1 DEF t
  <2> QED
    BY <1>2, <2>1
<1>4. Quiet(q, j + 1, i + 1)
  <2>1. ASSUME NEW k \in (j + 1) + 1 .. (i + 1) - 1 PROVE q[k].type # "started"
    <3>1. k \in j + 2 .. i
      BY <1>1 DEF t
    <3> QED
      BY <1>3, <3>1 DEF Quiet, t
  <2> QED
    BY <2>1 DEF Quiet
<1>5. ASSUME NEW k \in j + 2 .. i, q[k] = Notice("canceled", v)
      PROVE  Over(t, then, j, i, v)
  BY <1>3, <1>5 DEF Over
<1>6. ASSUME Over(q, again, j + 1, i + 1, v) PROVE Over(t, then, j, i, v)
  <2>1. PICK k \in (j + 1) + 1 .. (i + 1) - 1 : q[k] = Notice("canceled", v) \/ k = 1
    BY <1>6 DEF Over
  <2>2. k \in j + 2 .. i /\ k # 1
    BY <1>1 DEF t
  <2> QED
    BY <1>5, <2>1, <2>2
<1>7. CASE j # 0
  <2>1. j + 1 \in 0 .. Len(q) /\ j \in 1 .. Len(t)
    BY <1>1, <1>7 DEF t
  <2>2. Waits(q, u, j + 1, v)
    BY <1>1, <1>7, <2>1 DEF Waits, t
  <2> QED
    BY <1>4, <1>6, <2>1, <2>2 DEF t
<1>8. CASE j = 0
  <2>1. next = v
    BY <1>8 DEF Waits
  <2>2. CASE q[1] = Notice("started", v)
    <3>1. Waits(q, u, j + 1, v) /\ j + 1 \in 0 .. Len(q)
      BY <1>1, <1>8, <2>2 DEF Waits
    <3> QED
      BY <1>4, <1>6, <3>1 DEF t
  <2>3. CASE /\ u = v /\ q[1].type # "started" /\ q[1] # Notice("canceled", v)
             /\ again \/ q[1] # Notice("succeeded", v)
    <3>1. Waits(q, u, 0, v) /\ 0 \in 0 .. Len(q) /\ 0 =< j + 1
      BY <1>1, <1>8, <2>3 DEF Waits
    <3>2. \A k \in 0 + 1 .. (i + 1) - 1 : k = 1 \/ k \in j + 2 .. i
      BY <1>1, <1>8 DEF t
    <3>3. Quiet(q, 0, i + 1)
      <4>1. \A k \in j + 2 .. i : k \in (j + 1) + 1 .. (i + 1) - 1
        BY <1>1 DEF t
      <4> QED
        BY <1>4, <2>3, <3>2, <4>1 DEF Quiet
    <3>4. ASSUME Over(q, again, 0, i + 1, v) PROVE Over(t, then, j, i, v)
      <4>1. PICK k \in 0 + 1 .. (i + 1) - 1 :
              q[k] = Notice("canceled", v) \/ (k = 1 /\ ~again /\ q[k] = Notice("succeeded", v))
        BY <3>4 DEF Over
      <4>2. k # 1
        BY <2>3, <4>1
      <4> QED
        BY <1>5, <3>2, <4>1, <4>2
    <3> QED
      BY <3>1, <3>3, <3>4 DEF t
  <2> QED
    BY <2>1, <2>2, <2>3 DEF Goes
<1> QED
  BY <1>7, <1>8

LEMMA TakenInOrder ==
  ASSUME NEW q \in Seq(Messages), q # <<>>, NEW u, NEW next, NEW again, NEW then, NEW mine,
         Goes(q, u, again, next), then => Tail(q) # <<>> /\ Head(Tail(q)).type = "succeeded",
         Paired(q, again), Ordered(q, u, again), Tracked(q, u, again, mine)
  PROVE  /\ Paired(Tail(q), then) /\ Ordered(Tail(q), next, then)
         /\ Tracked(Tail(q), next, then, mine)
<1> DEFINE t == Tail(q)
<1>1. /\ Len(t) \in Nat /\ Len(q) = Len(t) + 1 /\ (\A k \in 1 .. Len(t) : t[k] = q[k + 1])
      /\ DOMAIN q = 1 .. Len(t) + 1 /\ DOMAIN t = 1 .. Len(t)
  BY OldestTaken
<1>2. \A v \in Uids, j \in 0 .. Len(t) : \A i \in j + 1 .. Len(t) + 1 :
        Waits(t, next, j, v) /\ Quiet(t, j, i) =>
          \E l \in 0 .. Len(q) :
            /\ l =< j + 1 /\ Waits(q, u, l, v) /\ Quiet(q, l, i + 1)
            /\ Over(q, again, l, i + 1, v) => Over(t, then, j, i, v)
  BY TakenBefore
<1>3. then => t # <<>> /\ Head(t).type = "succeeded"
  OBVIOUS
<1> HIDE DEF t
<1>4. Paired(t, then)
  <2>1. ASSUME NEW i \in DOMAIN t, t[i].type = "offer"
        PROVE  i + 1 \in DOMAIN t /\ t[i + 1] = Notice("succeeded", t[i].uid)
    <3>1. i + 1 \in DOMAIN q /\ t[i] = q[i + 1]
      BY <1>1
    <3>2. (i + 1) + 1 \in DOMAIN q /\ q[(i + 1) + 1] = Notice("succeeded", q[i + 1].uid)
      BY <2>1, <3>1 DEF Paired
    <3>3. i + 1 \in DOMAIN t
      BY <1>1, <3>2
    <3> QED
      BY <1>1, <3>1, <3>2, <3>3
  <2> QED
    BY <1>3, <2>1 DEF Paired
<1>5. Ordered(t, next, then)
  <2> SUFFICES ASSUME NEW j \in 0 .. Len(t), NEW v \in Uids, NEW i \in j + 1 .. Len(t),
                      Waits(t, next, j, v), Quiet(t, j, i)
               PROVE  /\ t[i].type = "offer" => t[i].uid = v
                      /\ t[i].type = "started" => Over(t, then, j, i, v)
    BY DEF Ordered
  <2>1. i \in j + 1 .. Len(t) + 1 /\ t[i] = q[i + 1]
    BY <1>1
  <2>2. PICK l \in 0 .. Len(q) :
          /\ l =< j + 1 /\ Waits(q, u, l, v) /\ Quiet(q, l, i + 1)
          /\ Over(q, again, l, i + 1, v) => Over(t, then, j, i, v)
    BY <1>2, <2>1
  <2>3. i + 1 \in l + 1 .. Len(q)
    BY <1>1, <2>2
  <2> QED
    BY <2>1, <2>2, <2>3 DEF Ordered
<1>6. Tracked(t, next, then, mine)
  <2>1. \A v, w \in mine : v = w
    BY DEF Tracked
  <2>2. ASSUME NEW j \in 0 .. Len(t), NEW v \in Uids, Waits(t, next, j, v), Quiet(t, j, Len(t) + 1)
        PROVE  v \in mine \/ (mine = {} /\ Over(t, then, j, Len(t) + 1, v))
    <3>1. Len(t) + 1 \in j + 1 .. Len(t) + 1
      BY <1>1
    <3>2. PICK l \in 0 .. Len(q) :
            /\ Waits(q, u, l, v) /\ Quiet(q, l, (Len(t) + 1) + 1)
            /\ Over(q, again, l, (Len(t) + 1) + 1, v) => Over(t, then, j, Len(t) + 1, v)
      BY <1>2, <2>2, <3>1
    <3> QED
      BY <1>1, <3>2 DEF Tracked
  <2> QED
    BY <2>1, <2>2 DEF Tracked
<1> QED
  BY <1>4, <1>5, <1>6 DEF t

(* A place where nothing begins until the end is there when one was taken.   *)
LEMMA QuietTaken ==
  ASSUME NEW q \in Seq(Messages), q # <<>>, NEW i \in 1 .. Len(q), Quiet(q, i, Len(q) + 1)
  PROVE  /\ i # 1 => i - 1 \in DOMAIN Tail(q) /\ Tail(q)[i - 1] = q[i]
                     /\ Quiet(Tail(q), i - 1, Len(Tail(q)) + 1)
         /\ i = 1 => \A k \in DOMAIN Tail(q) : Tail(q)[k].type # "started"
<1> DEFINE t == Tail(q)
<1>1. /\ Len(t) \in Nat /\ Len(q) = Len(t) + 1 /\ (\A k \in 1 .. Len(t) : t[k] = q[k + 1])
      /\ DOMAIN t = 1 .. Len(t)
  BY OldestTaken
<1> HIDE DEF t
<1>2. \A k \in 1 .. Len(t) : k >= i => t[k].type # "started"
  <2>1. ASSUME NEW k \in 1 .. Len(t), k >= i PROVE t[k].type # "started"
    <3>1. k + 1 \in i + 1 .. (Len(q) + 1) - 1
      BY <1>1, <2>1
    <3> QED
      BY <1>1, <3>1 DEF Quiet
  <2> QED
    BY <2>1
<1>3. ASSUME i # 1
      PROVE  i - 1 \in DOMAIN t /\ t[i - 1] = q[i] /\ Quiet(t, i - 1, Len(t) + 1)
  <2>1. i - 1 \in 1 .. Len(t) /\ (i - 1) + 1 = i
    BY <1>1, <1>3
  <2>2. \A k \in (i - 1) + 1 .. (Len(t) + 1) - 1 : k \in 1 .. Len(t) /\ k >= i
    BY <1>1, <2>1
  <2> QED
    BY <1>1, <1>2, <2>1, <2>2 DEF Quiet
<1>4. i = 1 => \A k \in DOMAIN t : t[k].type # "started"
  BY <1>1, <1>2
<1> QED
  BY <1>3, <1>4 DEF t

(* The client has taken its oldest notice, no offer. *)
LEMMA NoticeTaken ==
  ASSUME NEW q \in Seq(Messages), q # <<>>, NEW a, NEW u, NEW next, NEW again, NEW mine, NEW asked,
         NEW then, then => Tail(q) # <<>> /\ Head(Tail(q)).type = "succeeded",
         Followed(q, a, u, again, mine, asked), q[1].type # "offer",
         Goes(q, u, again, next),
         q[1].type # "started" => next \in {u, NULL},
         q[1] = Notice("succeeded", u) /\ ~again => next = NULL
  PROVE  Followed(Tail(q), a, next, then, mine, asked)
<1> DEFINE t == Tail(q)
<1>1. /\ Len(t) \in Nat /\ Len(q) = Len(t) + 1 /\ (\A k \in 1 .. Len(t) : t[k] = q[k + 1])
      /\ DOMAIN q = 1 .. Len(t) + 1 /\ DOMAIN t = 1 .. Len(t) /\ Head(q) = q[1]
  BY OldestTaken
<1>2. Paired(t, then) /\ Ordered(t, next, then) /\ Tracked(t, next, then, mine)
  BY TakenInOrder DEF Followed
<1>3. \A i \in DOMAIN q : Quiet(q, i, Len(q) + 1) /\ i # 1 =>
        i - 1 \in DOMAIN t /\ t[i - 1] = q[i] /\ Quiet(t, i - 1, Len(t) + 1)
  BY <1>1, QuietTaken
<1> HIDE DEF t
<1>4. Owed(t, a, next, then, asked)
  <2> SUFFICES ASSUME NEW v \in asked
               PROVE  \/ \E i \in DOMAIN t : Offers(t[i], v) /\ Quiet(t, i, Len(t) + 1)
                      \/ /\ \A i \in DOMAIN t : t[i].type # "started"
                         /\ (\E i \in DOMAIN a : Takes(a, i, v)) => next = NULL
    BY DEF Owed
  <2>1. CASE \E i \in DOMAIN q : Offers(q[i], v) /\ Quiet(q, i, Len(q) + 1)
    <3>1. PICK i \in DOMAIN q : Offers(q[i], v) /\ Quiet(q, i, Len(q) + 1)
      BY <2>1
    <3>2. i # 1
      BY <3>1 DEF Offers
    <3> QED
      BY <1>3, <3>1, <3>2
  <2>2. CASE /\ \A i \in DOMAIN q : q[i].type # "started"
             /\ (\E i \in DOMAIN a : Takes(a, i, v)) =>
                   u = NULL \/ (q # <<>> /\ Head(q) = Notice("succeeded", u) /\ ~again)
    <3>1. \A i \in DOMAIN t : t[i].type # "started"
      BY <1>1, <2>2
    <3>2. q[1].type # "started"
      BY <1>1, <2>2
    <3> QED
      BY <1>1, <2>2, <3>1, <3>2
  <2> QED
    BY <2>1, <2>2 DEF Followed, Owed
<1> QED
  BY <1>2, <1>4 DEF Followed, t

(* The client has taken an offer, and answered: that it takes the match only *)
(* if it waits or the offer is bare, and never while it goes on after the    *)
(* success.                                                                  *)
LEMMA OfferTaken ==
  ASSUME NEW q \in Seq(Messages), q # <<>>, NEW a \in Seq(Messages), NEW u \in Uids \cup {NULL},
         NEW again, NEW then, NEW mine, NEW asked, NEW result \in BOOLEAN,
         Followed(q, a, u, again, mine, asked), q[1].type = "offer", q[1].uid \in Uids,
         result => ~then
  PROVE  /\ Followed(Tail(q), Append(a, OfferResponse(q[1].uid, result)), u, then, mine, asked)
         /\ u = q[1].uid \/ u = NULL
<1> DEFINE t == Tail(q)
           w == q[1].uid
           m == OfferResponse(w, result)
           b == Append(a, m)
<1>1. /\ Len(t) \in Nat /\ Len(q) = Len(t) + 1 /\ (\A k \in 1 .. Len(t) : t[k] = q[k + 1])
      /\ DOMAIN q = 1 .. Len(t) + 1 /\ DOMAIN t = 1 .. Len(t) /\ Head(q) = q[1]
      /\ (t # <<>> => Head(t) = t[1]) /\ (1 \in DOMAIN t => t # <<>>)
  BY OldestTaken
<1>2. m \in Messages /\ m.type = "offer_response" /\ m.uid = w
      /\ \A v : m = OfferResponse(v, TRUE) => v = w /\ result
  BY MessagesMade DEF OfferResponse
<1> HIDE DEF m
<1>3. /\ Len(a) \in Nat /\ DOMAIN a = 1 .. Len(a) /\ DOMAIN b = 1 .. Len(a) + 1
      /\ (\A i \in 1 .. Len(a) : b[i] = a[i]) /\ b[Len(a) + 1] = m
  BY <1>2, Added
<1>4. Paired(q, again) /\ Ordered(q, u, again) /\ Tracked(q, u, again, mine)
      /\ Owed(q, a, u, again, asked)
  BY DEF Followed
<1>5. 1 \in DOMAIN t /\ t # <<>> /\ t[1] = Notice("succeeded", w) /\ Head(t) = t[1]
  <2>1. 1 + 1 \in DOMAIN q /\ q[1 + 1] = Notice("succeeded", w)
    BY <1>1, <1>4 DEF Paired
  <2>2. 1 \in 1 .. Len(t)
    BY <1>1, <2>1
  <2> HIDE DEF t
  <2> QED
    BY <1>1, <2>1, <2>2
<1>6. Paired(t, then) /\ Ordered(t, u, then) /\ Tracked(t, u, then, mine)
  <2>1. Goes(q, u, again, u)
    BY DEF Goes, Notice
  <2>2. Head(t).type = "succeeded"
    BY <1>5 DEF Notice
  <2> QED
    BY <1>4, <1>5, <2>1, <2>2, TakenInOrder
<1>7. u \in Uids => u = w
  <2>1. 0 \in 0 .. Len(q) /\ 1 \in 0 + 1 .. Len(q) /\ Waits(q, u, 0, u) /\ Quiet(q, 0, 1)
    BY <1>1 DEF Waits, Quiet
  <2> QED
    BY <1>4, <2>1 DEF Ordered
<1>8. \A i \in DOMAIN q : Quiet(q, i, Len(q) + 1) =>
        /\ i # 1 => i - 1 \in DOMAIN t /\ t[i - 1] = q[i] /\ Quiet(t, i - 1, Len(t) + 1)
        /\ i = 1 => \A k \in DOMAIN t : t[k].type # "started"
  BY <1>1, QuietTaken
<1> HIDE DEF t, b, w
<1>9. \A v : \A i \in DOMAIN b : Takes(b, i, v) =>
        \/ i \in DOMAIN a /\ v # w /\ Takes(a, i, v)
        \/ v = w /\ result
  <2> SUFFICES ASSUME NEW v, NEW i \in DOMAIN b, Takes(b, i, v)
               PROVE  (i \in DOMAIN a /\ v # w /\ Takes(a, i, v)) \/ (v = w /\ result)
    OBVIOUS
  <2>1. CASE i = Len(a) + 1
    BY <1>2, <1>3, <2>1 DEF Takes
  <2>2. CASE i \in 1 .. Len(a)
    <3>1. v # w
      <4>1. Len(a) + 1 \in DOMAIN b /\ Len(a) + 1 > i
        BY <1>3, <2>2
      <4> QED
        BY <1>2, <1>3, <4>1 DEF Takes
    <3>2. Takes(a, i, v)
      <4>1. a[i] = OfferResponse(v, TRUE)
        BY <1>3, <2>2 DEF Takes
      <4>2. \A k \in DOMAIN a : k \in DOMAIN b /\ b[k] = a[k]
        BY <1>3
      <4> QED
        BY <4>1, <4>2 DEF Takes
    <3> QED
      BY <1>3, <2>2, <3>1, <3>2
  <2> QED
    BY <1>3, <2>1, <2>2
<1>10. Owed(t, b, u, then, asked)
  <2> SUFFICES ASSUME NEW v \in asked
               PROVE  \/ \E i \in DOMAIN t : Offers(t[i], v) /\ Quiet(t, i, Len(t) + 1)
                      \/ /\ \A i \in DOMAIN t : t[i].type # "started"
                         /\ (\E i \in DOMAIN b : Takes(b, i, v)) =>
                              u = NULL \/ (t # <<>> /\ Head(t) = Notice("succeeded", u) /\ ~then)
    BY DEF Owed
  <2>1. result => u = NULL \/ (t # <<>> /\ Head(t) = Notice("succeeded", u) /\ ~then)
    BY <1>5, <1>7
  <2>2. CASE \E i \in DOMAIN q : Offers(q[i], v) /\ Quiet(q, i, Len(q) + 1)
    <3>1. PICK i \in DOMAIN q : Offers(q[i], v) /\ Quiet(q, i, Len(q) + 1)
      BY <2>2
    <3>2. CASE i # 1
      BY <1>8, <3>1, <3>2
    <3>3. CASE i = 1
      <4>1. v = w
        BY <3>1, <3>3 DEF Offers, w
      <4> QED
        BY <1>8, <1>9, <2>1, <3>1, <3>3, <4>1
    <3> QED
      BY <3>2, <3>3
  <2>3. CASE /\ \A i \in DOMAIN q : q[i].type # "started"
             /\ (\E i \in DOMAIN a : Takes(a, i, v)) =>
                   u = NULL \/ (q # <<>> /\ Head(q) = Notice("succeeded", u) /\ ~again)
    <3>1. \A i \in DOMAIN t : t[i].type # "started"
      <4> SUFFICES ASSUME NEW i \in DOMAIN t PROVE t[i].type # "started"
        OBVIOUS
      <4>1. i + 1 \in DOMAIN q /\ t[i] = q[i + 1]
        BY <1>1
      <4> QED
        BY <2>3, <4>1
    <3>2. Head(q) # Notice("succeeded", u)
      BY <1>1 DEF Notice
    <3> QED
      BY <1>9, <2>1, <2>3, <3>1, <3>2
  <2> QED
    BY <1>4, <2>2, <2>3 DEF Owed
<1> QED
  BY <1>6, <1>7, <1>10 DEF Followed, t, b, w, m

(* The answers the service has yet to hear, when one is heard or another     *)
(* message is sent to it.                                                    *)
LEMMA AnswerHeard ==
  ASSUME NEW q, NEW a \in Seq(Messages), a # <<>>, NEW u, NEW again, NEW mine, NEW asked,
         Followed(q, a, u, again, mine, asked), NEW still \in SUBSET asked
  PROVE  Followed(q, Tail(a), u, again, mine, still)
<1> DEFINE b == Tail(a)
<1>1. /\ Len(b) \in Nat /\ (\A k \in 1 .. Len(b) : b[k] = a[k + 1])
      /\ DOMAIN a = 1 .. Len(b) + 1 /\ DOMAIN b = 1 .. Len(b)
  BY OldestTaken
<1> HIDE DEF b
<1>2. ASSUME NEW v, NEW i \in DOMAIN b, Takes(b, i, v)
      PROVE  i + 1 \in DOMAIN a /\ Takes(a, i + 1, v)
  <2>1. i + 1 \in DOMAIN a /\ a[i + 1] = OfferResponse(v, TRUE)
    <3>1. i \in 1 .. Len(b) /\ i + 1 \in 1 .. Len(b) + 1
      BY <1>1
    <3>2. b[i] = OfferResponse(v, TRUE)
      BY <1>2 DEF Takes
    <3> QED
      BY <1>1, <3>1, <3>2
  <2>2. \A k \in DOMAIN a : k > i + 1 => k - 1 \in DOMAIN b /\ k - 1 > i /\ b[k - 1] = a[k]
    <3>1. ASSUME NEW k \in DOMAIN a, k > i + 1
          PROVE  k - 1 \in 1 .. Len(b) /\ k - 1 > i /\ (k - 1) + 1 = k
      BY <1>1, <3>1
    <3> QED
      BY <1>1, <3>1
  <2> QED
    BY <1>2, <2>1, <2>2 DEF Takes
<1>3. Owed(q, b, u, again, still)
  BY <1>2 DEF Followed, Owed
<1> QED
  BY <1>3 DEF Followed, b

LEMMA OtherSent ==
  ASSUME NEW q, NEW a \in Seq(Messages), NEW u, NEW again, NEW mine, NEW asked,
         Followed(q, a, u, again, mine, asked),
         NEW m \in Messages, m.type # "offer_response"
  PROVE  Followed(q, Append(a, m), u, again, mine, asked)
<1> DEFINE b == Append(a, m)
<1>1. /\ Len(a) \in Nat /\ DOMAIN a = 1 .. Len(a) /\ DOMAIN b = 1 .. Len(a) + 1
      /\ (\A i \in 1 .. Len(a) : b[i] = a[i]) /\ b[Len(a) + 1] = m
  BY Added
<1> HIDE DEF b
<1>2. ASSUME NEW v, NEW i \in DOMAIN b, Takes(b, i, v)
      PROVE  i \in DOMAIN a /\ Takes(a, i, v)
  <2>1. i # Len(a) + 1
    BY <1>1, <1>2 DEF Takes, OfferResponse
  <2>2. i \in DOMAIN a /\ \A k \in DOMAIN a : k \in DOMAIN b /\ b[k] = a[k]
    BY <1>1, <2>1
  <2> QED
    BY <1>2, <2>2 DEF Takes
<1>3. Owed(q, b, u, again, asked)
  BY <1>2 DEF Followed, Owed
<1> QED
  BY <1>3 DEF Followed, b

(* The client forgets its search. *)
LEMMA SearchForgotten ==
  ASSUME NEW q, NEW a, NEW u, NEW again, NEW mine, NEW asked,
         Followed(q, a, u, again, mine, asked)
  PROVE  Followed(q, a, NULL, again, mine, asked)
<1>1. \A j : \A v \in Uids : Waits(q, NULL, j, v) => Waits(q, u, j, v)
  BY Constants DEF Waits
<1>2. Ordered(q, NULL, again)
  BY <1>1 DEF Followed, Ordered
<1>3. Tracked(q, NULL, again, mine)
  BY <1>1 DEF Followed, Tracked
<1>4. Owed(q, a, NULL, again, asked)
  BY DEF Followed, Owed
<1> QED
  BY <1>2, <1>3, <1>4 DEF Followed

(* The service takes the client, which took the match of w, out of w. *)
LEMMA MatchTaken ==
  ASSUME NEW q \in Seq(Messages), NEW a, NEW u, NEW again, NEW mine \in SUBSET Uids,
         NEW asked \in SUBSET mine, NEW w \in asked, NEW i \in DOMAIN a,
         Followed(q, a, u, again, mine, asked), Takes(a, i, w),
         \A k \in DOMAIN q : ~ Offers(q[k], w)
  PROVE  Followed(q, a, u, again, mine \ {w}, asked \ {w})
<1>1. /\ \A k \in DOMAIN q : q[k].type # "started"
      /\ u = NULL \/ (q # <<>> /\ Head(q) = Notice("succeeded", u) /\ ~again)
  BY DEF Followed, Owed
<1>2. \A v \in mine : v = w
  BY DEF Followed, Tracked
<1>3. Len(q) \in Nat /\ DOMAIN q = 1 .. Len(q)
      /\ (q # <<>> => 1 \in 0 + 1 .. (Len(q) + 1) - 1 /\ Head(q) = q[1])
  OBVIOUS
<1>4. \A v \in Uids : Waits(q, u, 0, v) => Over(q, again, 0, Len(q) + 1, v)
  BY <1>1, <1>3, Constants DEF Waits, Over
<1>5. \A j \in 0 .. Len(q) : \A v : Waits(q, u, j, v) => j = 0
  BY <1>1, <1>3 DEF Waits, Notice
<1>6. Tracked(q, u, again, mine \ {w})
  BY <1>2, <1>4, <1>5 DEF Tracked
<1>7. Owed(q, a, u, again, asked \ {w})
  BY DEF Followed, Owed
<1> QED
  BY <1>6, <1>7 DEF Followed
-----------------------------------------------------------------------------
(* Each step keeps what a client waits for, and a client that takes a match  *)
(* in it takes one of the search it waits for.                               *)
Follows(p) ==
  Followed(net[Service][p], net[p][Service], uid[p], tryAgain[p], InSearch(p), Asked(p))

Keeps(p) == Follows(p)' /\ OwnMatch(p)

LEMMA Now ==
  ASSUME Inv, SearchInv, NEW p \in Players
  PROVE  /\ net \in Net /\ p \in Parties /\ Service \in Parties /\ p # Service
         /\ net[Service][p] \in Seq(Messages) /\ net[p][Service] \in Seq(Messages)
         /\ uid[p] \in Uids \cup {NULL} /\ tryAgain[p] \in BOOLEAN
         /\ InSearch(p) \in SUBSET Uids /\ Asked(p) \in SUBSET InSearch(p)
         /\ Follows(p)
<1>1. net \in Net /\ p \in Parties /\ Service \in Parties /\ p # Service
  BY Constants DEF Inv, TypeOK
<1>2. net[Service][p] \in Seq(Messages) /\ net[p][Service] \in Seq(Messages)
  BY <1>1 DEF Net
<1>3. uid[p] \in Uids \cup {NULL} /\ tryAgain[p] \in BOOLEAN
  BY DEF Inv, TypeOK, SessionOK
<1>4. InSearch(p) \in SUBSET Uids /\ Asked(p) \in SUBSET InSearch(p)
  BY DEF Inv, TypeOK, ServiceOK, InSearch, Asked
<1>5. Follows(p)
  BY DEF SearchInv, Follows
<1> QED
  BY <1>1, <1>2, <1>3, <1>4, <1>5

LEMMA QueueSent ==
  ASSUME NEW queues \in Net, NEW s \in Parties, NEW rs, NEW m
  PROVE  \A x, y \in Parties :
           SentTo(queues, s, rs, m)[x][y] =
             IF x = s /\ y \in rs THEN Append(queues[x][y], m) ELSE queues[x][y]
BY DEF SentTo, Net

LEMMA QueueSentTo ==
  ASSUME NEW queues \in Net, NEW s \in Parties, NEW rs, NEW m, NEW y \in Parties, y \in rs
  PROVE  SentTo(queues, s, rs, m)[s][y] = Append(queues[s][y], m)
BY DEF SentTo, Net

LEMMA QueueApart ==
  ASSUME NEW queues \in Net, NEW s \in Parties, NEW rs, NEW m,
         NEW x \in Parties, NEW y \in Parties, x # s \/ y \notin rs
  PROVE  SentTo(queues, s, rs, m)[x][y] = queues[x][y]
BY DEF SentTo, Net

LEMMA QueueTaken ==
  ASSUME NEW s \in Parties, NEW r \in Parties, NEW type, net \in Net, Receives(s, r, type)
  PROVE  /\ Taken(s, r) \in Net
         /\ \A x, y \in Parties :
              Taken(s, r)[x][y] = IF x = s /\ y = r THEN Tail(net[s][r]) ELSE net[x][y]
<1>1. Taken(s, r) \in Net
  BY TakenCarries DEF Receives
<1> QED
  BY <1>1 DEF Taken, Net

(* What the service says adds to the queue of a client, or leaves it. *)
LEMMA SentByService ==
  ASSUME NEW queues \in Net, NEW rs, NEW m, NEW x \in Parties, Service \in Parties, x # Service
  PROVE  /\ SentTo(queues, Service, rs, m)[x][Service] = queues[x][Service]
         /\ \/ SentTo(queues, Service, rs, m)[Service][x] = queues[Service][x]
            \/ SentTo(queues, Service, rs, m)[Service][x] = Append(queues[Service][x], m)
<1>1. SentTo(queues, Service, rs, m)[x][Service] = queues[x][Service]
  BY QueueApart
<1>2. x \in rs => SentTo(queues, Service, rs, m)[Service][x] = Append(queues[Service][x], m)
  BY QueueSentTo
<1>3. x \notin rs => SentTo(queues, Service, rs, m)[Service][x] = queues[Service][x]
  BY QueueApart
<1> QED
  BY <1>1, <1>2, <1>3

(* Nothing, a message heard, or one that is no answer is no match taken. *)
LEMMA NoAnswer ==
  ASSUME Inv, SearchInv, NEW p \in Players,
         \/ net'[p][Service] = net[p][Service]
         \/ net[p][Service] # <<>> /\ net'[p][Service] = Tail(net[p][Service])
         \/ \E m \in Messages : /\ m.type # "offer_response"
                                /\ net'[p][Service] = Append(net[p][Service], m)
  PROVE  OwnMatch(p)
<1> DEFINE a == net[p][Service]
<1>1. a \in Seq(Messages)
  BY Now
<1>2. CASE net'[p][Service] = a
  BY <1>1, <1>2 DEF OwnMatch
<1>3. CASE a # <<>> /\ net'[p][Service] = Tail(a)
  <2>1. ~ (Len(Tail(a)) > Len(a))
    <3> HIDE DEF a
    <3> QED
      BY <1>1, <1>3, OldestTaken
  <2> QED
    BY <1>3, <2>1 DEF OwnMatch
<1>4. CASE \E m \in Messages : m.type # "offer_response" /\ net'[p][Service] = Append(a, m)
  <2>1. PICK m \in Messages : m.type # "offer_response" /\ net'[p][Service] = Append(a, m)
    BY <1>4
  <2>2. Last(Append(a, m)) = m
    <3> HIDE DEF a
    <3> QED
      BY <1>1, <2>1, Added DEF Last
  <2> QED
    BY <2>1, <2>2 DEF OwnMatch
<1> QED
  BY <1>2, <1>3, <1>4

(* A client of which a step changes none of the queues to and from the service. *)
LEMMA Unheard ==
  ASSUME Inv, SearchInv, NEW p \in Players, UNCHANGED service,
         net'[Service][p] = net[Service][p], net'[p][Service] = net[p][Service],
         uid'[p] \in {uid[p], NULL}, tryAgain'[p] = tryAgain[p]
  PROVE  Keeps(p)
<1>1. Follows(p)
  BY Now
<1>2. Followed(net[Service][p], net[p][Service], uid'[p], tryAgain[p], InSearch(p), Asked(p))
  BY <1>1, SearchForgotten DEF Follows
<1>3. Follows(p)'
  BY <1>2 DEF Follows, InSearch, Asked, service
<1>4. OwnMatch(p)
  BY NoAnswer
<1> QED
  BY <1>3, <1>4 DEF Keeps

LEMMA OpenKeeps ==
  ASSUME Inv, SearchInv, NEW p \in Players, Opening(p) \/ Open(p), NEW x \in Players
  PROVE  Keeps(x)
<1>1. CASE Opening(p)
  BY <1>1, Unheard DEF Opening, session, groups
<1>2. CASE Open(p)
  BY <1>2, Unheard DEF Open
<1> QED
  BY <1>1, <1>2

LEMMA PreinviteKeeps ==
  ASSUME Inv, SearchInv, NEW p \in Players, NEW q \in Players \ {p}, Preinvite(p, q),
         NEW x \in Players
  PROVE  Keeps(x)
<1>1. net \in Net /\ p \in Parties /\ x \in Parties /\ Service \in Parties
      /\ q # Service /\ p # Service
  BY Now, Constants
<1>2. net'[Service][x] = net[Service][x] /\ net'[x][Service] = net[x][Service]
  BY <1>1, QueueSent DEF Preinvite
<1> QED
  BY <1>2, Unheard DEF Preinvite, Command

LEMMA StartKeeps ==
  ASSUME Inv, SearchInv, NEW p \in Players, Start(p), NEW x \in Players
  PROVE  Keeps(x)
<1> DEFINE m == Search(pre[p], Accepted(group[p]), 0)
<1>1. net \in Net /\ p \in Parties /\ x \in Parties /\ Service \in Parties /\ p # Service
  BY Now, Constants
<1>2. /\ net'[Service][x] = net[Service][x]
      /\ net'[x][Service] = IF x = p THEN Append(net[x][Service], m) ELSE net[x][Service]
  BY <1>1, QueueSent DEF Start
<1>3. UNCHANGED <<uid, tryAgain, searches, offered>>
  BY DEF Start, Command, service
<1>4. CASE x # p
  BY <1>2, <1>3, <1>4, Unheard DEF service
<1>5. CASE x = p
  <2>1. m \in Messages
    <3>1. pre[p] \in Uids /\ (group[p] # NULL => group[p] \in Seq(Members(p)))
      BY DEF Inv, TypeOK, SessionOK, Start
    <3>2. Accepted(group[p]) \in SUBSET Players
      BY <3>1, AcceptedAreOthers
    <3> QED
      BY <3>1, <3>2, MessagesMade
  <2>2. m.type # "offer_response"
    BY DEF Search
  <2> HIDE DEF m
  <2>3. Followed(net[Service][p], Append(net[p][Service], m), uid[p], tryAgain[p], InSearch(p), Asked(p))
    BY <2>1, <2>2, Now, OtherSent DEF Follows
  <2>4. Follows(p)'
    BY <1>2, <1>3, <1>5, <2>3 DEF Follows, InSearch, Asked
  <2>5. OwnMatch(p)
    BY <1>2, <1>5, <2>1, <2>2, NoAnswer
  <2> QED
    BY <1>5, <2>4, <2>5 DEF Keeps
<1> QED
  BY <1>4, <1>5

LEMMA CancelCommandKeeps ==
  ASSUME Inv, SearchInv, NEW p \in Players, CancelCommand(p), NEW x \in Players
  PROVE  Keeps(x)
<1> DEFINE told == IF pre[p] = NULL THEN net ELSE SentTo(net, p, Whom(group[p]), Cancel(pre[p]))
           m == SearchCancel
<1>1. net \in Net /\ p \in Parties /\ x \in Parties /\ Service \in Parties /\ p # Service
  BY Now, Constants
<1>2. Service \notin Whom(group[p])
  <2>1. group[p] # NULL => group[p] \in Seq(Members(p))
    BY DEF Inv, TypeOK, SessionOK
  <2>2. group[p] # NULL => \A i \in DOMAIN group[p] : group[p][i] \in Members(p)
    BY <2>1
  <2> QED
    BY <2>2, Constants DEF Whom, Members
<1>3. told \in Net /\ told[Service][x] = net[Service][x] /\ told[x][Service] = net[x][Service]
  <2>1. CASE pre[p] = NULL
    BY <1>1, <2>1
  <2>2. CASE pre[p] # NULL
    <3>1. Cancel(pre[p]) \in Messages
      BY <2>2, MessagesMade DEF Inv, TypeOK, SessionOK
    <3> QED
      BY <1>1, <1>2, <2>2, <3>1, QueueSent, SentToCarries
  <2> QED
    BY <2>1, <2>2
<1>4. net' = IF uid[p] = NULL THEN told ELSE SentTo(told, p, {Service}, m)
  BY DEF CancelCommand
<1>5. /\ uid'[x] = (IF x = p THEN NULL ELSE uid[x])
      /\ UNCHANGED <<tryAgain, searches, offered>>
  BY DEF Inv, TypeOK, SessionOK, CancelCommand, Forgotten, Command, service
<1>6. m \in Messages /\ m.type # "offer_response"
  <2>1. 1 \in Uids
    BY QuickplayAssumption DEF Uids
  <2> QED
    BY <2>1, MessagesMade DEF SearchCancel
<1> HIDE DEF told, m
<1>7. CASE uid[p] = NULL \/ x # p
  <2>1. net'[Service][x] = net[Service][x] /\ net'[x][Service] = net[x][Service]
    BY <1>1, <1>3, <1>4, <1>7, QueueSent
  <2> QED
    BY <1>5, <2>1, Unheard DEF service
<1>8. CASE uid[p] # NULL /\ x = p
  <2>1. net'[Service][p] = net[Service][p] /\ net'[p][Service] = Append(net[p][Service], m)
    <3>1. net' = SentTo(told, p, {Service}, m)
      BY <1>4, <1>8
    <3>2. SentTo(told, p, {Service}, m)[p][Service] = Append(told[p][Service], m)
      BY <1>1, <1>3, QueueSentTo
    <3>3. SentTo(told, p, {Service}, m)[Service][p] = told[Service][p]
      BY <1>1, <1>3, QueueApart
    <3> QED
      BY <1>3, <1>8, <3>1, <3>2, <3>3
  <2>2. Followed(net[Service][p], Append(net[p][Service], m), uid[p], tryAgain[p], InSearch(p), Asked(p))
    BY <1>6, Now, OtherSent DEF Follows
  <2>3. Followed(net[Service][p], Append(net[p][Service], m), NULL, tryAgain[p], InSearch(p), Asked(p))
    BY <2>2, SearchForgotten
  <2>4. Follows(p)'
    BY <1>5, <1>8, <2>1, <2>3 DEF Follows, InSearch, Asked
  <2>5. OwnMatch(p)
    BY <1>6, <2>1, NoAnswer
  <2> QED
    BY <1>8, <2>4, <2>5 DEF Keeps
<1> QED
  BY <1>7, <1>8

LEMMA RoomChangedKeeps ==
  ASSUME Inv, SearchInv, NEW p \in Players, RoomChanged(p), NEW x \in Players
  PROVE  Keeps(x)
<1>1. /\ uid'[x] \in {uid[x], NULL} /\ net' = net /\ UNCHANGED service /\ tryAgain' = tryAgain
  BY DEF Inv, TypeOK, SessionOK, RoomChanged, Forgotten, Command
<1> QED
  BY <1>1, Unheard

LEMMA PeerKeeps ==
  ASSUME Inv, SearchInv, NEW p \in Players, NEW s \in Players \ {p},
         Preinvited(p, s) \/ Postponed(p, s) \/ Responded(p, s) \/ PreinviteCanceled(p, s),
         NEW x \in Players
  PROVE  Keeps(x)
<1>1. net \in Net /\ p \in Parties /\ s \in Parties /\ x \in Parties /\ Service \in Parties
      /\ p # Service /\ s # Service
  BY Now, Constants
<1>2. UNCHANGED <<uid, tryAgain, service>>
  BY DEF Preinvited, Postponed, Responded, PreinviteCanceled, Handler, session, groups
<1>3. PICK type : Receives(s, p, type)
  BY DEF Preinvited, Postponed, Responded, PreinviteCanceled
<1>4. /\ Taken(s, p) \in Net
      /\ Taken(s, p)[Service][x] = net[Service][x] /\ Taken(s, p)[x][Service] = net[x][Service]
  BY <1>1, <1>3, QueueTaken
<1>5. net' = Taken(s, p) \/ \E m : net' = SentTo(Taken(s, p), p, {s}, m)
  BY DEF Preinvited, Postponed, Responded, PreinviteCanceled
<1>6. net'[Service][x] = net[Service][x] /\ net'[x][Service] = net[x][Service]
  BY <1>1, <1>4, <1>5, QueueSent
<1> QED
  BY <1>2, <1>6, Unheard

(* A client hears the oldest notice. *)
LEMMA Hears ==
  ASSUME Inv, SearchInv, NEW p \in Players,
         NEW type \in {"started", "offer", "succeeded", "canceled", "joined", "expired", "missions"},
         Receives(Service, p, type)
  PROVE  LET q == net[Service][p]
         IN  /\ q \in Seq(Messages) /\ q # <<>> /\ q[1] = Head(q)
             /\ q[1].type = type /\ q[1].uid \in Uids
             /\ type # "offer" => q[1] = Notice(type, q[1].uid)
             /\ Taken(Service, p) \in Net /\ Taken(Service, p)[Service][p] = Tail(q)
             /\ Taken(Service, p)[p][Service] = net[p][Service]
             /\ type # "succeeded" => ~tryAgain[p]
             /\ \A x \in Players : x # p =>
                  /\ Taken(Service, p)[Service][x] = net[Service][x]
                  /\ Taken(Service, p)[x][Service] = net[x][Service]
<1> DEFINE q == net[Service][p]
<1>1. /\ net \in Net /\ p \in Parties /\ Service \in Parties /\ p # Service
      /\ q \in Seq(Messages) /\ Follows(p) /\ \A x \in Players : x \in Parties
  BY Now, Constants
<1>2. q # <<>> /\ Head(q).type = type
  BY DEF Receives
<1>3. q[1] = Head(q) /\ q[1] \in Messages
  BY <1>1, <1>2
<1>4. q[1].uid \in Uids /\ (type # "offer" => q[1] = Notice(type, q[1].uid))
  BY <1>2, <1>3 DEF Messages, Notice
<1>5. \A x, y \in Parties :
        Taken(Service, p)[x][y] = IF x = Service /\ y = p THEN Tail(q) ELSE net[x][y]
  BY <1>1, QueueTaken
<1>6. Taken(Service, p) \in Net
  BY <1>1, QueueTaken
<1>7. type # "succeeded" => ~tryAgain[p]
  BY <1>1, <1>2 DEF Follows, Followed, Paired
<1> QED
  BY <1>1, <1>2, <1>3, <1>4, <1>5, <1>6, <1>7

LEMMA StartedKeeps ==
  ASSUME Inv, SearchInv, NEW p \in Players, Started(p), NEW x \in Players
  PROVE  Keeps(x)
<1> DEFINE q == net[Service][p]
           a == net[p][Service]
           u == q[1].uid
<1>1. /\ q \in Seq(Messages) /\ q # <<>> /\ q[1] = Head(q) /\ q[1].type = "started"
      /\ u \in Uids /\ q[1] = Notice("started", u) /\ Taken(Service, p)[Service][p] = Tail(q)
      /\ Taken(Service, p)[p][Service] = a /\ ~tryAgain[p]
      /\ \A y \in Players : y # p => /\ Taken(Service, p)[Service][y] = net[Service][y]
                                     /\ Taken(Service, p)[y][Service] = net[y][Service]
  BY Hears DEF Started, Told
<1>2. net' = Taken(Service, p) /\ UNCHANGED <<searches, offered>>
  BY DEF Started, Told, Handler, service
<1>3. /\ \A y \in Players : y # p => uid'[y] = uid[y] /\ tryAgain'[y] = tryAgain[y]
      /\ uid'[p] \in {u, uid[p]} /\ tryAgain'[p] = FALSE
  BY <1>1 DEF Started, Inv, TypeOK, SessionOK
<1>4. CASE x # p
  BY <1>1, <1>2, <1>3, <1>4, Unheard DEF service
<1>5. CASE x = p
  <2>1. Follows(p) /\ a \in Seq(Messages) /\ uid[p] \in Uids \cup {NULL}
    BY Now
  <2>2. uid[p] = NULL
    <3>1. ASSUME uid[p] \in Uids PROVE FALSE
      <4>1. Len(q) \in Nat /\ 1 \in 0 + 1 .. Len(q) /\ 0 \in 0 .. Len(q)
        BY <1>1
      <4>2. Waits(q, uid[p], 0, uid[p]) /\ Quiet(q, 0, 1) /\ ~ Over(q, tryAgain[p], 0, 1, uid[p])
        BY DEF Waits, Quiet, Over
      <4> QED
        BY <1>1, <2>1, <3>1, <4>1, <4>2 DEF Follows, Followed, Ordered
    <3> QED
      BY <2>1, <3>1
  <2>3. Goes(q, uid[p], tryAgain[p], uid'[p])
    BY <1>1, <1>3, <2>2, Constants DEF Goes
  <2>4. q[1] # Notice("succeeded", uid[p]) /\ q[1].type # "offer"
    BY <1>1 DEF Notice
  <2>5. Followed(Tail(q), a, uid'[p], FALSE, InSearch(p), Asked(p))
    <3> HIDE DEF q, a
    <3> QED
      BY <1>1, <2>1, <2>3, <2>4, NoticeTaken DEF Follows, q, a
  <2>6. Follows(p)'
    BY <1>1, <1>2, <1>3, <2>5 DEF Follows, InSearch, Asked
  <2>7. OwnMatch(p)
    BY <1>1, <1>2, NoAnswer
  <2> QED
    BY <1>5, <2>6, <2>7 DEF Keeps
<1> QED
  BY <1>4, <1>5

LEMMA OfferKeeps ==
  ASSUME Inv, SearchInv, NEW p \in Players, Offer(p), NEW x \in Players
  PROVE  Keeps(x)
<1> DEFINE q == net[Service][p]
           a == net[p][Service]
           u == q[1].uid
<1>1. /\ q \in Seq(Messages) /\ q # <<>> /\ q[1] = Head(q) /\ q[1].type = "offer"
      /\ u \in Uids /\ Taken(Service, p) \in Net /\ Taken(Service, p)[Service][p] = Tail(q)
      /\ Taken(Service, p)[p][Service] = a /\ ~tryAgain[p]
      /\ \A y \in Players : y # p => /\ Taken(Service, p)[Service][y] = net[Service][y]
                                     /\ Taken(Service, p)[y][Service] = net[y][Service]
  BY Hears DEF Offer, Told
<1>2. PICK result \in BOOLEAN :
        /\ net' = SentTo(Taken(Service, p), p, {Service}, OfferResponse(u, result))
        /\ result => (uid[p] # NULL \/ q[1].bare) /\ ~tryAgain'[p]
        /\ \A y \in Players : y # p => tryAgain'[y] = tryAgain[y]
  <2> DEFINE bare == q[1].bare
  <2>1. u = Head(net[Service][p]).uid /\ bare = Head(net[Service][p]).bare
    BY <1>1
  <2>2. CASE /\ net' = SentTo(Taken(Service, p), p, {Service}, OfferResponse(u, uid[p] # NULL \/ bare))
             /\ tryAgain' = tryAgain
    <3>1. (uid[p] # NULL \/ bare) \in BOOLEAN
      OBVIOUS
    <3> HIDE DEF u
    <3> QED
      BY <1>1, <2>2, <3>1
  <2>3. CASE /\ net' = SentTo(Taken(Service, p), p, {Service}, OfferResponse(u, FALSE))
             /\ tryAgain' = [tryAgain EXCEPT ![p] = TRUE]
    <3>1. \A y \in Players : y # p => tryAgain'[y] = tryAgain[y]
      BY <2>3 DEF Inv, TypeOK, SessionOK
    <3> HIDE DEF u
    <3> QED
      BY <2>3, <3>1
  <2> QED
    BY <2>1, <2>2, <2>3 DEF Offer
<1>3. UNCHANGED <<uid, searches, offered>>
  BY DEF Offer, Told, Handler, service, groups
<1>4. net \in Net /\ p \in Parties /\ x \in Parties /\ Service \in Parties /\ p # Service
  BY Now, Constants
<1>5. CASE x # p
  <2>1. net'[Service][x] = net[Service][x] /\ net'[x][Service] = net[x][Service]
    BY <1>1, <1>2, <1>4, <1>5, QueueSent
  <2> QED
    BY <1>2, <1>3, <1>5, <2>1, Unheard DEF service
<1>6. CASE x = p
  <2> DEFINE m == OfferResponse(u, result)
  <2>1. Follows(p) /\ a \in Seq(Messages) /\ uid[p] \in Uids \cup {NULL}
    BY Now
  <2>2. /\ Followed(Tail(q), Append(a, m), uid[p], tryAgain'[p], InSearch(p), Asked(p))
        /\ uid[p] = u \/ uid[p] = NULL
    <3> DEFINE again == tryAgain[p]
               then == tryAgain'[p]
               mine == InSearch(p)
               asked == Asked(p)
               v == uid[p]
    <3>1. Followed(q, a, v, again, mine, asked) /\ a \in Seq(Messages) /\ v \in Uids \cup {NULL}
      BY <2>1 DEF Follows
    <3>2. /\ q \in Seq(Messages) /\ q # <<>> /\ q[1].type = "offer" /\ q[1].uid \in Uids
          /\ result \in BOOLEAN /\ (result => ~then) /\ u = q[1].uid
      BY <1>1, <1>2
    <3> HIDE DEF q, a, again, then, mine, asked, v, u
    <3>3. /\ Followed(Tail(q), Append(a, OfferResponse(q[1].uid, result)), v, then, mine, asked)
          /\ v = q[1].uid \/ v = NULL
      BY <3>1, <3>2, OfferTaken
    <3> QED
      BY <3>2, <3>3 DEF again, then, mine, asked, v
  <2>3. net'[Service][p] = Tail(q) /\ net'[p][Service] = Append(a, m)
    <3> DEFINE heard == Taken(Service, p)
               whom == {Service}
    <3>0. Service \in whom /\ p \notin whom
      BY <1>4
    <3>1. heard \in Net /\ heard[Service][p] = Tail(q) /\ heard[p][Service] = a
      BY <1>1
    <3>2. net' = SentTo(heard, p, whom, m)
      BY <1>2
    <3> HIDE DEF m, q, a, heard, whom
    <3>3. SentTo(heard, p, whom, m)[p][Service] = Append(heard[p][Service], m)
      BY <1>4, <3>0, <3>1, QueueSentTo
    <3>4. SentTo(heard, p, whom, m)[Service][p] = heard[Service][p]
      BY <1>4, <3>0, <3>1, QueueApart
    <3> QED
      BY <3>1, <3>2, <3>3, <3>4
  <2>4. Follows(p)'
    BY <1>3, <2>2, <2>3 DEF Follows, InSearch, Asked
  <2>5. OwnMatch(p)
    <3>1. m \in Messages /\ m.result = result /\ m.uid = u
      BY <1>1, MessagesMade DEF OfferResponse
    <3>2. Last(Append(a, m)) = m
      <4> HIDE DEF a, m
      <4> QED
        BY <2>1, <3>1, Added DEF Last
    <3> QED
      BY <1>1, <1>2, <2>2, <2>3, <3>1, <3>2 DEF OwnMatch
  <2> QED
    BY <1>6, <2>4, <2>5 DEF Keeps
<1> QED
  BY <1>5, <1>6

(* A notice that is no offer and begins no search, which ends the search at  *)
(* the latest when it is over; what is sent then is no answer.               *)
LEMMA HeardKeeps ==
  ASSUME Inv, SearchInv, NEW p \in Players,
         NEW type \in {"succeeded", "canceled", "joined", "expired", "missions"},
         Receives(Service, p, type), UNCHANGED service,
         \/ net' = Taken(Service, p)
         \/ \E m \in Messages : /\ m.type # "offer_response"
                                /\ net' = SentTo(Taken(Service, p), p, {Service}, m),
         UNCHANGED tryAgain \/ tryAgain' = [tryAgain EXCEPT ![p] = FALSE],
         type # "succeeded" => UNCHANGED tryAgain,
         type = "succeeded" => ~tryAgain'[p],
         Forgotten(p) \/ (/\ uid' = uid
                          /\ type = "canceled" => uid[p] # net[Service][p][1].uid
                          /\ type = "succeeded" => tryAgain[p] \/ uid[p] # net[Service][p][1].uid),
         NEW x \in Players
  PROVE  Keeps(x)
<1> DEFINE q == net[Service][p]
           a == net[p][Service]
<1>0. type \in {"started", "offer", "succeeded", "canceled", "joined", "expired", "missions"}
  OBVIOUS
<1>1. /\ q \in Seq(Messages) /\ q # <<>> /\ q[1] = Head(q) /\ q[1].type = type
      /\ q[1] = Notice(type, q[1].uid)
      /\ Taken(Service, p) \in Net /\ Taken(Service, p)[Service][p] = Tail(q)
      /\ Taken(Service, p)[p][Service] = a /\ (type # "succeeded" => ~tryAgain[p])
      /\ \A y \in Players : y # p => /\ Taken(Service, p)[Service][y] = net[Service][y]
                                     /\ Taken(Service, p)[y][Service] = net[y][Service]
  BY <1>0, Hears
<1>2. /\ \A y \in Players : y # p => uid'[y] = uid[y] /\ tryAgain'[y] = tryAgain[y]
      /\ uid'[p] \in {uid[p], NULL} /\ ~tryAgain'[p]
  BY <1>1 DEF Forgotten, Inv, TypeOK, SessionOK
<1>3. net \in Net /\ p \in Parties /\ x \in Parties /\ Service \in Parties /\ p # Service
  BY Now, Constants
<1>4. CASE x # p
  <2>1. net'[Service][x] = net[Service][x] /\ net'[x][Service] = net[x][Service]
    BY <1>1, <1>3, <1>4, QueueSent
  <2> QED
    BY <1>2, <1>4, <2>1, Unheard
<1>5. CASE x = p
  <2>1. Follows(p) /\ a \in Seq(Messages) /\ uid[p] \in Uids \cup {NULL}
    BY Now
  <2>2. /\ net'[Service][p] = Tail(q)
        /\ \/ net'[p][Service] = a
           \/ \E m \in Messages : m.type # "offer_response" /\ net'[p][Service] = Append(a, m)
    <3> DEFINE heard == Taken(Service, p)
               whom == {Service}
    <3>0. Service \in whom /\ p \notin whom
      BY <1>3
    <3>1. heard \in Net /\ heard[Service][p] = Tail(q) /\ heard[p][Service] = a
      BY <1>1
    <3> HIDE DEF q, a, heard, whom
    <3>2. CASE net' = heard
      BY <3>1, <3>2
    <3>3. ASSUME NEW m \in Messages, m.type # "offer_response", net' = SentTo(heard, p, whom, m)
          PROVE  net'[Service][p] = Tail(q) /\ net'[p][Service] = Append(a, m)
      <4>1. SentTo(heard, p, whom, m)[p][Service] = Append(heard[p][Service], m)
        BY <1>3, <3>0, <3>1, QueueSentTo
      <4>2. SentTo(heard, p, whom, m)[Service][p] = heard[Service][p]
        BY <1>3, <3>0, <3>1, QueueApart
      <4> QED
        BY <3>1, <3>3, <4>1, <4>2
    <3> QED
      BY <3>2, <3>3 DEF heard, whom
  <2>3. uid'[p] = NULL \/ (/\ uid'[p] = uid[p]
                           /\ q[1] # Notice("canceled", uid[p])
                           /\ tryAgain[p] \/ q[1] # Notice("succeeded", uid[p]))
    BY <1>1 DEF Forgotten, Inv, TypeOK, SessionOK, Notice
  <2>4. q[1].type \notin {"offer", "started"} /\ \A v : q[1] # Notice("started", v)
    BY <1>1 DEF Notice
  <2>5. Goes(q, uid[p], tryAgain[p], uid'[p])
    BY <2>3, <2>4, Constants DEF Goes
  <2>6. Followed(Tail(q), a, uid'[p], FALSE, InSearch(p), Asked(p))
    <3>1. q[1] = Notice("succeeded", uid[p]) /\ ~tryAgain[p] => uid'[p] = NULL
      BY <2>3
    <3> HIDE DEF q, a
    <3> QED
      BY <1>1, <1>2, <2>1, <2>4, <2>5, <3>1, NoticeTaken DEF Follows, q, a
  <2>7. Followed(Tail(q), net'[p][Service], uid'[p], FALSE, InSearch(p), Asked(p))
    <3> HIDE DEF q, a
    <3>1. CASE net'[p][Service] = a
      BY <2>6, <3>1
    <3>2. ASSUME NEW m \in Messages, m.type # "offer_response", net'[p][Service] = Append(a, m)
          PROVE  Followed(Tail(q), net'[p][Service], uid'[p], FALSE, InSearch(p), Asked(p))
      <4>1. Followed(Tail(q), Append(a, m), uid'[p], FALSE, InSearch(p), Asked(p))
        BY <2>1, <2>6, <3>2, OtherSent
      <4> QED
        BY <3>2, <4>1
    <3> QED
      BY <2>2, <3>1, <3>2
  <2>8. tryAgain'[p] = FALSE
    BY <1>2, <2>1 DEF Inv, TypeOK, SessionOK
  <2>9. Follows(p)'
    BY <2>2, <2>7, <2>8 DEF Follows, InSearch, Asked, service
  <2>10. OwnMatch(p)
    BY <2>2, NoAnswer
  <2> QED
    BY <1>5, <2>9, <2>10 DEF Keeps
<1> QED
  BY <1>4, <1>5

LEMMA SucceededKeeps ==
  ASSUME Inv, SearchInv, NEW p \in Players, Succeeded(p), NEW x \in Players
  PROVE  Keeps(x)
<1>1. Receives(Service, p, "succeeded") /\ net' = Taken(Service, p) /\ UNCHANGED service
  BY DEF Succeeded, Told, Handler
<1>2. tryAgain' = [tryAgain EXCEPT ![p] = FALSE] /\ ~tryAgain'[p]
  BY DEF Succeeded, Inv, TypeOK, SessionOK
<1>3. net[Service][p][1] = Head(net[Service][p])
  BY <1>1, Hears
<1>4. Forgotten(p) \/ (uid' = uid /\ (tryAgain[p] \/ uid[p] # net[Service][p][1].uid))
  BY <1>3 DEF Succeeded, groups
<1> QED
  BY <1>1, <1>2, <1>4, HeardKeeps

LEMMA CanceledKeeps ==
  ASSUME Inv, SearchInv, NEW p \in Players, Canceled(p), NEW x \in Players
  PROVE  Keeps(x)
<1>1. /\ Receives(Service, p, "canceled") /\ net' = Taken(Service, p)
      /\ UNCHANGED service /\ UNCHANGED tryAgain
  BY DEF Canceled, Told, Handler
<1>2. net[Service][p][1] = Head(net[Service][p])
  BY <1>1, Hears
<1>3. Forgotten(p) \/ (uid' = uid /\ uid[p] # net[Service][p][1].uid)
  BY <1>2 DEF Canceled, groups
<1> QED
  BY <1>1, <1>3, HeardKeeps

LEMMA JoinedKeeps ==
  ASSUME Inv, SearchInv, NEW p \in Players, Joined(p), NEW x \in Players
  PROVE  Keeps(x)
<1>1. /\ Receives(Service, p, "joined") /\ net' = Taken(Service, p) /\ Forgotten(p)
      /\ UNCHANGED service /\ UNCHANGED tryAgain
  BY DEF Joined, Told, Handler
<1> QED
  BY <1>1, HeardKeeps

LEMMA MissionsKeep ==
  ASSUME Inv, SearchInv, NEW p \in Players, MissionExpired(p) \/ MissionsUpdated(p),
         NEW x \in Players
  PROVE  Keeps(x)
<1> DEFINE u == Head(net[Service][p]).uid
           asks == Notice("missions", u)
           again == Search(u, Accepted(group[p]), 1)
<1>1. PICK type \in {"expired", "missions"} : Receives(Service, p, type)
  BY DEF MissionExpired, MissionsUpdated, Told
<1>2. UNCHANGED <<uid, tryAgain, service>>
  BY DEF MissionExpired, MissionsUpdated, Told, Handler, session, groups
<1>3. u \in Uids
  BY <1>1, Hears
<1>4. asks \in Messages /\ asks.type # "offer_response"
  BY <1>3, MessagesMade DEF Notice
<1>5. again \in Messages /\ again.type # "offer_response"
  <2>1. group[p] # NULL => group[p] \in Seq(Members(p))
    BY DEF Inv, TypeOK, SessionOK
  <2>2. Accepted(group[p]) \in SUBSET Players
    BY <2>1, AcceptedAreOthers
  <2>3. again \in Messages
    BY <1>3, <2>2, MessagesMade
  <2> QED
    BY <2>3 DEF Search
<1>6. \/ net' = Taken(Service, p)
      \/ net' = SentTo(Taken(Service, p), p, {Service}, asks)
      \/ net' = SentTo(Taken(Service, p), p, {Service}, again)
  BY DEF MissionExpired, MissionsUpdated
<1> HIDE DEF asks, again
<1>7. \/ net' = Taken(Service, p)
      \/ \E m \in Messages : /\ m.type # "offer_response"
                             /\ net' = SentTo(Taken(Service, p), p, {Service}, m)
  BY <1>4, <1>5, <1>6
<1> QED
  BY <1>1, <1>2, <1>7, HeardKeeps

(* The service hears the oldest message of a client p. *)
LEMMA ServiceHears ==
  ASSUME Inv, SearchInv, Serves, NEW p \in Players, NEW type, Receives(p, Service, type),
         NEW x \in Players
  PROVE  /\ net[p][Service] # <<>> /\ net[p][Service] \in Seq(Messages)
         /\ Taken(p, Service) \in Net
         /\ Taken(p, Service)[Service][x] = net[Service][x]
         /\ Taken(p, Service)[x][Service] =
              IF x = p THEN Tail(net[p][Service]) ELSE net[x][Service]
         /\ net'[x][Service] = Taken(p, Service)[x][Service] => OwnMatch(x)
         /\ uid' = uid /\ tryAgain' = tryAgain
<1>1. net \in Net /\ p \in Parties /\ x \in Parties /\ Service \in Parties /\ p # Service /\ x # Service
      /\ net[p][Service] \in Seq(Messages)
  BY Now
<1>2. net[p][Service] # <<>>
  BY DEF Receives
<1>3. \A y, z \in Parties :
        Taken(p, Service)[y][z] = IF y = p /\ z = Service THEN Tail(net[p][Service]) ELSE net[y][z]
  BY <1>1, QueueTaken
<1>4. Taken(p, Service) \in Net
  BY <1>1, QueueTaken
<1>5. net'[x][Service] = Taken(p, Service)[x][Service] => OwnMatch(x)
  BY <1>1, <1>2, <1>3, NoAnswer
<1>6. uid' = uid /\ tryAgain' = tryAgain
  BY DEF Serves, session, groups
<1> QED
  BY <1>1, <1>2, <1>3, <1>4, <1>5, <1>6

(* What a client waits for when the service has heard one of its messages. *)
LEMMA HeardOf ==
  ASSUME Inv, SearchInv, NEW x \in Players, NEW a,
         a = net[x][Service] \/ (net[x][Service] # <<>> /\ a = Tail(net[x][Service]))
  PROVE  Followed(net[Service][x], a, uid[x], tryAgain[x], InSearch(x), Asked(x))
<1>1. Follows(x) /\ net[x][Service] \in Seq(Messages) /\ Asked(x) \in SUBSET Asked(x)
  BY Now
<1> QED
  BY <1>1, AnswerHeard DEF Follows

LEMMA SearchRequestedKeeps ==
  ASSUME Inv, SearchInv, NEW p \in Players, SearchRequested(p), NEW x \in Players
  PROVE  Keeps(x)
<1> DEFINE m == Head(net[p][Service])
           u == m.uid
           all == {p} \cup m.with
           q == net[Service][x]
           a == Taken(p, Service)[x][Service]
<1>1. Serves /\ Receives(p, Service, "quickplay") /\ offered' = offered
  BY DEF SearchRequested
<1>2. /\ Taken(p, Service) \in Net /\ Taken(p, Service)[Service][x] = q
      /\ a = net[x][Service] \/ (net[x][Service] # <<>> /\ a = Tail(net[x][Service]))
      /\ net'[x][Service] = a => OwnMatch(x)
      /\ uid' = uid /\ tryAgain' = tryAgain
  BY <1>1, ServiceHears
<1>3. /\ p \in Parties /\ x \in Parties /\ Service \in Parties /\ x # Service
      /\ q \in Seq(Messages) /\ InSearch(x) \in SUBSET Uids /\ Asked(x) \in SUBSET InSearch(x)
  BY Now
<1>4. u \in Uids
  BY <1>1, <1>3, Received
<1> HIDE DEF m, q, a
<1>5. Followed(q, a, uid[x], tryAgain[x], InSearch(x), Asked(x))
  BY <1>2, HeardOf DEF q
<1> HIDE DEF u, all
<1>6. CASE /\ searches[u] = {} /\ \A y \in all : ~Searching(y)
           /\ searches' = [searches EXCEPT ![u] = all]
           /\ net' = SentTo(Taken(p, Service), Service, all, Notice("started", u))
  <2>1. /\ net'[x][Service] = a
        /\ net'[Service][x] = IF x \in all THEN Append(q, Notice("started", u)) ELSE q
    BY <1>2, <1>3, <1>6, QueueSent DEF a
  <2>2. CASE x \in all
    <3>1. InSearch(x) = {} /\ Asked(x) = {} /\ Asked(x)' = {}
      BY <1>1, <1>3, <1>6, <2>2 DEF Searching, InSearch, Asked
    <3>2. InSearch(x)' = {u}
      BY <1>4, <1>6, <2>2 DEF Searching, InSearch, Inv, TypeOK, ServiceOK
    <3>3. Followed(Append(q, Notice("started", u)), a, uid[x], tryAgain[x], {u}, {})
      BY <1>3, <1>4, <1>5, <3>1, StartAdded
    <3>4. Follows(x)'
      BY <1>2, <2>1, <2>2, <3>1, <3>2, <3>3 DEF Follows
    <3> QED
      BY <1>2, <2>1, <3>4 DEF Keeps
  <2>3. CASE x \notin all
    <3>1. InSearch(x)' = InSearch(x) /\ Asked(x)' = Asked(x)
      BY <1>1, <1>6, <2>3 DEF InSearch, Asked, Inv, TypeOK, ServiceOK
    <3>2. Follows(x)'
      BY <1>2, <1>5, <2>1, <2>3, <3>1 DEF Follows
    <3> QED
      BY <1>2, <2>1, <3>2 DEF Keeps
  <2> QED
    BY <2>2, <2>3
<1>7. CASE /\ searches' = searches
           /\ \/ net' = Taken(p, Service)
              \/ net' = SentTo(Taken(p, Service), Service, {p}, Notice("expired", u))
  <2>1. InSearch(x)' = InSearch(x) /\ Asked(x)' = Asked(x)
    BY <1>1, <1>7 DEF InSearch, Asked
  <2>2. /\ net'[x][Service] = a
        /\ net'[Service][x] = q \/ net'[Service][x] = Append(q, Notice("expired", u))
    BY <1>2, <1>3, <1>7, SentByService DEF a
  <2>3. Notice("expired", u) \in Messages /\ Notice("expired", u).type \notin {"offer", "started"}
    BY <1>4, MessagesMade DEF Notice
  <2>4. Followed(Append(q, Notice("expired", u)), a, uid[x], tryAgain[x], InSearch(x), Asked(x))
    BY <1>3, <1>5, <2>3, NoticeAdded
  <2>5. Follows(x)'
    BY <1>2, <1>5, <2>1, <2>2, <2>4 DEF Follows
  <2> QED
    BY <1>2, <2>2, <2>5 DEF Keeps
<1> QED
  BY <1>6, <1>7 DEF SearchRequested, u, all, m

LEMMA MissionsAskedKeeps ==
  ASSUME Inv, SearchInv, NEW p \in Players, MissionsAsked(p), NEW x \in Players
  PROVE  Keeps(x)
<1> DEFINE m == Head(net[p][Service])
           q == net[Service][x]
           a == Taken(p, Service)[x][Service]
<1>1. Serves /\ Receives(p, Service, "missions") /\ UNCHANGED service
      /\ net' = SentTo(Taken(p, Service), Service, {p}, m)
  BY DEF MissionsAsked
<1>2. /\ Taken(p, Service) \in Net /\ Taken(p, Service)[Service][x] = q
      /\ a = net[x][Service] \/ (net[x][Service] # <<>> /\ a = Tail(net[x][Service]))
      /\ net'[x][Service] = a => OwnMatch(x)
      /\ uid' = uid /\ tryAgain' = tryAgain
  BY <1>1, ServiceHears
<1>3. /\ p \in Parties /\ x \in Parties /\ Service \in Parties /\ x # Service
      /\ q \in Seq(Messages) /\ InSearch(x) \in SUBSET Uids /\ Asked(x) \in SUBSET InSearch(x)
  BY Now
<1>4. m \in Messages /\ m.type \notin {"offer", "started"}
  BY <1>1, <1>3, Received
<1> HIDE DEF m, q, a
<1>5. Followed(q, a, uid[x], tryAgain[x], InSearch(x), Asked(x))
  BY <1>2, HeardOf DEF q
<1>6. net'[x][Service] = a /\ (net'[Service][x] = q \/ net'[Service][x] = Append(q, m))
  <2> DEFINE heard == Taken(p, Service)
             sender == {p}
  <2>1. /\ heard \in Net /\ heard[Service][x] = q /\ a = heard[x][Service]
        /\ net' = SentTo(heard, Service, sender, m)
    BY <1>1, <1>2 DEF a
  <2> HIDE DEF heard, sender
  <2>2. /\ SentTo(heard, Service, sender, m)[x][Service] = heard[x][Service]
        /\ \/ SentTo(heard, Service, sender, m)[Service][x] = heard[Service][x]
           \/ SentTo(heard, Service, sender, m)[Service][x] = Append(heard[Service][x], m)
    BY <1>3, <2>1, SentByService
  <2> QED
    BY <2>1, <2>2
<1>7. Followed(Append(q, m), a, uid[x], tryAgain[x], InSearch(x), Asked(x))
  BY <1>3, <1>4, <1>5, NoticeAdded
<1>8. Follows(x)'
  BY <1>1, <1>2, <1>5, <1>6, <1>7 DEF Follows, InSearch, Asked, service
<1> QED
  BY <1>2, <1>6, <1>8 DEF Keeps

LEMMA SearchCanceledKeeps ==
  ASSUME Inv, SearchInv, NEW p \in Players, SearchCanceled(p), NEW x \in Players
  PROVE  Keeps(x)
<1> DEFINE theirs == {v \in Uids : p \in searches[v]}
           u == CHOOSE v \in theirs : TRUE
           q == net[Service][x]
           a == Taken(p, Service)[x][Service]
<1>1. /\ Serves /\ Receives(p, Service, "quickplay_cancel") /\ theirs = InSearch(p)
      /\ searches' = [v \in Uids |-> IF v \in theirs THEN {} ELSE searches[v]]
      /\ offered' = [v \in Uids |-> IF v \in theirs THEN {} ELSE offered[v]]
      /\ net' = IF theirs = {} THEN Taken(p, Service)
                ELSE SentTo(Taken(p, Service), Service, searches[u], Notice("canceled", u))
  BY DEF SearchCanceled, InSearch
<1>2. /\ Taken(p, Service) \in Net /\ Taken(p, Service)[Service][x] = q
      /\ a = net[x][Service] \/ (net[x][Service] # <<>> /\ a = Tail(net[x][Service]))
      /\ net'[x][Service] = a => OwnMatch(x)
      /\ uid' = uid /\ tryAgain' = tryAgain
  BY <1>1, ServiceHears
<1>3. /\ p \in Parties /\ x \in Parties /\ Service \in Parties /\ x # Service
      /\ q \in Seq(Messages) /\ InSearch(x) \in SUBSET Uids /\ Asked(x) \in SUBSET InSearch(x)
      /\ Follows(p) /\ Follows(x)
  BY Now
<1>4. \A v, w \in theirs : v = w
  BY <1>1, <1>3 DEF Follows, Followed, Tracked
<1>5. theirs # {} => u \in theirs /\ theirs = {u} /\ u \in Uids /\ p \in searches[u]
  BY <1>4
<1>6. \A v, w \in InSearch(x) : v = w
  BY <1>3 DEF Follows, Followed, Tracked
<1> HIDE DEF q, a, u, theirs
<1>7. Followed(q, a, uid[x], tryAgain[x], InSearch(x), Asked(x))
  BY <1>2, HeardOf DEF q
<1>8. net'[x][Service] = a
  BY <1>1, <1>2, <1>3, QueueSent DEF a
<1>9. CASE theirs = {} \/ x \notin searches[u]
  <2>1. net'[Service][x] = q
    BY <1>1, <1>2, <1>3, <1>9, QueueSent
  <2>2. InSearch(x)' = InSearch(x) /\ Asked(x)' = Asked(x)
    BY <1>1, <1>5, <1>9 DEF InSearch, Asked, Inv, TypeOK, ServiceOK
  <2>3. Follows(x)'
    BY <1>2, <1>7, <1>8, <2>1, <2>2 DEF Follows
  <2> QED
    BY <1>2, <1>8, <2>3 DEF Keeps
<1>10. CASE theirs # {} /\ x \in searches[u]
  <2> DEFINE m == Notice("canceled", u)
  <2>1. net'[Service][x] = Append(q, m)
    <3>1. net' = SentTo(Taken(p, Service), Service, searches[u], m)
      BY <1>1, <1>10
    <3> HIDE DEF m
    <3>2. SentTo(Taken(p, Service), Service, searches[u], m)[Service][x] = Append(Taken(p, Service)[Service][x], m)
      BY <1>2, <1>3, <1>10, QueueSentTo
    <3> QED
      BY <1>2, <3>1, <3>2
  <2>2. u \in InSearch(x) /\ InSearch(x)' = {} /\ Asked(x)' = {}
    <3>1. u \in InSearch(x)
      BY <1>5, <1>10 DEF InSearch
    <3>2. \A v \in Uids : x \in searches[v] => v = u
      BY <1>6, <3>1 DEF InSearch
    <3>3. InSearch(x)' = {}
      BY <1>1, <1>5, <1>10, <3>2 DEF InSearch
    <3>4. Asked(x)' = {}
      BY <1>1, <1>5, <1>10, <3>2 DEF Asked, Inv, TypeOK, ServiceOK
    <3> QED
      BY <3>1, <3>3, <3>4
  <2>3. m \in Messages /\ m.type \notin {"offer", "started"}
    BY <1>5, <1>10, MessagesMade DEF Notice
  <2>4. {} \in SUBSET InSearch(x) /\ {} \in SUBSET Asked(x)
        /\ \E w \in InSearch(x) : m = Notice("canceled", w)
    BY <2>2
  <2> HIDE DEF m
  <2>5. Followed(Append(q, m), a, uid[x], tryAgain[x], {}, {})
    BY <1>3, <1>7, <2>3, <2>4, NoticeAdded
  <2>6. Follows(x)'
    BY <1>2, <1>8, <2>1, <2>2, <2>5 DEF Follows
  <2> QED
    BY <1>2, <1>8, <2>6 DEF Keeps
<1> QED
  BY <1>9, <1>10

LEMMA MatchKeeps ==
  ASSUME Inv, SearchInv, NEW u \in Uids, Match(u), NEW x \in Players
  PROVE  Keeps(x)
<1>0. PICK bare \in BOOLEAN :
        net' = SentTo(SentTo(net, Service, searches[u], Proposal(u, bare)),
                      Service, searches[u], Notice("succeeded", u))
  BY QuickplayAssumption DEF Match
<1> DEFINE o == Proposal(u, bare)
           y == Notice("succeeded", u)
           q == net[Service][x]
           a == net[x][Service]
<1>1. /\ Serves /\ searches' = searches /\ offered' = [offered EXCEPT ![u] = searches[u]]
      /\ offered[u] = {} /\ uid' = uid /\ tryAgain' = tryAgain
      /\ net' = SentTo(SentTo(net, Service, searches[u], o), Service, searches[u], y)
  BY <1>0 DEF Match, Serves, session, groups
<1>2. /\ net \in Net /\ x \in Parties /\ Service \in Parties /\ x # Service
      /\ q \in Seq(Messages) /\ InSearch(x) \in SUBSET Uids /\ Asked(x) \in SUBSET InSearch(x)
      /\ Follows(x)
  BY Now
<1>3. o \in Messages
  BY MessagesMade
<1>4. SentTo(net, Service, searches[u], o) \in Net
  BY <1>2, <1>3, SentToCarries
<1> HIDE DEF o, y
<1>5. /\ net'[x][Service] = a
      /\ net'[Service][x] = IF x \in searches[u] THEN Append(Append(q, o), y) ELSE q
  BY <1>1, <1>2, <1>4, QueueSent
<1>6. OwnMatch(x)
  BY <1>5, NoAnswer
<1>7. CASE x \in searches[u]
  <2>1. u \in InSearch(x) /\ InSearch(x)' = InSearch(x) /\ Asked(x)' = Asked(x) \cup {u}
    BY <1>1, <1>7 DEF InSearch, Asked, Inv, TypeOK, ServiceOK
  <2>2. Followed(q, a, uid[x], tryAgain[x], InSearch(x), Asked(x)) /\ Asked(x) \in SUBSET Uids
    BY <1>2 DEF Follows
  <2> HIDE DEF q, a
  <2>3. Followed(Append(Append(q, o), y), a, uid[x], tryAgain[x], InSearch(x), Asked(x) \cup {u})
    BY <1>2, <2>1, <2>2, MatchAdded DEF o, y
  <2>4. Follows(x)'
    BY <1>1, <1>5, <1>7, <2>1, <2>3 DEF Follows
  <2> QED
    BY <1>6, <2>4 DEF Keeps
<1>8. CASE x \notin searches[u]
  <2>1. InSearch(x)' = InSearch(x) /\ Asked(x)' = Asked(x)
    BY <1>1, <1>8 DEF InSearch, Asked, Inv, TypeOK, ServiceOK
  <2>2. Follows(x)'
    BY <1>1, <1>2, <1>5, <1>8, <2>1 DEF Follows
  <2> QED
    BY <1>6, <2>2 DEF Keeps
<1> QED
  BY <1>7, <1>8

LEMMA OfferAnsweredKeeps ==
  ASSUME Inv, SearchInv, NEW p \in Players, OfferAnswered(p), NEW x \in Players
  PROVE  Keeps(x)
<1> DEFINE m == Head(net[p][Service])
           u == m.uid
           q == net[Service][x]
           a == Taken(p, Service)[x][Service]
           sent == Notice("joined", u)
<1>1. Serves /\ Receives(p, Service, "offer_response")
  BY DEF OfferAnswered
<1>2. /\ net[p][Service] # <<>> /\ net[p][Service] \in Seq(Messages)
      /\ Taken(p, Service) \in Net /\ Taken(p, Service)[Service][x] = q
      /\ a = IF x = p THEN Tail(net[p][Service]) ELSE net[x][Service]
      /\ net'[x][Service] = a => OwnMatch(x)
      /\ uid' = uid /\ tryAgain' = tryAgain
  BY <1>1, ServiceHears
<1>3. /\ p \in Parties /\ x \in Parties /\ Service \in Parties /\ x # Service
      /\ q \in Seq(Messages) /\ InSearch(x) \in SUBSET Uids /\ Asked(x) \in SUBSET InSearch(x)
      /\ Follows(x)
  BY Now
<1>4. m \in Messages /\ m.type = "offer_response" /\ u \in Uids
  BY <1>1, <1>3, Received
<1>5. sent \in Messages /\ sent.type \notin {"offer", "started"}
  BY <1>4, MessagesMade DEF Notice
<1>6. net' = Taken(p, Service) \/ net' = SentTo(Taken(p, Service), Service, {p}, sent)
  BY DEF OfferAnswered
<1>7. /\ offered' = IF Stands(p) THEN [offered EXCEPT ![u] = @ \ {p}] ELSE offered
      /\ searches' = IF Stands(p) /\ m.result THEN [searches EXCEPT ![u] = @ \ {p}] ELSE searches
  BY DEF OfferAnswered
<1>8. Followed(q, a, uid[x], tryAgain[x], InSearch(x)', Asked(x)')
  <2>1. CASE x # p \/ ~Stands(p)
    <3>1. InSearch(x)' = InSearch(x) /\ Asked(x)' = Asked(x)
      BY <1>7, <2>1 DEF InSearch, Asked, Inv, TypeOK, ServiceOK
    <3>2. a = net[x][Service] \/ (net[x][Service] # <<>> /\ a = Tail(net[x][Service]))
      BY <1>2
    <3> HIDE DEF a
    <3> QED
      BY <3>1, <3>2, HeardOf
  <2>2. CASE x = p /\ Stands(p)
    <3> DEFINE b == net[p][Service]
    <3>1. /\ u \in Asked(x) /\ Asked(x)' = Asked(x) \ {u}
          /\ InSearch(x)' = IF m.result THEN InSearch(x) \ {u} ELSE InSearch(x)
      BY <1>4, <1>7, <2>2 DEF Stands, InSearch, Asked, Inv, TypeOK, ServiceOK
    <3>2. Followed(q, b, uid[x], tryAgain[x], InSearch(x), Asked(x))
      BY <1>3, <2>2 DEF Follows
    <3>3. a = Tail(b) /\ b # <<>> /\ b \in Seq(Messages)
      BY <1>2, <2>2
    <3>4. CASE ~m.result
      <4>1. Asked(x) \ {u} \in SUBSET Asked(x)
        OBVIOUS
      <4> HIDE DEF a, b, q
      <4> QED
        BY <3>1, <3>2, <3>3, <3>4, <4>1, AnswerHeard
    <3>5. CASE m.result
      <4>1. \A k \in DOMAIN q : ~ Offers(q[k], u)
        <5>1. \A k \in DOMAIN q : q[k] \in Range(q)
          BY DEF Range
        <5> QED
          BY <2>2, <5>1 DEF Stands, Offers
      <4>2. 1 \in DOMAIN b /\ Takes(b, 1, u)
        <5>1. 1 \in DOMAIN b /\ b[1] = m
          BY <3>3
        <5>2. m = OfferResponse(u, TRUE)
          BY <1>4, <3>5 DEF Messages, OfferResponse
        <5>3. \A k \in DOMAIN b : k > 1 => b[k] \in Range(Tail(b))
          <6> HIDE DEF b
          <6>1. /\ DOMAIN b = 1 .. Len(Tail(b)) + 1 /\ DOMAIN Tail(b) = 1 .. Len(Tail(b))
                /\ Len(Tail(b)) \in Nat /\ \A i \in 1 .. Len(Tail(b)) : Tail(b)[i] = b[i + 1]
            BY <3>3, OldestTaken
          <6>2. ASSUME NEW k \in DOMAIN b, k > 1 PROVE b[k] \in Range(Tail(b))
            <7>1. k - 1 \in 1 .. Len(Tail(b)) /\ (k - 1) + 1 = k
              BY <6>1, <6>2
            <7> QED
              BY <6>1, <7>1 DEF Range
          <6> QED
            BY <6>2
        <5>4. \A k \in DOMAIN b : k > 1 => ~(b[k].type = "offer_response" /\ b[k].uid = u)
          BY <2>2, <5>3 DEF Stands
        <5> HIDE DEF b, m
        <5> QED
          BY <5>1, <5>2, <5>4 DEF Takes
      <4> HIDE DEF a, b, q, u
      <4>3. Followed(q, b, uid[x], tryAgain[x], InSearch(x) \ {u}, Asked(x) \ {u})
        BY <1>3, <3>1, <3>2, <4>1, <4>2, MatchTaken
      <4>4. Asked(x) \ {u} \in SUBSET (Asked(x) \ {u})
        OBVIOUS
      <4>5. Followed(q, Tail(b), uid[x], tryAgain[x], InSearch(x) \ {u}, Asked(x) \ {u})
        BY <3>3, <4>3, <4>4, AnswerHeard
      <4> QED
        BY <3>1, <3>3, <3>5, <4>5
    <3> QED
      BY <3>4, <3>5
  <2> QED
    BY <2>1, <2>2
<1>9. /\ InSearch(x)' \in SUBSET Uids /\ Asked(x)' \in SUBSET Uids
  BY DEF InSearch, Asked
<1> HIDE DEF q, a, sent
<1>10. net'[x][Service] = a /\ (net'[Service][x] = q \/ net'[Service][x] = Append(q, sent))
  BY <1>2, <1>3, <1>6, SentByService DEF a
<1>11. Followed(Append(q, sent), a, uid[x], tryAgain[x], InSearch(x)', Asked(x)')
  BY <1>3, <1>5, <1>8, <1>9, NoticeAdded
<1>12. Follows(x)'
  BY <1>2, <1>8, <1>10, <1>11 DEF Follows
<1> QED
  BY <1>2, <1>10, <1>12 DEF Keeps
-----------------------------------------------------------------------------
LEMMA InitFollows == ASSUME Init PROVE SearchInv
<1> SUFFICES ASSUME NEW p \in Players
             PROVE  Followed(net[Service][p], net[p][Service], uid[p], tryAgain[p], InSearch(p), Asked(p))
  BY DEF SearchInv
<1>1. /\ net[Service][p] = <<>> /\ net[p][Service] = <<>> /\ uid[p] = NULL
      /\ tryAgain[p] = FALSE /\ InSearch(p) = {} /\ Asked(p) = {}
  BY Constants DEF Init, InSearch, Asked
<1>2. \A v \in Uids, j \in 0 .. Len(<<>>) : ~ Waits(<<>>, NULL, j, v)
  BY Constants DEF Waits
<1>3. Followed(<<>>, <<>>, NULL, FALSE, {}, {})
  <2>1. Paired(<<>>, FALSE)
    BY DEF Paired
  <2>2. Ordered(<<>>, NULL, FALSE)
    BY <1>2 DEF Ordered
  <2>3. Tracked(<<>>, NULL, FALSE, {})
    BY <1>2 DEF Tracked
  <2>4. Owed(<<>>, <<>>, NULL, FALSE, {})
    BY DEF Owed
  <2> QED
    BY <2>1, <2>2, <2>3, <2>4 DEF Followed
<1> QED
  BY <1>1, <1>3

LEMMA NextKeeps ==
  ASSUME Inv, SearchInv, [Next]_vars, NEW x \in Players
  PROVE  Keeps(x)
<1>1. ASSUME NEW p \in Players,
             Opening(p) \/ Open(p) \/ Start(p) \/ CancelCommand(p) \/ RoomChanged(p)
      PROVE  Keeps(x)
  BY <1>1, OpenKeeps, StartKeeps, CancelCommandKeeps, RoomChangedKeeps
<1>2. ASSUME NEW p \in Players, NEW q \in Players \ {p},
             Preinvite(p, q) \/ Preinvited(p, q) \/ Postponed(p, q) \/ Responded(p, q)
               \/ PreinviteCanceled(p, q)
      PROVE  Keeps(x)
  BY <1>2, PreinviteKeeps, PeerKeeps
<1>3. ASSUME NEW p \in Players,
             Started(p) \/ Offer(p) \/ Succeeded(p) \/ Canceled(p) \/ Joined(p)
               \/ MissionExpired(p) \/ MissionsUpdated(p)
      PROVE  Keeps(x)
  BY <1>3, StartedKeeps, OfferKeeps, SucceededKeeps, CanceledKeeps, JoinedKeeps, MissionsKeep
<1>4. ASSUME NEW p \in Players,
             MissionsAsked(p) \/ SearchRequested(p) \/ SearchCanceled(p) \/ OfferAnswered(p)
      PROVE  Keeps(x)
  BY <1>4, MissionsAskedKeeps, SearchRequestedKeeps, SearchCanceledKeeps, OfferAnsweredKeeps
<1>5. ASSUME NEW u \in Uids, Match(u) PROVE Keeps(x)
  BY <1>5, MatchKeeps
<1>6. ASSUME UNCHANGED vars PROVE Keeps(x)
  BY <1>6, Unheard DEF vars, session, groups, service
<1> QED
  BY <1>1, <1>2, <1>3, <1>4, <1>5, <1>6 DEF Next

LEMMA NextFollows ==
  ASSUME Inv, SearchInv, [Next]_vars
  PROVE  SearchInv' /\ \A p \in Players : OwnMatch(p)
<1>1. \A p \in Players : Keeps(p)
  BY NextKeeps
<1> QED
  BY <1>1 DEF Keeps, Follows, SearchInv

(* What is under way between the service and a client leads the client where *)
(* the service has it, in every state.                                       *)
THEOREM SearchInvariant == Spec => []SearchInv
<1>1. Init => SearchInv
  BY InitFollows
<1>2. Inv /\ SearchInv /\ [Next]_vars => SearchInv'
  BY NextFollows
<1> QED
  BY <1>1, <1>2, QuickplayInvariant, PTL DEF Spec

(* A client only takes a match of the search it waits for, however many      *)
(* searches of however many groups come and go, unless the offer has no      *)
(* token.                                                                    *)
THEOREM MatchesAreOwn == Spec => TakesItsMatch
<1>1. Inv /\ SearchInv /\ [Next]_vars => [\A p \in Players : OwnMatch(p)]_vars
  BY NextFollows
<1> QED
  BY <1>1, QuickplayInvariant, SearchInvariant, PTL DEF Spec, TakesItsMatch

(* A client that waits for a search, when all is said, is in that search of  *)
(* the service.                                                              *)
THEOREM NobodyWaitsInVain == Spec => []WaitsForASearch
<1>1. Inv /\ SearchInv => WaitsForASearch
  <2> SUFFICES ASSUME Inv, SearchInv, Rest, NEW p \in Players, uid[p] # NULL
               PROVE  p \in searches[uid[p]]
    BY DEF WaitsForASearch
  <2>1. uid[p] \in Uids /\ net[Service][p] = <<>> /\ Follows(p)
    BY Now DEF Rest
  <2>2. Waits(<<>>, uid[p], 0, uid[p]) /\ Quiet(<<>>, 0, Len(<<>>) + 1)
        /\ ~ Over(<<>>, tryAgain[p], 0, Len(<<>>) + 1, uid[p])
    BY DEF Waits, Quiet, Over
  <2>3. uid[p] \in InSearch(p)
    BY <2>1, <2>2 DEF Follows, Followed, Tracked
  <2> QED
    BY <2>3 DEF InSearch
<1> QED
  BY <1>1, QuickplayInvariant, SearchInvariant, PTL
-----------------------------------------------------------------------------
(* Guests.  When one of n + 1 places, k, is taken out, the places of Q but k *)
(* move to those of P.                                                       *)
Shifted(n, k, P, Q) == \A i \in 1 .. n : i \in P <=> (IF i < k THEN i ELSE i + 1) \in Q

LEMMA OnePlaceLess ==
  ASSUME NEW n \in Nat, NEW k \in 1 .. n + 1, NEW P \in SUBSET (1 .. n), NEW Q \in SUBSET (1 .. n + 1),
         Shifted(n, k, P, Q)
  PROVE  /\ Cardinality(P) \in Nat
         /\ k \in Q => Cardinality(Q) = Cardinality(P) + 1
         /\ k \notin Q => Cardinality(Q) = Cardinality(P)
<1> USE DEF Shifted
<1> DEFINE f == [i \in P |-> IF i < k THEN i ELSE i + 1]
           R == Q \ {k}
<1>1. IsFiniteSet(P) /\ IsFiniteSet(Q)
  <2>1. IsFiniteSet(1 .. n) /\ IsFiniteSet(1 .. n + 1)
    BY FS_Interval
  <2> QED
    BY <2>1, FS_Subset
<1>2. f \in Bijection(P, R)
  <2>1. f \in [P -> R]
    <3>1. ASSUME NEW i \in P PROVE (IF i < k THEN i ELSE i + 1) \in R
      BY <3>1
    <3> QED
      BY <3>1
  <2>2. \A i, j \in P : f[i] = f[j] => i = j
    OBVIOUS
  <2>3. \A j \in R : \E i \in P : f[i] = j
    <3> SUFFICES ASSUME NEW j \in R PROVE \E i \in P : f[i] = j
      OBVIOUS
    <3>1. CASE j < k
      <4>1. j \in 1 .. n
        BY <3>1
      <4>2. j \in P
        BY <3>1, <4>1
      <4> QED
        BY <3>1, <4>2
    <3>2. CASE j > k
      <4>1. j - 1 \in 1 .. n /\ ~ (j - 1 < k) /\ (j - 1) + 1 = j
        BY <3>2
      <4>2. j - 1 \in P
        BY <4>1
      <4> QED
        BY <4>1, <4>2
    <3> QED
      BY <3>1, <3>2
  <2> HIDE DEF f
  <2> QED
    BY <2>1, <2>2, <2>3 DEF Bijection, Injection, Surjection, IsInjective
<1>3. Cardinality(P) = Cardinality(R) /\ Cardinality(P) \in Nat
  <2> HIDE DEF f, R
  <2>1. ExistsBijection(P, R)
    BY <1>2 DEF ExistsBijection
  <2> QED
    BY <1>1, <2>1, FS_Bijection, FS_CardinalityType
<1>4. Cardinality(R) = IF k \in Q THEN Cardinality(Q) - 1 ELSE Cardinality(Q)
  BY <1>1, FS_RemoveElement
<1>5. Cardinality(Q) \in Nat
  BY <1>1, FS_CardinalityType
<1> HIDE DEF R, f
<1> QED
  BY <1>3, <1>4, <1>5

(* How often a message is under way. *)
LEMMA TimesSent ==
  ASSUME NEW q \in Seq(Messages), NEW x \in Messages, NEW m
  PROVE  /\ Times(m, q) \in Nat
         /\ x = m => Times(m, Append(q, x)) = Times(m, q) + 1
         /\ x # m => Times(m, Append(q, x)) = Times(m, q)
<1> DEFINE r == Append(q, x)
           n == Len(q)
           k == n + 1
           P == {i \in DOMAIN q : q[i] = m}
           Q == {i \in DOMAIN r : r[i] = m}
<1>1. /\ n \in Nat /\ DOMAIN q = 1 .. n /\ DOMAIN r = 1 .. n + 1
      /\ (\A i \in 1 .. n : r[i] = q[i]) /\ r[n + 1] = x
  BY Added
<1> HIDE DEF r, n
<1>2. P \in SUBSET (1 .. n) /\ Q \in SUBSET (1 .. n + 1) /\ k \in 1 .. n + 1
  BY <1>1
<1>3. Shifted(n, k, P, Q)
  BY <1>1 DEF Shifted
<1>4. k \in Q <=> x = m
  BY <1>1
<1> HIDE DEF P, Q, k
<1>5. /\ Cardinality(P) \in Nat
      /\ k \in Q => Cardinality(Q) = Cardinality(P) + 1
      /\ k \notin Q => Cardinality(Q) = Cardinality(P)
  BY <1>1, <1>2, <1>3, OnePlaceLess
<1> QED
  BY <1>4, <1>5 DEF Times, P, Q, r

LEMMA TimesTaken ==
  ASSUME NEW q \in Seq(Messages), q # <<>>, NEW m
  PROVE  /\ Times(m, Tail(q)) \in Nat
         /\ Head(q) = m => Times(m, q) = Times(m, Tail(q)) + 1
         /\ Head(q) # m => Times(m, q) = Times(m, Tail(q))
<1> DEFINE t == Tail(q)
           n == Len(t)
           P == {i \in DOMAIN t : t[i] = m}
           Q == {i \in DOMAIN q : q[i] = m}
<1>1. /\ n \in Nat /\ DOMAIN t = 1 .. n /\ DOMAIN q = 1 .. n + 1
      /\ (\A i \in 1 .. n : t[i] = q[i + 1]) /\ Head(q) = q[1]
  BY OldestTaken
<1> HIDE DEF t, n
<1>2. P \in SUBSET (1 .. n) /\ Q \in SUBSET (1 .. n + 1) /\ 1 \in 1 .. n + 1
  BY <1>1
<1>3. Shifted(n, 1, P, Q)
  <2> SUFFICES ASSUME NEW i \in 1 .. n PROVE i \in P <=> i + 1 \in Q
    BY DEF Shifted
  <2>1. i + 1 \in 1 .. n + 1 /\ t[i] = q[i + 1]
    BY <1>1
  <2> QED
    BY <1>1, <2>1
<1>4. 1 \in Q <=> Head(q) = m
  BY <1>1, <1>2
<1> HIDE DEF P, Q
<1>5. /\ Cardinality(P) \in Nat
      /\ 1 \in Q => Cardinality(Q) = Cardinality(P) + 1
      /\ 1 \notin Q => Cardinality(Q) = Cardinality(P)
  BY <1>1, <1>2, <1>3, OnePlaceLess
<1> QED
  BY <1>4, <1>5 DEF Times, P, Q, t

(* A message that is under way no times is nowhere in the queue. *)
LEMMA TimesNone ==
  ASSUME NEW q \in Seq(Messages), NEW m
  PROVE  Times(m, q) \in Nat /\ (Times(m, q) = 0 <=> \A i \in DOMAIN q : q[i] # m)
<1> DEFINE Q == {i \in DOMAIN q : q[i] = m}
<1>1. IsFiniteSet(Q)
  <2>1. Q \in SUBSET (1 .. Len(q)) /\ Len(q) \in Nat
    OBVIOUS
  <2>2. IsFiniteSet(1 .. Len(q))
    BY <2>1, FS_Interval
  <2> HIDE DEF Q
  <2> QED
    BY <2>1, <2>2, FS_Subset
<1>2. Cardinality(Q) \in Nat /\ (Cardinality(Q) = 0 <=> Q = {})
  <2> HIDE DEF Q
  <2> QED
    BY <1>1, FS_CardinalityType, FS_EmptySet
<1> QED
  BY <1>2 DEF Times

(* A group that was made is no missing one. *)
LEMMA GroupIsSome ==
  ASSUME NEW p, NEW g \in Seq(Members(p))
  PROVE  g # NULL /\ Made(g) = g /\ Len(g) \in Nat /\ DOMAIN g = 1 .. Len(g)
<1>1. /\ Len(g) \in Nat /\ DOMAIN g = 1 .. Len(g) /\ g \in [1 .. Len(g) -> Members(p)]
  OBVIOUS
<1>2. g \in [1 .. Len(g) -> [who : Players, accepted : BOOLEAN]]
  BY <1>1 DEF Members
<1>3. g \in Seq([who : Players, accepted : BOOLEAN])
  BY <1>1, <1>2, FunctionIsSequence
<1>4. g # NULL
  BY <1>3, QuickplayAssumption
<1> QED
  BY <1>1, <1>4 DEF Made

(* How often a player is in a group. *)
LEMMA EntriesMade ==
  ASSUME NEW p, NEW q, NEW g, g = NULL \/ g \in Seq(Members(p))
  PROVE  /\ Entries(q, g) \in Nat /\ Entries(q, Made(g)) = Entries(q, g)
         /\ q \notin Whom(g) => Entries(q, g) = 0
<1> DEFINE h == Made(g)
           Q == {i \in DOMAIN h : h[i].who = q}
<1>1. h \in Seq(Members(p)) /\ Made(h) = h
  <2>1. CASE g = NULL
    BY <2>1 DEF Made
  <2>2. CASE g \in Seq(Members(p))
    BY <2>2, GroupIsSome
  <2> QED
    BY <2>1, <2>2
<1>2. Len(h) \in Nat /\ DOMAIN h = 1 .. Len(h)
  BY <1>1
<1>3. IsFiniteSet(Q)
  <2>1. Q \in SUBSET (1 .. Len(h))
    BY <1>2
  <2>2. IsFiniteSet(1 .. Len(h))
    BY <1>2, FS_Interval
  <2> HIDE DEF Q
  <2> QED
    BY <2>1, <2>2, FS_Subset
<1>4. Cardinality(Q) \in Nat /\ (Q = {} => Cardinality(Q) = 0)
  <2> HIDE DEF Q
  <2> QED
    BY <1>3, FS_CardinalityType, FS_EmptySet
<1>5. q \notin Whom(g) => Q = {}
  <2>1. CASE g = NULL
    BY <2>1 DEF Made
  <2>2. CASE g \in Seq(Members(p))
    <3>1. g # NULL /\ h = g
      BY <2>2, GroupIsSome
    <3> HIDE DEF h
    <3> QED
      BY <3>1 DEF Whom
  <2> QED
    BY <2>1, <2>2
<1> QED
  BY <1>1, <1>4, <1>5 DEF Entries

(* The group g with r in it, or once more. *)
With(r, g) == <<Member(r, FALSE)>> \o Made(g)

LEMMA EntriesInvited ==
  ASSUME NEW p \in Players, NEW r \in Players \ {p}, NEW q, NEW g, g = NULL \/ g \in Seq(Members(p))
  PROVE  /\ q = r => Entries(q, With(r, g)) = Entries(q, g) + 1
         /\ q # r => Entries(q, With(r, g)) = Entries(q, g)
<1> DEFINE b == Made(g)
           x == Member(r, FALSE)
           h == <<x>> \o b
           n == Len(b)
           P == {i \in DOMAIN b : b[i].who = q}
           Q == {i \in DOMAIN h : h[i].who = q}
<1>1. b \in Seq(Members(p)) /\ x \in Members(p) /\ x.who = r
  <2>1. b \in Seq(Members(p))
    BY MadeIsTyped
  <2> QED
    BY <2>1 DEF Member, Members
<1> HIDE DEF b, x
<1>2. h \in Seq(Members(p)) /\ Len(h) = n + 1 /\ n \in Nat /\ h[1] = x /\ \A i \in 1 .. n : h[i + 1] = b[i]
  <2> DEFINE S == Members(p)
             a == <<x>>
  <2>1. b \in Seq(S) /\ a \in Seq(S) /\ Len(a) = 1 /\ a[1] = x /\ n \in Nat
    BY <1>1
  <2> HIDE DEF S, a
  <2>2. /\ a \o b \in Seq(S) /\ Len(a \o b) = Len(a) + Len(b)
        /\ \A i \in 1 .. Len(a \o b) : (a \o b)[i] = IF i =< Len(a) THEN a[i] ELSE b[i - Len(a)]
    BY <2>1, Concatenated
  <2>3. h = a \o b
    BY DEF a
  <2> HIDE DEF h
  <2>4. 1 \in 1 .. Len(h) /\ h[1] = x
    BY <2>1, <2>2, <2>3
  <2>5. ASSUME NEW i \in 1 .. n PROVE h[i + 1] = b[i]
    <3>1. i + 1 \in 1 .. Len(h) /\ ~ (i + 1 =< Len(a)) /\ (i + 1) - Len(a) = i
      BY <2>1, <2>2, <2>3
    <3> QED
      BY <2>2, <2>3, <3>1
  <2> QED
    BY <2>1, <2>2, <2>3, <2>4, <2>5 DEF S
<1> HIDE DEF h
<1>3. DOMAIN b = 1 .. n /\ DOMAIN h = 1 .. n + 1 /\ Made(b) = b /\ Made(h) = h
  BY <1>1, <1>2, GroupIsSome
<1> HIDE DEF n
<1>4. P \in SUBSET (1 .. n) /\ Q \in SUBSET (1 .. n + 1) /\ 1 \in 1 .. n + 1
  BY <1>2, <1>3
<1>5. Shifted(n, 1, P, Q)
  <2> SUFFICES ASSUME NEW i \in 1 .. n PROVE i \in P <=> i + 1 \in Q
    BY DEF Shifted
  <2>1. i + 1 \in 1 .. n + 1 /\ b[i] = h[i + 1]
    BY <1>2
  <2> QED
    BY <1>3, <2>1
<1>6. 1 \in Q <=> q = r
  BY <1>1, <1>2, <1>3, <1>4
<1> HIDE DEF P, Q
<1>7. /\ 1 \in Q => Cardinality(Q) = Cardinality(P) + 1
      /\ 1 \notin Q => Cardinality(Q) = Cardinality(P)
  BY <1>2, <1>4, <1>5, OnePlaceLess
<1>8. Entries(q, g) = Cardinality(P)
  BY DEF Entries, P, b
<1>9. Entries(q, h) = Cardinality(Q)
  BY <1>3 DEF Entries, Q
<1> QED
  BY <1>6, <1>7, <1>8, <1>9 DEF h, b, x, With

LEMMA EntriesMarked ==
  ASSUME NEW p, NEW q, NEW g \in Seq(Members(p)), NEW s \in Whom(g)
  PROVE  Entries(q, [g EXCEPT ![PlaceOf(s, g)].accepted = TRUE]) = Entries(q, g)
<1> DEFINE i == PlaceOf(s, g)
           h == [g EXCEPT ![i].accepted = TRUE]
<1>1. g # NULL /\ Made(g) = g
  BY GroupIsSome
<1>2. i \in DOMAIN g
  BY <1>1, PlaceIsFound
<1>3. h \in Seq(Members(p))
  <2>1. LET k == [g EXCEPT ![PlaceOf(s, g)].accepted = TRUE]
        IN  k \in Seq(Members(p)) /\ Accepted(k) \subseteq Accepted(g) \cup {s}
    BY <1>1, MarkedIsTyped
  <2> QED
    BY <2>1
<1>4. Made(h) = h
  BY <1>3, GroupIsSome
<1>5. DOMAIN h = DOMAIN g /\ \A j \in DOMAIN g : h[j].who = g[j].who
  <2>1. DOMAIN h = DOMAIN g /\ \A j \in DOMAIN g : g[j] \in Members(p)
    OBVIOUS
  <2>2. \A j \in DOMAIN g : h[j] = IF j = i THEN [g[i] EXCEPT !.accepted = TRUE] ELSE g[j]
    BY <1>2
  <2>3. \A k \in Members(p) : [k EXCEPT !.accepted = TRUE].who = k.who
    BY DEF Members
  <2> HIDE DEF h
  <2> QED
    BY <1>2, <2>1, <2>2, <2>3
<1> HIDE DEF h
<1>6. {j \in DOMAIN h : h[j].who = q} = {j \in DOMAIN g : g[j].who = q}
  BY <1>5
<1> QED
  BY <1>1, <1>4, <1>6 DEF Entries, h

LEMMA EntriesRemoved ==
  ASSUME NEW p, NEW q, NEW g \in Seq(Members(p)), NEW k \in DOMAIN g
  PROVE  /\ q = g[k].who => Entries(q, RemoveAt(g, k)) + 1 = Entries(q, g)
         /\ q # g[k].who => Entries(q, RemoveAt(g, k)) = Entries(q, g)
         /\ Entries(q, RemoveAt(g, k)) \in Nat
<1> DEFINE h == RemoveAt(g, k)
           n == Len(h)
           P == {i \in DOMAIN h : h[i].who = q}
           Q == {i \in DOMAIN g : g[i].who = q}
<1>1. Made(g) = g /\ Len(g) \in Nat /\ DOMAIN g = 1 .. Len(g)
  BY GroupIsSome
<1>2. h \in Seq(Members(p)) /\ Len(h) = Len(g) - 1
      /\ \A j \in 1 .. Len(g) - 1 : h[j] = IF j < k THEN g[j] ELSE g[j + 1]
  BY RemovedPlaces
<1> HIDE DEF h
<1>3. Made(h) = h /\ n \in Nat /\ DOMAIN h = 1 .. n /\ Len(g) = n + 1
  BY <1>1, <1>2, GroupIsSome
<1> HIDE DEF n
<1>4. P \in SUBSET (1 .. n) /\ Q \in SUBSET (1 .. n + 1) /\ k \in 1 .. n + 1
  BY <1>1, <1>3
<1>5. Shifted(n, k, P, Q)
  <2> SUFFICES ASSUME NEW i \in 1 .. n PROVE i \in P <=> (IF i < k THEN i ELSE i + 1) \in Q
    BY DEF Shifted
  <2>1. i \in 1 .. Len(g) - 1 /\ i \in 1 .. n + 1 /\ i + 1 \in 1 .. n + 1
    BY <1>3
  <2>2. h[i] = IF i < k THEN g[i] ELSE g[i + 1]
    BY <1>2, <2>1
  <2>3. i \in P <=> h[i].who = q
    BY <1>3
  <2>4. i \in Q <=> g[i].who = q
    BY <1>1, <1>3, <2>1
  <2>5. i + 1 \in Q <=> g[i + 1].who = q
    BY <1>1, <1>3, <2>1
  <2> HIDE DEF P, Q
  <2>6. CASE i < k
    BY <2>2, <2>3, <2>4, <2>6
  <2>7. CASE ~ (i < k)
    BY <2>2, <2>3, <2>5, <2>7
  <2> QED
    BY <2>6, <2>7
<1>6. k \in Q <=> q = g[k].who
  OBVIOUS
<1> HIDE DEF P, Q
<1>7. /\ Cardinality(P) \in Nat
      /\ k \in Q => Cardinality(Q) = Cardinality(P) + 1
      /\ k \notin Q => Cardinality(Q) = Cardinality(P)
  <2> DEFINE at == k
  <2>1. n \in Nat /\ at \in 1 .. n + 1
    BY <1>3, <1>4
  <2>2. Shifted(n, at, P, Q)
    BY <1>5
  <2> HIDE DEF at
  <2>3. /\ Cardinality(P) \in Nat
        /\ at \in Q => Cardinality(Q) = Cardinality(P) + 1
        /\ at \notin Q => Cardinality(Q) = Cardinality(P)
    BY <1>4, <2>1, <2>2, OnePlaceLess
  <2> QED
    BY <2>3 DEF at
<1>8. Entries(q, g) = Cardinality(Q) /\ Entries(q, h) = Cardinality(P)
  BY <1>1, <1>3 DEF Entries, P, Q
<1> QED
  BY <1>6, <1>7, <1>8 DEF h

(* A queue in which a cancel follows, when a message is sent or taken. *)
LEMMA WarnedSent ==
  ASSUME NEW q \in Seq(Messages), NEW x \in Messages, NEW u, NEW waits, NEW now,
         Warned(q, u, waits), now => waits, x # Invite(u)
  PROVE  Warned(Append(q, x), u, now)
<1> DEFINE r == Append(q, x)
<1>1. /\ Len(q) \in Nat /\ DOMAIN q = 1 .. Len(q) /\ DOMAIN r = 1 .. Len(q) + 1
      /\ (\A i \in 1 .. Len(q) : r[i] = q[i]) /\ r[Len(q) + 1] = x
  BY Added
<1> HIDE DEF r
<1>2. \A i : CanceledAfter(q, i) => CanceledAfter(r, i)
  BY <1>1 DEF CanceledAfter
<1>3. \A i \in DOMAIN r : r[i] = Invite(u) => i \in DOMAIN q /\ q[i] = Invite(u)
  BY <1>1
<1> QED
  BY <1>2, <1>3 DEF Warned, r

LEMMA WarnedByCancel ==
  ASSUME NEW q \in Seq(Messages), NEW x \in Messages, x.type = "preinvite_cancel", NEW u, NEW now
  PROVE  Warned(Append(q, x), u, now)
<1> DEFINE r == Append(q, x)
<1>1. /\ Len(q) \in Nat /\ DOMAIN r = 1 .. Len(q) + 1 /\ r[Len(q) + 1] = x
  BY Added
<1> HIDE DEF r
<1>2. Len(q) + 1 \in DOMAIN r /\ Len(q) + 1 > 0 /\ x # Invite(u)
  BY <1>1 DEF Invite
<1>3. CanceledAfter(r, 0)
  BY <1>1, <1>2 DEF CanceledAfter
<1>4. ASSUME NEW i \in DOMAIN r, r[i] = Invite(u) PROVE CanceledAfter(r, i)
  <2>1. Len(q) + 1 > i
    BY <1>1, <1>2, <1>4
  <2> QED
    BY <1>1, <1>2, <2>1 DEF CanceledAfter
<1> QED
  BY <1>3, <1>4 DEF Warned, r

(* Who takes an invitation may wait now; who takes a cancel does not. *)
LEMMA WarnedTaken ==
  ASSUME NEW q \in Seq(Messages), q # <<>>, NEW u, NEW waits, NEW now, Warned(q, u, waits),
         now => waits \/ Head(q) = Invite(u),
         Head(q).type = "preinvite_cancel" => ~now
  PROVE  Warned(Tail(q), u, now)
<1> DEFINE t == Tail(q)
<1>1. /\ Len(t) \in Nat /\ DOMAIN t = 1 .. Len(t) /\ DOMAIN q = 1 .. Len(t) + 1
      /\ (\A i \in 1 .. Len(t) : t[i] = q[i + 1]) /\ Head(q) = q[1]
  BY OldestTaken
<1> HIDE DEF t
<1>2. ASSUME NEW i \in Nat, CanceledAfter(q, i + 1) PROVE CanceledAfter(t, i)
  <2>1. PICK k \in DOMAIN q : k > i + 1 /\ q[k].type = "preinvite_cancel"
    BY <1>2 DEF CanceledAfter
  <2>2. k - 1 \in 1 .. Len(t) /\ k - 1 > i /\ (k - 1) + 1 = k
    BY <1>1, <2>1
  <2>3. t[k - 1] = q[k]
    BY <1>1, <2>2
  <2> QED
    BY <1>1, <2>1, <2>2, <2>3 DEF CanceledAfter
<1>3. ASSUME NEW i \in DOMAIN t, t[i] = Invite(u) PROVE CanceledAfter(t, i)
  <2>1. i \in Nat /\ i \in 1 .. Len(t) /\ i + 1 \in DOMAIN q
    BY <1>1
  <2>2. q[i + 1] = Invite(u)
    BY <1>1, <1>3, <2>1
  <2> QED
    BY <1>2, <2>1, <2>2 DEF Warned
<1>4. now => CanceledAfter(t, 0)
  <2> SUFFICES ASSUME now PROVE CanceledAfter(t, 0)
    OBVIOUS
  <2>1. 1 \in DOMAIN q /\ 0 \in Nat /\ 0 + 1 = 1
    BY <1>1
  <2>2. CASE Head(q) = Invite(u)
    <3>1. CanceledAfter(q, 1)
      BY <1>1, <2>1, <2>2 DEF Warned
    <3> QED
      BY <1>2, <2>1, <3>1
  <2>3. CASE waits
    <3>1. PICK k \in DOMAIN q : k > 0 /\ q[k].type = "preinvite_cancel"
      BY <2>3 DEF Warned, CanceledAfter
    <3>2. k # 1
      BY <1>1, <3>1
    <3>3. k > 1
      BY <1>1, <3>1, <3>2
    <3>4. CanceledAfter(q, 1)
      BY <3>1, <3>3 DEF CanceledAfter
    <3> QED
      BY <1>2, <2>1, <3>4
  <2> QED
    BY <2>2, <2>3
<1> QED
  BY <1>3, <1>4 DEF Warned, t

(* Messages that are no invitation and no refusal do not count. *)
LEMMA ListedLess ==
  ASSUME NEW n \in Nat, NEW out \in Seq(Messages), NEW back \in Seq(Messages), NEW u,
         NEW waits, NEW now, Listed(n, out, back, u, waits), now => waits
  PROVE  Listed(n, out, back, u, now)
<1> DEFINE i == Times(Invite(u), out)
           j == Times(Response(u, FALSE), back)
           v == IF waits THEN 1 ELSE 0
           w == IF now THEN 1 ELSE 0
<1>1. i \in Nat /\ j \in Nat
  BY TimesNone
<1>2. v \in {0, 1} /\ w \in {0, 1} /\ w =< v
  OBVIOUS
<1>3. i + j + v =< n
  BY DEF Listed
<1>4. (i + j + w =< n) => Listed(n, out, back, u, now)
  BY DEF Listed
<1> HIDE DEF i, j, v, w
<1> QED
  BY <1>1, <1>2, <1>3, <1>4

LEMMA ListedSent ==
  ASSUME NEW n \in Nat, NEW out \in Seq(Messages), NEW back \in Seq(Messages), NEW u,
         NEW waits, NEW now, Listed(n, out, back, u, waits), now => waits, NEW x \in Messages
  PROVE  /\ x # Invite(u) => Listed(n, Append(out, x), back, u, now)
         /\ x = Invite(u) => Listed(n + 1, Append(out, x), back, u, now)
         /\ x # Response(u, FALSE) => Listed(n, out, Append(back, x), u, now)
<1> DEFINE i == Times(Invite(u), out)
           k == Times(Invite(u), Append(out, x))
           w == IF now THEN 1 ELSE 0
<1>1. Listed(n, out, back, u, now) /\ i \in Nat /\ Times(Response(u, FALSE), back) \in Nat
  BY ListedLess, TimesNone
<1>2. (x = Invite(u) => k = i + 1) /\ (x # Invite(u) => k = i)
  BY TimesSent
<1>3. x # Response(u, FALSE) =>
        Times(Response(u, FALSE), Append(back, x)) = Times(Response(u, FALSE), back)
  BY TimesSent
<1>4. x # Invite(u) => Listed(n, Append(out, x), back, u, now)
  BY <1>1, <1>2 DEF Listed
<1>5. x # Response(u, FALSE) => Listed(n, out, Append(back, x), u, now)
  BY <1>1, <1>3 DEF Listed
<1>6. x = Invite(u) => Listed(n + 1, Append(out, x), back, u, now)
  <2> DEFINE j == Times(Response(u, FALSE), back)
  <2>1. i + j + w =< n
    BY <1>1 DEF Listed
  <2>2. (k + j + w =< n + 1) => Listed(n + 1, Append(out, x), back, u, now)
    BY DEF Listed
  <2>3. w \in {0, 1} /\ j \in Nat
    BY <1>1
  <2> HIDE DEF i, j, k, w
  <2> QED
    BY <1>1, <1>2, <2>1, <2>2, <2>3
<1> QED
  BY <1>4, <1>5, <1>6

LEMMA ListedTaken ==
  ASSUME NEW n \in Nat, NEW out \in Seq(Messages), NEW back \in Seq(Messages), NEW u,
         NEW waits, NEW now, Listed(n, out, back, u, waits), now => waits
  PROVE  /\ out # <<>> => Listed(n, Tail(out), back, u, now)
         /\ back # <<>> => Listed(n, out, Tail(back), u, now)
         /\ back # <<>> /\ Head(back) = Response(u, FALSE) =>
              n # 0 /\ Listed(n - 1, out, Tail(back), u, now)
<1> DEFINE i == Times(Invite(u), out)
           j == Times(Response(u, FALSE), back)
           w == IF now THEN 1 ELSE 0
<1>1. Listed(n, out, back, u, now)
  BY ListedLess
<1>2. i \in Nat /\ j \in Nat /\ w \in {0, 1}
  BY TimesNone
<1>3. i + j + w =< n
  BY <1>1 DEF Listed
<1>4. ASSUME out # <<>> PROVE Listed(n, Tail(out), back, u, now)
  <2> DEFINE k == Times(Invite(u), Tail(out))
  <2>1. k \in Nat /\ (i = k + 1 \/ i = k)
    BY <1>4, TimesTaken
  <2>2. (k + j + w =< n) => Listed(n, Tail(out), back, u, now)
    BY DEF Listed
  <2> HIDE DEF i, j, k, w
  <2> QED
    BY <1>2, <1>3, <2>1, <2>2
<1>5. ASSUME back # <<>>
      PROVE  /\ Listed(n, out, Tail(back), u, now)
             /\ Head(back) = Response(u, FALSE) => n # 0 /\ Listed(n - 1, out, Tail(back), u, now)
  <2> DEFINE k == Times(Response(u, FALSE), Tail(back))
  <2>1. k \in Nat /\ (j = k + 1 \/ j = k) /\ (Head(back) = Response(u, FALSE) => j = k + 1)
    BY <1>5, TimesTaken
  <2>2. (i + k + w =< n) => Listed(n, out, Tail(back), u, now)
    BY DEF Listed
  <2>3. (i + k + w =< n - 1) => Listed(n - 1, out, Tail(back), u, now)
    BY DEF Listed
  <2> HIDE DEF i, j, k, w
  <2>4. i + k + w =< n
    BY <1>2, <1>3, <2>1
  <2>5. j = k + 1 => n # 0 /\ i + k + w =< n - 1
    BY <1>2, <1>3, <2>1
  <2> QED
    BY <2>1, <2>2, <2>3, <2>4, <2>5
<1> QED
  BY <1>4, <1>5

(* An invitation that was counted becomes a guest, or a refusal. *)
LEMMA ListedAnswered ==
  ASSUME NEW n \in Nat, NEW out \in Seq(Messages), NEW back \in Seq(Messages), NEW u,
         NEW waits, NEW now, Listed(n, out, back, u, waits),
         out # <<>>, Head(out) = Invite(u), NEW accepted \in BOOLEAN,
         Response(u, accepted) \in Messages, ~accepted => (now => waits)
  PROVE  Listed(n, Tail(out), Append(back, Response(u, accepted)), u, now)
<1> DEFINE i == Times(Invite(u), out)
           j == Times(Response(u, FALSE), back)
           v == IF waits THEN 1 ELSE 0
           w == IF now THEN 1 ELSE 0
           k == Times(Invite(u), Tail(out))
           l == Times(Response(u, FALSE), Append(back, Response(u, accepted)))
<1>1. i \in Nat /\ j \in Nat
  BY TimesNone
<1>7. v \in {0, 1} /\ w \in {0, 1} /\ (~accepted => w =< v)
  OBVIOUS
<1>2. i + j + v =< n
  BY DEF Listed
<1>3. k \in Nat /\ i = k + 1
  BY TimesTaken
<1>4. accepted => l = j
  <2>1. accepted => Response(u, accepted) # Response(u, FALSE)
    BY DEF Response
  <2> QED
    BY <2>1, TimesSent
<1>5. ~accepted => l = j + 1
  <2>1. ~accepted => Response(u, accepted) = Response(u, FALSE)
    BY DEF Response
  <2> QED
    BY <2>1, TimesSent
<1>6. (k + l + w =< n) => Listed(n, Tail(out), Append(back, Response(u, accepted)), u, now)
  BY DEF Listed
<1> HIDE DEF i, j, k, l, v, w
<1> QED
  BY <1>1, <1>2, <1>3, <1>4, <1>5, <1>6, <1>7
-----------------------------------------------------------------------------
(* What a host owes its guests, from step to step. *)
(* The groups p has ended before their search began. *)
Ending(p) == dropped[p] \ begun[p]

LEMMA GuestNow ==
  ASSUME Inv, GuestInv, NEW p \in Players, NEW q \in Players
  PROVE  /\ net \in Net /\ p \in Parties /\ q \in Parties /\ Service \in Parties
         /\ p # Service /\ q # Service
         /\ net[p][q] \in Seq(Messages) /\ net[q][p] \in Seq(Messages)
         /\ pre[p] \in (1 .. opened) \cup {NULL} /\ pre[q] \in (1 .. opened) \cup {NULL}
         /\ group[p] = NULL \/ group[p] \in Seq(Members(p))
         /\ Entries(q, group[p]) \in Nat
         /\ opened \in Nat /\ 1 .. opened \in SUBSET Uids /\ Uids \in SUBSET Nat /\ NULL \notin Uids
         /\ dropped \in [Players -> SUBSET (1 .. opened)] /\ dropped[p] \in SUBSET (1 .. opened)
         /\ begun \in [Players -> SUBSET (1 .. opened)]
         /\ pre[p] \notin dropped[p] /\ uid[p] \in begun[p] \cup {NULL}
         /\ p # q => Hosted(p, q)
<1>1. /\ net \in Net /\ p \in Parties /\ q \in Parties /\ Service \in Parties
      /\ p # Service /\ q # Service
  BY Constants DEF Inv, TypeOK
<1>2. net[p][q] \in Seq(Messages) /\ net[q][p] \in Seq(Messages)
  BY <1>1 DEF Net
<1>3. group[p] = NULL \/ group[p] \in Seq(Members(p))
  BY DEF Inv, TypeOK, SessionOK
<1>4. Entries(q, group[p]) \in Nat
  BY <1>3, EntriesMade
<1>5. opened \in Nat /\ 1 .. opened \in SUBSET Uids /\ Uids \in SUBSET Nat /\ NULL \notin Uids
  BY QuickplayAssumption, Constants DEF Inv, TypeOK, CountsOK, Uids
<1>6. /\ dropped \in [Players -> SUBSET (1 .. opened)] /\ dropped[p] \in SUBSET (1 .. opened)
      /\ pre[p] \in (1 .. opened) \cup {NULL} /\ pre[q] \in (1 .. opened) \cup {NULL}
      /\ begun \in [Players -> SUBSET (1 .. opened)]
  BY DEF GuestInv, UidsOpened
<1>7. pre[p] \notin dropped[p] /\ uid[p] \in begun[p] \cup {NULL} /\ (p # q => Hosted(p, q))
  BY DEF GuestInv
<1> QED
  BY <1>1, <1>2, <1>3, <1>4, <1>5, <1>6, <1>7

(* What a step may do to a group of p, to what q waits for, and to what is    *)
(* under way from p to q and back, when it settles nothing between the two.  *)
GroupSame(p, q) ==
  \/ pre'[p] = NULL
  \/ master'[p] # NULL
  \/ /\ pre'[p] = pre[p] /\ master'[p] = master[p]
     /\ Entries(q, group'[p]) = Entries(q, group[p])

WaitsSame(q, p) == \A u \in 1 .. opened : WaitsFor(q, p, u)' => WaitsFor(q, p, u)

OutSame(p, q) ==
  \/ net'[p][q] = net[p][q]
  \/ \E x \in Messages : x.type # "preinvite_invite" /\ net'[p][q] = Append(net[p][q], x)
  \/ /\ net[p][q] # <<>> /\ net'[p][q] = Tail(net[p][q])
     /\ Head(net[p][q]).type = "preinvite_cancel" => \A u \in 1 .. opened : ~ WaitsFor(q, p, u)'

BackSame(q, p) ==
  \/ net'[q][p] = net[q][p]
  \/ \E x \in Messages : (\A u : x # Response(u, FALSE)) /\ net'[q][p] = Append(net[q][p], x)
  \/ net[q][p] # <<>> /\ net'[q][p] = Tail(net[q][p])

(* Nothing is counted twice, nobody waits anew, and no cancel is lost. *)
LEMMA HostedKept ==
  ASSUME Inv, GuestInv, NEW p \in Players, NEW q \in Players \ {p},
         Ending(p)' \in SUBSET Ending(p),
         GroupSame(p, q), WaitsSame(q, p), OutSame(p, q), BackSame(q, p)
  PROVE  Hosted(p, q)'
<1> DEFINE out == net[p][q]
           back == net[q][p]
<1>1. /\ out \in Seq(Messages) /\ back \in Seq(Messages) /\ Entries(q, group[p]) \in Nat
      /\ pre[p] \in (1 .. opened) \cup {NULL} /\ dropped[p] \in SUBSET (1 .. opened) /\ Hosted(p, q)
      /\ NULL \notin 1 .. opened
  BY GuestNow
<1>2. ASSUME NEW u \in Ending(p)' PROVE Warned(net'[p][q], u, WaitsFor(q, p, u)')
  <2>1. u \in 1 .. opened /\ Warned(out, u, WaitsFor(q, p, u)) /\ (WaitsFor(q, p, u)' => WaitsFor(q, p, u))
    <3>1. u \in dropped[p] \ begun[p]
      BY <1>2 DEF Ending
    <3> QED
      BY <1>1, <3>1 DEF Hosted, WaitsSame
  <2> DEFINE waits == WaitsFor(q, p, u)
             now == WaitsFor(q, p, u)'
  <2>2. CASE net'[p][q] = out
    BY <2>1, <2>2 DEF Warned
  <2>3. CASE \E x \in Messages : x.type # "preinvite_invite" /\ net'[p][q] = Append(out, x)
    <3>1. PICK x \in Messages : x.type # "preinvite_invite" /\ net'[p][q] = Append(out, x)
      BY <2>3
    <3>2. x # Invite(u)
      BY <3>1 DEF Invite
    <3>3. Warned(out, u, waits) /\ (now => waits)
      BY <2>1
    <3> HIDE DEF out, waits, now
    <3>4. Warned(Append(out, x), u, now)
      BY <1>1, <3>2, <3>3, WarnedSent
    <3> QED
      BY <3>1, <3>4 DEF now
  <2>4. CASE /\ out # <<>> /\ net'[p][q] = Tail(out)
             /\ Head(out).type = "preinvite_cancel" => \A v \in 1 .. opened : ~ WaitsFor(q, p, v)'
    <3>1. Warned(out, u, waits) /\ (now => waits) /\ (Head(out).type = "preinvite_cancel" => ~now)
      BY <2>1, <2>4
    <3> HIDE DEF out, waits, now
    <3>2. Warned(Tail(out), u, now)
      BY <1>1, <2>4, <3>1, WarnedTaken
    <3> QED
      BY <2>4, <3>2 DEF now
  <2> QED
    BY <2>2, <2>3, <2>4 DEF OutSame
<1>3. ASSUME pre'[p] # NULL, master'[p] = NULL
      PROVE  Listed(Entries(q, group'[p]), net'[p][q], net'[q][p], pre'[p], WaitsFor(q, p, pre[p])')
  <2> DEFINE n == Entries(q, group[p])
             u == pre[p]
             waits == WaitsFor(q, p, u)
             now == WaitsFor(q, p, pre[p])'
  <2>1. pre'[p] = u /\ master[p] = NULL /\ u \in 1 .. opened /\ Entries(q, group'[p]) = n
    BY <1>1, <1>3 DEF GroupSame
  <2>2. Listed(n, out, back, u, waits) /\ (now => waits)
    <3>1. Listed(n, out, back, u, waits)
      <4>1. pre[p] # NULL /\ master[p] = NULL
        BY <1>3, <2>1
      <4> QED
        BY <1>1, <4>1 DEF Hosted
    <3>2. WaitsFor(q, p, pre[p])' => WaitsFor(q, p, u)'
      BY <2>1 DEF WaitsFor
    <3>3. WaitsFor(q, p, u)' => WaitsFor(q, p, u)
      BY <2>1 DEF WaitsSame
    <3> QED
      BY <3>1, <3>2, <3>3
  <2> HIDE DEF n, u, waits, now, out, back
  <2>3. n \in Nat /\ out \in Seq(Messages) /\ back \in Seq(Messages)
    BY <1>1 DEF n
  <2>4. Listed(n, net'[p][q], back, u, now) /\ net'[p][q] \in Seq(Messages)
    <3>1. CASE net'[p][q] = out
      BY <2>2, <2>3, <3>1, ListedLess
    <3>2. ASSUME NEW x \in Messages, x.type # "preinvite_invite", net'[p][q] = Append(out, x)
          PROVE  Listed(n, net'[p][q], back, u, now) /\ net'[p][q] \in Seq(Messages)
      <4>1. x # Invite(u)
        BY <3>2 DEF Invite
      <4>2. Listed(n, Append(out, x), back, u, now)
        BY <2>2, <2>3, <4>1, ListedSent
      <4>3. Append(out, x) \in Seq(Messages)
        BY <2>3
      <4> QED
        BY <3>2, <4>2, <4>3
    <3>3. CASE out # <<>> /\ net'[p][q] = Tail(out)
      <4>1. Listed(n, Tail(out), back, u, now) /\ Tail(out) \in Seq(Messages)
        BY <2>2, <2>3, <3>3, ListedTaken, OldestTaken
      <4> QED
        BY <3>3, <4>1
    <3> QED
      BY <3>1, <3>2, <3>3 DEF out, OutSame
  <2> DEFINE sent == net'[p][q]
  <2> HIDE DEF sent
  <2>5. Listed(n, sent, net'[q][p], u, now)
    <3>1. Listed(n, sent, back, u, now) /\ sent \in Seq(Messages)
      BY <2>4 DEF sent
    <3>2. CASE net'[q][p] = back
      BY <3>1, <3>2
    <3>3. ASSUME NEW x \in Messages, \A v : x # Response(v, FALSE), net'[q][p] = Append(back, x)
          PROVE  Listed(n, sent, net'[q][p], u, now)
      <4>1. Listed(n, sent, Append(back, x), u, now)
        BY <2>3, <3>1, <3>3, ListedSent
      <4> QED
        BY <3>3, <4>1
    <3>4. CASE back # <<>> /\ net'[q][p] = Tail(back)
      <4>1. Listed(n, sent, Tail(back), u, now)
        BY <2>3, <3>1, <3>4, ListedTaken
      <4> QED
        BY <3>4, <4>1
    <3> QED
      BY <3>2, <3>3, <3>4 DEF back, BackSame
  <2> QED
    BY <2>1, <2>5 DEF sent, now
<1> QED
  BY <1>2, <1>3 DEF Hosted, Ending

(* Steps that send nothing from client to client, and that change no group   *)
(* but to forget it.                                                         *)
Untouched(queues) == queues \in Net /\ \A s, r \in Players : queues[s][r] = net[s][r]

LEMMA UntouchedNet == ASSUME Inv PROVE Untouched(net)
BY DEF Inv, TypeOK, Untouched

LEMMA UntouchedTaken ==
  ASSUME Inv, NEW a \in Parties, NEW b \in Parties, a = Service \/ b = Service,
         NEW type, Receives(a, b, type)
  PROVE  Untouched(Taken(a, b))
<1>1. /\ Taken(a, b) \in Net
      /\ \A x, y \in Parties :
           Taken(a, b)[x][y] = IF x = a /\ y = b THEN Tail(net[a][b]) ELSE net[x][y]
  BY QueueTaken DEF Inv, TypeOK
<1>2. \A s \in Players : s \in Parties /\ s # Service
  BY Constants
<1> QED
  BY <1>1, <1>2 DEF Untouched

LEMMA UntouchedSent ==
  ASSUME NEW queues, Untouched(queues), NEW a \in Parties, NEW rs, a = Service \/ rs = {Service},
         NEW m \in Messages
  PROVE  Untouched(SentTo(queues, a, rs, m))
<1>1. queues \in Net
  BY DEF Untouched
<1>2. SentTo(queues, a, rs, m) \in Net
  BY <1>1, SentToCarries
<1>3. \A x \in Players : x \in Parties /\ x # Service
  BY Constants
<1>4. ASSUME NEW s \in Players, NEW r \in Players
      PROVE  SentTo(queues, a, rs, m)[s][r] = net[s][r]
  <2>1. s \in Parties /\ r \in Parties /\ (s # a \/ r \notin rs)
    BY <1>3
  <2>2. SentTo(queues, a, rs, m)[s][r] = queues[s][r]
    BY <1>1, <2>1, QueueApart
  <2> QED
    BY <2>2 DEF Untouched
<1> QED
  BY <1>2, <1>4 DEF Untouched

Alone(x) ==
  \/ pre'[x] = NULL
  \/ /\ pre'[x] = pre[x] /\ master'[x] = master[x]
     /\ \A q \in Players : Entries(q, group'[x]) = Entries(q, group[x])

(* Of the searches a player has heard of, it may have heard one more. *)
Heard(x) ==
  begun[x] \subseteq begun'[x] /\ begun'[x] \subseteq 1 .. opened /\ uid'[x] \in begun'[x] \cup {NULL}

LEMMA AloneGuests ==
  ASSUME Inv, GuestInv, Inv', opened' = opened, dropped' = dropped,
         Untouched(net'), \A x \in Players : Alone(x),
         begun' \in [Players -> SUBSET Nat], \A x \in Players : Heard(x)
  PROVE  GuestInv'
<1>1. UidsOpened'
  <2>1. \A x \in Players : pre'[x] \in (1 .. opened') \cup {NULL}
    BY DEF Alone, GuestInv, UidsOpened
  <2>2. \A s, r \in Players : \A m \in Range(net'[s][r]) : m.uid \in 1 .. opened'
    BY DEF Untouched, GuestInv, UidsOpened
  <2>3. begun' \in [Players -> SUBSET (1 .. opened')]
    BY DEF Heard
  <2> QED
    BY <2>1, <2>2, <2>3 DEF GuestInv, UidsOpened
<1>2. ASSUME NEW p \in Players PROVE pre'[p] \notin dropped'[p] /\ uid'[p] \in begun'[p] \cup {NULL}
  BY GuestNow DEF Alone, Heard
<1>3. ASSUME NEW p \in Players, NEW q \in Players \ {p} PROVE Hosted(p, q)'
  <2>1. GroupSame(p, q) /\ Ending(p)' \in SUBSET Ending(p)
    BY DEF Alone, GroupSame, Heard, Ending
  <2>2. WaitsSame(q, p)
    <3>1. NULL \notin 1 .. opened
      BY GuestNow
    <3> QED
      BY <3>1 DEF Alone, WaitsSame, WaitsFor
  <2>3. OutSame(p, q) /\ BackSame(q, p)
    BY DEF Untouched, OutSame, BackSame
  <2> QED
    BY <2>1, <2>2, <2>3, HostedKept
<1> QED
  BY <1>1, <1>2, <1>3 DEF GuestInv

(* The session is forgotten, or stays as it is. *)
LEMMA ForgottenAlone ==
  ASSUME Inv, GuestInv, NEW p \in Players, Forgotten(p) \/ UNCHANGED <<pre, uid, group, master>>,
         begun' = begun
  PROVE  /\ \A x \in Players : Alone(x) /\ Heard(x)
         /\ begun' \in [Players -> SUBSET Nat]
<1>0. begun' \in [Players -> SUBSET Nat]
  BY GuestNow
<1> SUFFICES \A x \in Players : Alone(x) /\ Heard(x)
  BY <1>0
<1>3. \A x \in Players : begun[x] \subseteq 1 .. opened /\ uid[x] \in begun[x] \cup {NULL}
  BY GuestNow
<1>1. CASE Forgotten(p)
  <2>1. pre'[p] = NULL /\ \A x \in Players : uid'[x] \in {uid[x], NULL}
    BY <1>1 DEF Forgotten, Inv, TypeOK, SessionOK
  <2>2. \A x \in Players \ {p} : pre'[x] = pre[x] /\ master'[x] = master[x] /\ group'[x] = group[x]
    BY <1>1 DEF Forgotten, Inv, TypeOK, SessionOK
  <2> QED
    BY <1>3, <2>1, <2>2 DEF Alone, Heard
<1>2. CASE UNCHANGED <<pre, uid, group, master>>
  BY <1>2, <1>3 DEF Alone, Heard
<1> QED
  BY <1>1, <1>2

LEMMA StayedAlone ==
  ASSUME Inv, GuestInv, UNCHANGED <<pre, uid, group, master>>, begun' = begun
  PROVE  /\ \A x \in Players : Alone(x) /\ Heard(x)
         /\ begun' \in [Players -> SUBSET Nat]
<1>1. begun' \in [Players -> SUBSET Nat]
  BY DEF GuestInv, UidsOpened
<1>2. ASSUME NEW x \in Players PROVE Alone(x) /\ Heard(x)
  <2>1. begun[x] \subseteq 1 .. opened /\ uid[x] \in begun[x] \cup {NULL}
    BY GuestNow
  <2> QED
    BY <2>1 DEF Alone, Heard
<1> QED
  BY <1>1, <1>2

LEMMA StartGuests ==
  ASSUME Inv, GuestInv, Inv', NEW p \in Players, Start(p)
  PROVE  GuestInv'
<1>1. pre[p] \in Uids /\ (group[p] = NULL \/ group[p] \in Seq(Members(p)))
  BY DEF Start, Inv, TypeOK, SessionOK
<1>2. Untouched(net')
  <2> DEFINE m == Search(pre[p], Accepted(group[p]), 0)
  <2>1. m \in Messages
    <3>1. Accepted(group[p]) \in SUBSET Players
      BY <1>1, AcceptedAreOthers
    <3> QED
      BY <1>1, <3>1, MessagesMade
  <2>2. net' = SentTo(net, p, {Service}, m)
    BY DEF Start
  <2> HIDE DEF m
  <2> QED
    BY <2>1, <2>2, UntouchedNet, UntouchedSent, Constants
<1>3. ASSUME NEW x \in Players PROVE Alone(x)
  <2>1. pre' = pre /\ master' = master /\ group' = [group EXCEPT ![p] = Made(@)]
    BY DEF Start
  <2>2. CASE x = p
    <3>1. group'[p] = Made(group[p])
      BY <2>1 DEF Inv, TypeOK, SessionOK
    <3>2. \A q \in Players : Entries(q, Made(group[p])) = Entries(q, group[p])
      BY <1>1, EntriesMade
    <3> QED
      BY <2>1, <2>2, <3>1, <3>2 DEF Alone
  <2>3. CASE x # p
    BY <2>1, <2>3 DEF Alone, Inv, TypeOK, SessionOK
  <2> QED
    BY <2>2, <2>3
<1>4. opened' = opened /\ dropped' = dropped /\ begun' = begun /\ uid' = uid
  BY DEF Start, Command, history, opens
<1>5. begun' \in [Players -> SUBSET Nat] /\ \A x \in Players : Heard(x)
  BY <1>4, GuestNow DEF Heard
<1> QED
  BY <1>2, <1>3, <1>4, <1>5, AloneGuests

LEMMA RoomChangedGuests ==
  ASSUME Inv, GuestInv, Inv', NEW p \in Players, RoomChanged(p)
  PROVE  GuestInv'
<1>1. opened' = opened /\ dropped' = dropped /\ begun' = begun /\ net' = net /\ Forgotten(p)
  BY DEF RoomChanged, Command, history, opens
<1> QED
  BY <1>1, UntouchedNet, ForgottenAlone, AloneGuests

(* What the service tells a client, and what the client asks of it. *)
LEMMA ToldGuests ==
  ASSUME Inv, GuestInv, Inv', NEW p \in Players,
         \/ Started(p) \/ Offer(p) \/ Succeeded(p) \/ Canceled(p) \/ Joined(p)
         \/ MissionExpired(p) \/ MissionsUpdated(p)
  PROVE  GuestInv'
<1> DEFINE u == Head(net[Service][p]).uid
<1>1. PICK type \in {"started", "offer", "succeeded", "canceled", "joined", "expired", "missions"} :
        Told(p, type)
  BY DEF Started, Offer, Succeeded, Canceled, Joined, MissionExpired, MissionsUpdated
<1>2. opened' = opened /\ dropped' = dropped /\ Receives(Service, p, type)
  BY <1>1 DEF Told, Handler, opens
<1>3. p \in Parties /\ Service \in Parties
  BY Constants
<1>4. Untouched(Taken(Service, p)) /\ u \in Uids
  BY <1>1, <1>2, <1>3, UntouchedTaken, Received
<1>5. Untouched(net')
  <2>1. \/ net' = Taken(Service, p)
        \/ \E m \in Messages : net' = SentTo(Taken(Service, p), p, {Service}, m)
    <3>1. CASE Started(p) \/ Succeeded(p) \/ Canceled(p) \/ Joined(p)
      BY <3>1 DEF Started, Succeeded, Canceled, Joined
    <3>2. CASE Offer(p)
      <4>1. \A b \in BOOLEAN : OfferResponse(u, b) \in Messages
        BY <1>4, MessagesMade
      <4>2. \E b \in BOOLEAN : net' = SentTo(Taken(Service, p), p, {Service}, OfferResponse(u, b))
        BY <3>2 DEF Offer
      <4> QED
        BY <4>1, <4>2
    <3>3. CASE MissionExpired(p)
      <4>1. Notice("missions", u) \in Messages
        BY <1>4, MessagesMade
      <4> QED
        BY <3>3, <4>1 DEF MissionExpired
    <3>4. CASE MissionsUpdated(p)
      <4>1. Accepted(group[p]) \in SUBSET Players
        BY AcceptedAreOthers DEF Inv, TypeOK, SessionOK
      <4>2. Search(u, Accepted(group[p]), 1) \in Messages
        BY <1>4, <4>1, MessagesMade
      <4> QED
        BY <3>4, <4>2 DEF MissionsUpdated
    <3> QED
      BY <3>1, <3>2, <3>3, <3>4
  <2> QED
    BY <1>3, <1>4, <2>1, UntouchedSent
<1>6. (\A x \in Players : Alone(x) /\ Heard(x)) /\ begun' \in [Players -> SUBSET Nat]
  <2>1. CASE Started(p)
    <3>1. group' = group /\ master' = master
      BY <2>1 DEF Started
    <3>2. \A x \in Players : pre'[x] = pre[x] \/ pre'[x] = NULL
      BY <2>1 DEF Started, Inv, TypeOK, SessionOK
    <3>3. \A x \in Players : begun[x] \subseteq 1 .. opened /\ uid[x] \in begun[x] \cup {NULL}
                             /\ (pre[x] = u => u \in 1 .. opened)
      BY <1>4, GuestNow
    <3>4. begun \in [Players -> SUBSET Nat] /\ uid \in [Players -> Uids \cup {NULL}] /\ u \in Nat
      BY <1>4, GuestNow DEF Inv, TypeOK, SessionOK
    <3>5. \/ uid' = uid /\ begun' = begun
          \/ /\ pre[p] = u /\ uid' = [uid EXCEPT ![p] = u]
             /\ begun' = [begun EXCEPT ![p] = @ \cup {u}]
      BY <2>1 DEF Started
    <3> HIDE DEF u
    <3>6. (\A x \in Players : Heard(x)) /\ begun' \in [Players -> SUBSET Nat]
      BY <3>3, <3>4, <3>5 DEF Heard
    <3> QED
      BY <3>1, <3>2, <3>6 DEF Alone
  <2>2. CASE Offer(p) \/ Succeeded(p) \/ Canceled(p) \/ Joined(p) \/ MissionExpired(p) \/ MissionsUpdated(p)
    <3>1. begun' = begun /\ (Forgotten(p) \/ UNCHANGED <<pre, uid, group, master>>)
      BY <2>2 DEF Offer, Succeeded, Canceled, Joined, MissionExpired, MissionsUpdated, session, groups
    <3> QED
      BY <3>1, ForgottenAlone
  <2> QED
    BY <2>1, <2>2
<1> QED
  BY <1>2, <1>5, <1>6, AloneGuests

(* The service changes no client's session. *)
LEMMA ServiceGuests ==
  ASSUME Inv, GuestInv, Inv', Serves, Untouched(net')
  PROVE  GuestInv'
<1>1. /\ opened' = opened /\ dropped' = dropped /\ begun' = begun
      /\ UNCHANGED <<pre, uid, group, master>>
  BY DEF Serves, session, groups, history, opens
<1>2. (\A x \in Players : Alone(x) /\ Heard(x)) /\ begun' \in [Players -> SUBSET Nat]
  BY <1>1, StayedAlone
<1> QED
  BY <1>1, <1>2, AloneGuests

LEMMA HeardGuests ==
  ASSUME Inv, GuestInv, Inv', NEW p \in Players,
         MissionsAsked(p) \/ SearchRequested(p) \/ SearchCanceled(p) \/ OfferAnswered(p)
  PROVE  GuestInv'
<1> DEFINE m == Head(net[p][Service])
<1>1. PICK type \in {"missions", "quickplay", "quickplay_cancel", "offer_response"} :
        Receives(p, Service, type)
  <2>1. CASE MissionsAsked(p)
    <3>1. Receives(p, Service, "missions")
      BY <2>1 DEF MissionsAsked
    <3> QED
      BY <3>1
  <2>2. CASE SearchRequested(p)
    <3>1. Receives(p, Service, "quickplay")
      BY <2>2 DEF SearchRequested
    <3> QED
      BY <3>1
  <2>3. CASE SearchCanceled(p)
    <3>1. Receives(p, Service, "quickplay_cancel")
      BY <2>3 DEF SearchCanceled
    <3> QED
      BY <3>1
  <2>4. CASE OfferAnswered(p)
    <3>1. Receives(p, Service, "offer_response")
      BY <2>4 DEF OfferAnswered
    <3> QED
      BY <3>1
  <2> QED
    BY <2>1, <2>2, <2>3, <2>4
<1>2. Serves
  BY Zenon DEF MissionsAsked, SearchRequested, SearchCanceled, OfferAnswered
<1>3. p \in Parties /\ Service \in Parties
  BY Constants
<1>4. Untouched(Taken(p, Service)) /\ m \in Messages /\ m.type = type
      /\ (type # "quickplay_cancel" => m.uid \in Uids)
  BY <1>1, <1>3, UntouchedTaken, Received
<1>5. \/ net' = Taken(p, Service)
      \/ \E rs, n : n \in Messages /\ net' = SentTo(Taken(p, Service), Service, rs, n)
  <2>1. CASE MissionsAsked(p)
    <3> DEFINE whom == {p}
    <3>1. net' = SentTo(Taken(p, Service), Service, whom, m)
      BY <2>1 DEF MissionsAsked
    <3> HIDE DEF whom, m
    <3> QED
      BY <1>4, <3>1
  <2>2. CASE SearchRequested(p)
    <3>1. m.uid \in Uids
      BY <1>4, <2>2 DEF SearchRequested, Receives
    <3>2. Notice("started", m.uid) \in Messages /\ Notice("expired", m.uid) \in Messages
      BY <3>1, MessagesMade
    <3> DEFINE all == {p} \cup m.with
               whom == {p}
    <3>3. \/ net' = Taken(p, Service)
          \/ net' = SentTo(Taken(p, Service), Service, all, Notice("started", m.uid))
          \/ net' = SentTo(Taken(p, Service), Service, whom, Notice("expired", m.uid))
      BY <2>2 DEF SearchRequested
    <3> HIDE DEF all, whom, m
    <3> QED
      BY <3>2, <3>3
  <2>3. CASE SearchCanceled(p)
    <3> DEFINE theirs == {u \in Uids : p \in searches[u]}
               u == CHOOSE v \in theirs : TRUE
    <3>1. CASE theirs = {}
      BY <2>3, <3>1 DEF SearchCanceled
    <3>2. CASE theirs # {}
      <4>1. u \in theirs
        BY <3>2
      <4>2. Notice("canceled", u) \in Messages
        <5>1. u \in Uids
          BY <4>1
        <5> HIDE DEF u
        <5> QED
          BY <5>1, MessagesMade
      <4>3. net' = SentTo(Taken(p, Service), Service, searches[u], Notice("canceled", u))
        BY <2>3, <3>2 DEF SearchCanceled
      <4> HIDE DEF u
      <4> QED
        BY <4>2, <4>3
    <3> QED
      BY <3>1, <3>2
  <2>4. CASE OfferAnswered(p)
    <3>1. m.uid \in Uids
      BY <1>4, <2>4 DEF OfferAnswered, Receives
    <3>2. Notice("joined", m.uid) \in Messages
      BY <3>1, MessagesMade
    <3> QED
      BY <2>4, <3>2 DEF OfferAnswered
  <2> QED
    BY <2>1, <2>2, <2>3, <2>4
<1>6. Untouched(net')
  BY <1>3, <1>4, <1>5, UntouchedSent
<1> QED
  BY <1>2, <1>6, ServiceGuests

LEMMA MatchGuests ==
  ASSUME Inv, GuestInv, Inv', NEW u \in Uids, Match(u)
  PROVE  GuestInv'
<1>1. PICK bare \in BOOLEAN :
        Serves /\ net' = SentTo(SentTo(net, Service, searches[u], Proposal(u, bare)),
                                Service, searches[u], Notice("succeeded", u))
  BY QuickplayAssumption DEF Match
<1>2. Proposal(u, bare) \in Messages /\ Notice("succeeded", u) \in Messages /\ Service \in Parties
  BY MessagesMade, Constants
<1> DEFINE told == SentTo(net, Service, searches[u], Proposal(u, bare))
<1>3. Untouched(told)
  BY <1>2, UntouchedNet, UntouchedSent
<1> HIDE DEF told
<1>4. Untouched(SentTo(told, Service, searches[u], Notice("succeeded", u)))
  BY <1>2, <1>3, UntouchedSent
<1> QED
  BY <1>1, <1>4, ServiceGuests DEF told

LEMMA OpeningGuests ==
  ASSUME Inv, GuestInv, Inv', NEW p \in Players, Opening(p)
  PROVE  GuestInv'
<1>1. /\ opened' = opened /\ dropped' = dropped /\ begun' = begun /\ net' = net
      /\ UNCHANGED <<pre, uid, group, master>>
  BY DEF Opening, session, groups, history
<1>2. (\A x \in Players : Alone(x) /\ Heard(x)) /\ begun' \in [Players -> SUBSET Nat]
  BY <1>1, StayedAlone
<1> QED
  BY <1>1, <1>2, UntouchedNet, AloneGuests

(* A new group has no guests, and nothing is under way about it. *)
LEMMA OpenGuests ==
  ASSUME Inv, GuestInv, Inv', NEW p \in Players, Open(p)
  PROVE  GuestInv'
<1> DEFINE new == opened + 1
<1>1. /\ opened' = new /\ net' = net /\ group' = group /\ master' = master /\ dropped' = dropped
      /\ pre'[p] = new /\ \A x \in Players \ {p} : pre'[x] = pre[x]
      /\ begun' = begun /\ uid' = uid
  BY DEF Open, Inv, TypeOK, SessionOK
<1>2. /\ opened \in Nat /\ new \in 1 .. new /\ new \notin 1 .. opened
      /\ 1 .. opened \subseteq 1 .. new /\ NULL \notin 1 .. new
  <2>1. opened' \in 0 .. MaxUid /\ MaxUid \in Nat
    BY Constants DEF Inv, TypeOK, CountsOK
  <2>2. 1 .. new \in SUBSET Uids
    BY <1>1, <2>1 DEF Uids
  <2> QED
    BY <1>1, <2>2, GuestNow, Constants
<1> HIDE DEF new
<1>3. UidsOpened'
  BY <1>1, <1>2 DEF GuestInv, UidsOpened
<1>4. ASSUME NEW x \in Players PROVE pre'[x] \notin dropped'[x] /\ uid'[x] \in begun'[x] \cup {NULL}
  <2>1. /\ dropped[x] \in SUBSET (1 .. opened) /\ pre[x] \notin dropped[x]
        /\ uid[x] \in begun[x] \cup {NULL}
    BY GuestNow
  <2> QED
    BY <1>1, <1>2, <2>1
<1>5. ASSUME NEW x \in Players, NEW y \in Players \ {x} PROVE Hosted(x, y)'
  <2>1. CASE x # p
    <3>1. /\ GroupSame(x, y) /\ OutSame(x, y) /\ BackSame(y, x)
          /\ Ending(x)' \in SUBSET Ending(x)
      BY <1>1, <2>1 DEF GroupSame, OutSame, BackSame, Ending
    <3>2. WaitsSame(y, x)
      BY <1>1, <1>2 DEF WaitsSame, WaitsFor
    <3> QED
      BY <1>1, <3>1, <3>2, HostedKept
  <2>2. CASE x = p
    <3>1. /\ net[p][y] \in Seq(Messages) /\ net[y][p] \in Seq(Messages) /\ Entries(y, group[p]) \in Nat
          /\ Hosted(p, y) /\ pre'[y] = pre[y] /\ pre[y] \in (1 .. opened) \cup {NULL}
      BY <1>1, <2>2, GuestNow
    <3>2. \A m \in Range(net[p][y]) \cup Range(net[y][p]) : m.uid \in 1 .. opened
      BY DEF GuestInv, UidsOpened
    <3>3. Times(Invite(new), net[p][y]) = 0 /\ Times(Response(new, FALSE), net[y][p]) = 0
      <4>1. Invite(new).uid = new /\ Response(new, FALSE).uid = new
        BY DEF Invite, Response
      <4>2. (\A i \in DOMAIN net[p][y] : net[p][y][i] # Invite(new))
            /\ (\A i \in DOMAIN net[y][p] : net[y][p][i] # Response(new, FALSE))
        BY <1>2, <3>2, <4>1 DEF Range
      <4> QED
        BY <3>1, <4>2, TimesNone
    <3>4. ~ WaitsFor(y, p, pre[p])'
      <4>1. pre'[y] # pre'[p]
        BY <1>1, <1>2, <3>1
      <4> QED
        BY <4>1 DEF WaitsFor
    <3>5. Listed(Entries(y, group[p]), net[p][y], net[y][p], new, WaitsFor(y, p, pre[p])')
      <4> DEFINE n == Entries(y, group[p])
                 waits == WaitsFor(y, p, pre[p])'
      <4>1. n \in Nat /\ ~ waits
        BY <3>1, <3>4
      <4> HIDE DEF n, waits
      <4>2. Listed(n, net[p][y], net[y][p], new, waits)
        <5>1. 0 + 0 + 0 =< n
          BY <4>1
        <5> QED
          BY <3>3, <4>1, <5>1 DEF Listed
      <4> QED
        BY <4>2 DEF n, waits
    <3>6. \A u \in dropped[p] \ begun[p] : Warned(net[p][y], u, WaitsFor(y, p, u)')
      <4>1. \A u : WaitsFor(y, p, u)' <=> WaitsFor(y, p, u)
        BY <1>1, <3>1 DEF WaitsFor
      <4> QED
        BY <3>1, <4>1 DEF Hosted, Warned
    <3> QED
      BY <1>1, <2>2, <3>5, <3>6 DEF Hosted
  <2> QED
    BY <2>1, <2>2
<1> QED
  BY <1>3, <1>4, <1>5 DEF GuestInv

(* Each invitation takes a place of its own in the group. *)
LEMMA PreinviteGuests ==
  ASSUME Inv, GuestInv, Inv', NEW p \in Players, NEW q \in Players \ {p}, Preinvite(p, q)
  PROVE  GuestInv'
<1> DEFINE u == pre[p]
           m == Invite(u)
<1>1. /\ opened' = opened /\ dropped' = dropped /\ pre' = pre /\ master' = master
      /\ net' = SentTo(net, p, {q}, m) /\ u # NULL
      /\ group' = [group EXCEPT ![p] = With(q, @)]
      /\ begun' = begun /\ uid' = uid
  BY DEF Preinvite, Command, history, opens, With
<1>2. u \in 1 .. opened /\ m \in Messages /\ m.uid = u /\ net \in Net /\ p \in Parties /\ q \in Parties
  <2>1. u \in 1 .. opened /\ u \in Uids /\ net \in Net /\ p \in Parties /\ q \in Parties
    BY <1>1, GuestNow
  <2> QED
    BY <2>1, MessagesMade DEF Invite
<1>3. /\ group'[p] = With(q, group[p])
      /\ \A x \in Players \ {p} : group'[x] = group[x]
  BY <1>1 DEF Inv, TypeOK, SessionOK
<1>4. \A x, y \in Players : net'[x][y] = IF x = p /\ y = q THEN Append(net[x][y], m) ELSE net[x][y]
  <2> DEFINE whom == {q}
  <2>1. \A y : y \in whom <=> y = q
    OBVIOUS
  <2>2. net' = SentTo(net, p, whom, m)
    BY <1>1
  <2> HIDE DEF whom, m
  <2>3. \A x, y \in Parties :
          SentTo(net, p, whom, m)[x][y] = IF x = p /\ y \in whom THEN Append(net[x][y], m) ELSE net[x][y]
    BY <1>2, QueueSent
  <2> QED
    BY <2>1, <2>2, <2>3, Constants
<1> HIDE DEF m
<1>5. UidsOpened'
  <2>1. ASSUME NEW x \in Players, NEW y \in Players, NEW k \in Range(net'[x][y])
        PROVE  k \in Range(net[x][y]) \/ k = m
    <3>1. CASE x = p /\ y = q
      <4>1. net[x][y] \in Seq(Messages) /\ net'[x][y] = Append(net[x][y], m)
        BY <1>2, <1>4, <3>1 DEF Net
      <4> QED
        BY <1>2, <2>1, <4>1 DEF Range
    <3>2. CASE ~ (x = p /\ y = q)
      BY <1>4, <2>1, <3>2
    <3> QED
      BY <3>1, <3>2
  <2> QED
    BY <1>1, <1>2, <2>1 DEF GuestInv, UidsOpened
<1>6. \A x \in Players : pre'[x] \notin dropped'[x] /\ uid'[x] \in begun'[x] \cup {NULL}
  BY <1>1 DEF GuestInv
<1>7. ASSUME NEW x \in Players, NEW y \in Players \ {x} PROVE Hosted(x, y)'
  <2>1. WaitsSame(y, x) /\ \A v : WaitsFor(y, x, v)' <=> WaitsFor(y, x, v)
    BY <1>1 DEF WaitsSame, WaitsFor
  <2>2. group[x] = NULL \/ group[x] \in Seq(Members(x))
    BY GuestNow
  <2>3. BackSame(y, x)
    <3>1. \A v : m # Response(v, FALSE)
      BY DEF m, Invite, Response
    <3> QED
      BY <1>2, <1>4, <3>1 DEF BackSame
  <2>4. CASE ~ (x = p /\ y = q)
    <3>1. OutSame(x, y)
      BY <1>4, <2>4 DEF OutSame
    <3>2. GroupSame(x, y)
      <4>1. CASE x = p
        <5>1. y # q /\ (group[p] = NULL \/ group[p] \in Seq(Members(p)))
          BY <2>2, <2>4, <4>1
        <5>2. Entries(y, With(q, group[p])) = Entries(y, group[p])
          <6> DEFINE g == group[p]
          <6> HIDE DEF g
          <6>1. g = NULL \/ g \in Seq(Members(p))
            BY <5>1 DEF g
          <6>2. Entries(y, With(q, g)) = Entries(y, g)
            BY <5>1, <6>1, EntriesInvited
          <6> QED
            BY <6>2 DEF g
        <5> QED
          BY <1>1, <1>3, <4>1, <5>2 DEF GroupSame
      <4>2. CASE x # p
        BY <1>1, <1>3, <4>2 DEF GroupSame
      <4> QED
        BY <4>1, <4>2
    <3>3. Ending(x)' \in SUBSET Ending(x)
      BY <1>1 DEF Ending
    <3> QED
      BY <2>1, <2>3, <3>1, <3>2, <3>3, HostedKept
  <2>5. CASE x = p /\ y = q
    <3> DEFINE out == net[p][q]
               back == net[q][p]
               n == Entries(q, group[p])
    <3>1. /\ out \in Seq(Messages) /\ back \in Seq(Messages) /\ n \in Nat
          /\ Hosted(p, q) /\ u \notin dropped[p]
      BY GuestNow
    <3>2. net'[p][q] = Append(out, m) /\ net'[q][p] = back
      BY <1>4
    <3>3. Entries(q, group'[p]) = n + 1
      <4> DEFINE g == group[p]
      <4>1. g = NULL \/ g \in Seq(Members(p))
        BY <2>2, <2>5
      <4> HIDE DEF g
      <4>2. Entries(q, With(q, g)) = Entries(q, g) + 1
        BY <4>1, EntriesInvited
      <4> QED
        BY <1>3, <4>2 DEF g
    <3>4. ASSUME master[p] = NULL
          PROVE  Listed(n + 1, Append(out, m), back, u, WaitsFor(q, p, u))
      <4>1. Listed(n, out, back, u, WaitsFor(q, p, u))
        BY <1>1, <3>1, <3>4 DEF Hosted
      <4> DEFINE waits == WaitsFor(q, p, u)
      <4> HIDE DEF n, out, back, waits, u
      <4>2. m = Invite(u)
        BY DEF m
      <4> QED
        BY <1>2, <3>1, <4>1, <4>2, ListedSent DEF waits
    <3>5. ASSUME NEW v \in dropped[p] \ begun[p] PROVE Warned(Append(out, m), v, WaitsFor(q, p, v))
      <4>1. Warned(out, v, WaitsFor(q, p, v))
        BY <3>1 DEF Hosted
      <4>2. m # Invite(v)
        BY <3>1 DEF m, Invite
      <4> DEFINE waits == WaitsFor(q, p, v)
      <4> HIDE DEF out, waits
      <4> QED
        BY <1>2, <3>1, <4>1, <4>2, WarnedSent DEF waits
    <3>6. WaitsFor(q, p, pre[p])' <=> WaitsFor(q, p, u)
      BY <1>1 DEF WaitsFor
    <3>7. pre'[p] # NULL /\ master'[p] = NULL =>
            Listed(Entries(q, group'[p]), net'[p][q], net'[q][p], pre'[p], WaitsFor(q, p, pre[p])')
      BY <1>1, <3>2, <3>3, <3>4, <3>6 DEF Listed
    <3>8. \A v \in dropped'[p] \ begun'[p] : Warned(net'[p][q], v, WaitsFor(q, p, v)')
      BY <1>1, <2>1, <2>5, <3>2, <3>5 DEF Warned
    <3> QED
      BY <2>5, <3>7, <3>8 DEF Hosted
  <2> QED
    BY <2>4, <2>5
<1> QED
  BY <1>5, <1>6, <1>7 DEF GuestInv

(* Where p sends a cancel, it follows all that is under way; where it sends   *)
(* none, no invitation is, and nobody waits.                                 *)
LEMMA CancelCommandGuests ==
  ASSUME Inv, GuestInv, Inv', NEW p \in Players, CancelCommand(p)
  PROVE  GuestInv'
<1> DEFINE u == pre[p]
           m == Cancel(u)
           told == IF u = NULL THEN net ELSE SentTo(net, p, Whom(group[p]), m)
           gone == Ended(p)
<1>1. /\ opened' = opened /\ Forgotten(p) /\ begun' = begun
      /\ net' = told \/ net' = SentTo(told, p, {Service}, SearchCancel)
      /\ dropped' = [dropped EXCEPT ![p] = @ \cup gone]
  BY DEF CancelCommand, Command, opens
<1>2. /\ u \in (1 .. opened) \cup {NULL} /\ NULL \notin 1 .. opened /\ 1 .. opened \in SUBSET Uids
      /\ net \in Net /\ p \in Parties /\ Service \in Parties /\ p # Service
      /\ dropped \in [Players -> SUBSET (1 .. opened)] /\ dropped[p] \in SUBSET (1 .. opened)
      /\ begun \in [Players -> SUBSET (1 .. opened)] /\ uid[p] \in begun[p] \cup {NULL}
  BY GuestNow
<1>3. u # NULL => m \in Messages /\ m.uid = u /\ m.type = "preinvite_cancel"
  BY <1>2, MessagesMade DEF Cancel
<1>4. \A x \in Players : x \in Parties /\ x # Service
  BY Constants
<1>5. \A x, y \in Players :
        net'[x][y] = IF x = p /\ u # NULL /\ y \in Whom(group[p]) THEN Append(net[x][y], m) ELSE net[x][y]
  <2> DEFINE whom == Whom(group[p])
  <2>1. told \in Net /\ \A x, y \in Players :
          told[x][y] = IF x = p /\ u # NULL /\ y \in whom THEN Append(net[x][y], m) ELSE net[x][y]
    <3>1. CASE u = NULL
      BY <1>2, <3>1
    <3>2. CASE u # NULL
      <4> HIDE DEF whom, m, u
      <4>1. SentTo(net, p, whom, m) \in Net
        BY <1>2, <1>3, <3>2, SentToCarries
      <4>2. \A x, y \in Parties :
              SentTo(net, p, whom, m)[x][y] = IF x = p /\ y \in whom THEN Append(net[x][y], m) ELSE net[x][y]
        BY <1>2, QueueSent
      <4>3. told = SentTo(net, p, whom, m)
        BY <3>2 DEF whom, m, u
      <4> QED
        BY <1>4, <3>2, <4>1, <4>2, <4>3
    <3> QED
      BY <3>1, <3>2
  <2>2. ASSUME NEW x \in Players, NEW y \in Players PROVE net'[x][y] = told[x][y]
    <3> DEFINE them == {Service}
    <3>1. x \in Parties /\ y \in Parties /\ y \notin them
      BY <1>4
    <3>2. net' = told \/ net' = SentTo(told, p, them, SearchCancel)
      BY <1>1
    <3> HIDE DEF told, them
    <3>3. SentTo(told, p, them, SearchCancel)[x][y] = told[x][y]
      BY <1>2, <2>1, <3>1, QueueApart
    <3> QED
      BY <3>2, <3>3
  <2> HIDE DEF told
  <2> QED
    BY <2>1, <2>2
<1>6. /\ pre'[p] = NULL /\ \A x \in Players \ {p} : pre'[x] = pre[x] /\ master'[x] = master[x]
      /\ \A x \in Players \ {p} : group'[x] = group[x]
      /\ uid'[p] = NULL /\ \A x \in Players \ {p} : uid'[x] = uid[x]
  BY <1>1 DEF Forgotten, Inv, TypeOK, SessionOK
<1>7. /\ dropped'[p] = dropped[p] \cup gone /\ \A x \in Players \ {p} : dropped'[x] = dropped[x]
      /\ \A v \in gone \ begun[p] : v = u /\ u # NULL /\ master[p] = NULL
      /\ gone \in SUBSET (1 .. opened)
  <2>1. begun[p] \in SUBSET (1 .. opened)
    BY <1>2
  <2> QED
    BY <1>1, <1>2, <2>1 DEF Ended
<1> HIDE DEF told, gone, m, u
<1>8. UidsOpened'
  <2>1. ASSUME NEW x \in Players, NEW y \in Players, NEW k \in Range(net'[x][y])
        PROVE  k.uid \in 1 .. opened
    <3>1. k \in Range(net[x][y]) => k.uid \in 1 .. opened
      BY DEF GuestInv, UidsOpened
    <3>2. CASE x = p /\ u # NULL /\ y \in Whom(group[p])
      <4>1. net[x][y] \in Seq(Messages) /\ net'[x][y] = Append(net[x][y], m) /\ m \in Messages
        BY <1>2, <1>3, <1>4, <1>5, <3>2 DEF Net
      <4>2. k \in Range(net[x][y]) \/ k = m
        BY <2>1, <4>1 DEF Range
      <4> QED
        BY <1>2, <1>3, <3>1, <3>2, <4>2
    <3>3. CASE ~ (x = p /\ u # NULL /\ y \in Whom(group[p]))
      BY <1>5, <2>1, <3>1, <3>3
    <3> QED
      BY <3>2, <3>3
  <2>2. \A x \in Players : pre'[x] \in (1 .. opened') \cup {NULL}
    BY <1>1, <1>6 DEF GuestInv, UidsOpened
  <2>3. dropped' \in [Players -> SUBSET (1 .. opened')] /\ begun' \in [Players -> SUBSET (1 .. opened')]
    BY <1>1, <1>2, <1>7
  <2> QED
    BY <1>1, <2>1, <2>2, <2>3 DEF UidsOpened
<1>9. ASSUME NEW x \in Players PROVE pre'[x] \notin dropped'[x] /\ uid'[x] \in begun'[x] \cup {NULL}
  <2>1. CASE x = p
    BY <1>2, <1>6, <1>7, <2>1
  <2>2. CASE x # p
    BY <1>1, <1>6, <1>7, <2>2 DEF GuestInv
  <2> QED
    BY <2>1, <2>2
<1>10. ASSUME NEW x \in Players, NEW y \in Players \ {x} PROVE Hosted(x, y)'
  <2>1. CASE x # p
    <3>1. GroupSame(x, y)
      BY <1>6, <2>1 DEF GroupSame
    <3>2. WaitsSame(y, x)
      BY <1>2, <1>6 DEF WaitsSame, WaitsFor
    <3>3. OutSame(x, y)
      BY <1>5, <2>1 DEF OutSame
    <3>4. BackSame(y, x)
      <4>1. \A v : m # Response(v, FALSE)
        BY DEF m, Cancel, Response
      <4> QED
        BY <1>3, <1>5, <4>1 DEF BackSame
    <3>5. Ending(x)' \in SUBSET Ending(x)
      BY <1>1, <1>7, <2>1 DEF Ending
    <3> QED
      BY <3>1, <3>2, <3>3, <3>4, <3>5, HostedKept
  <2>2. CASE x = p
    <3> DEFINE out == net[p][y]
    <3>1. out \in Seq(Messages) /\ net[y][p] \in Seq(Messages) /\ Hosted(p, y)
          /\ (group[p] = NULL \/ group[p] \in Seq(Members(p)))
      BY <2>2, GuestNow
    <3>2. \A v : WaitsFor(y, p, v)' <=> WaitsFor(y, p, v)
      BY <1>6, <2>2 DEF WaitsFor
    <3>3. net'[p][y] = IF u # NULL /\ y \in Whom(group[p]) THEN Append(out, m) ELSE out
      BY <1>5
    <3>4. ASSUME NEW v \in dropped'[p] \ begun'[p] PROVE Warned(net'[p][y], v, WaitsFor(y, p, v))
      <4> DEFINE waits == WaitsFor(y, p, v)
      <4>1. CASE u # NULL /\ y \in Whom(group[p])
        <5>1. net'[p][y] = Append(out, m) /\ m \in Messages /\ m.type = "preinvite_cancel"
          BY <1>3, <3>3, <4>1
        <5> HIDE DEF waits, out
        <5>2. Warned(Append(out, m), v, waits)
          BY <3>1, <5>1, WarnedByCancel
        <5> QED
          BY <5>1, <5>2 DEF waits
      <4>2. CASE v \in dropped[p] /\ ~ (u # NULL /\ y \in Whom(group[p]))
        BY <1>1, <3>1, <3>3, <3>4, <4>2 DEF Hosted
      <4>3. CASE v \in gone /\ ~ (u # NULL /\ y \in Whom(group[p]))
        <5>1. v = u /\ u # NULL /\ master[p] = NULL /\ y \notin Whom(group[p]) /\ net'[p][y] = out
          BY <1>1, <1>7, <3>3, <3>4, <4>3
        <5>2. Entries(y, group[p]) = 0
          <6> DEFINE g == group[p]
          <6>1. (g = NULL \/ g \in Seq(Members(p))) /\ y \notin Whom(g)
            BY <3>1, <5>1
          <6> HIDE DEF g
          <6>2. Entries(y, g) = 0
            BY <6>1, EntriesMade
          <6> QED
            BY <6>2 DEF g
        <5>3. Listed(0, out, net[y][p], u, waits)
          BY <3>1, <5>1, <5>2 DEF Hosted, u
        <5>4. Times(Invite(u), out) = 0 /\ ~ waits
          <6> DEFINE i == Times(Invite(u), out)
                     j == Times(Response(u, FALSE), net[y][p])
          <6>1. i + j + (IF waits THEN 1 ELSE 0) =< 0
            BY <5>3 DEF Listed
          <6>2. i \in Nat /\ j \in Nat
            BY <3>1, TimesNone
          <6> HIDE DEF i, j, waits
          <6>3. i = 0 /\ ~ waits
            BY <6>1, <6>2
          <6> QED
            BY <6>3 DEF i
        <5>5. \A i \in DOMAIN out : out[i] # Invite(u)
          BY <3>1, <5>4, TimesNone
        <5> HIDE DEF waits, out
        <5>6. Warned(out, v, waits)
          BY <5>1, <5>4, <5>5 DEF Warned
        <5> QED
          BY <5>1, <5>6 DEF waits
      <4> QED
        BY <1>7, <3>4, <4>1, <4>2, <4>3
    <3>5. \A v \in dropped'[p] \ begun'[p] : Warned(net'[p][y], v, WaitsFor(y, p, v)')
      BY <3>2, <3>4 DEF Warned
    <3> QED
      BY <1>6, <2>2, <3>5 DEF Hosted
  <2> QED
    BY <2>1, <2>2
<1> QED
  BY <1>8, <1>9, <1>10 DEF GuestInv

(* A message of another client taken, and answered or not. *)
Answered(p, s, m) == net' = SentTo(Taken(s, p), p, {s}, m)
Answers(p, s, m) == net' = Taken(s, p) \/ Answered(p, s, m)

LEMMA Exchanged ==
  ASSUME Inv, GuestInv, NEW p \in Players, NEW s \in Players \ {p},
         NEW type, Receives(s, p, type), NEW m \in Messages, m.uid \in 1 .. opened,
         Answers(p, s, m)
  PROVE  /\ net[s][p] # <<>> /\ net'[s][p] = Tail(net[s][p])
         /\ net'[p][s] = net[p][s] \/ net'[p][s] = Append(net[p][s], m)
         /\ Answered(p, s, m) => net'[p][s] = Append(net[p][s], m)
         /\ \A x, y \in Players : (x = s /\ y = p) \/ (x = p /\ y = s) \/ net'[x][y] = net[x][y]
         /\ \A x, y \in Players : \A k \in Range(net'[x][y]) : k.uid \in 1 .. opened
<1> DEFINE whom == {s}
<1>1. /\ net \in Net /\ p \in Parties /\ s \in Parties /\ s # p
      /\ \A x \in Players : x \in Parties
  BY GuestNow, Constants
<1>2. /\ Taken(s, p) \in Net
      /\ \A x, y \in Parties : Taken(s, p)[x][y] = IF x = s /\ y = p THEN Tail(net[s][p]) ELSE net[x][y]
  BY <1>1, QueueTaken
<1>3. \A y : y \in whom <=> y = s
  OBVIOUS
<1>4. net' = Taken(s, p) \/ net' = SentTo(Taken(s, p), p, whom, m)
  BY DEF Answers, Answered
<1> HIDE DEF whom
<1>5. \A x, y \in Parties :
        SentTo(Taken(s, p), p, whom, m)[x][y] =
          IF x = p /\ y \in whom THEN Append(Taken(s, p)[x][y], m) ELSE Taken(s, p)[x][y]
  BY <1>1, <1>2, QueueSent
<1>6. net[s][p] # <<>>
  BY DEF Receives
<1>7. net'[s][p] = Tail(net[s][p])
  BY <1>1, <1>2, <1>4, <1>5
<1>8. /\ net'[p][s] = net[p][s] \/ net'[p][s] = Append(net[p][s], m)
      /\ net' = SentTo(Taken(s, p), p, whom, m) => net'[p][s] = Append(net[p][s], m)
  <2>1. Taken(s, p)[p][s] = net[p][s]
    BY <1>1, <1>2
  <2>2. SentTo(Taken(s, p), p, whom, m)[p][s] = Append(net[p][s], m)
    BY <1>1, <1>3, <1>5, <2>1
  <2> QED
    BY <1>4, <2>1, <2>2
<1>9. ASSUME NEW x \in Players, NEW y \in Players, ~ (x = s /\ y = p), ~ (x = p /\ y = s)
      PROVE  net'[x][y] = net[x][y]
  <2>1. x \in Parties /\ y \in Parties
    BY <1>1
  <2>2. Taken(s, p)[x][y] = net[x][y]
    BY <1>2, <1>9, <2>1
  <2>3. SentTo(Taken(s, p), p, whom, m)[x][y] = Taken(s, p)[x][y]
    BY <1>3, <1>5, <1>9, <2>1
  <2> QED
    BY <1>4, <2>2, <2>3
<1>10. ASSUME NEW x \in Players, NEW y \in Players, NEW k \in Range(net'[x][y])
       PROVE  k.uid \in 1 .. opened
  <2>1. net[x][y] \in Seq(Messages) /\ (k \in Range(net[x][y]) => k.uid \in 1 .. opened)
    BY <1>1 DEF Net, GuestInv, UidsOpened
  <2>2. CASE net'[x][y] = net[x][y]
    BY <1>10, <2>1, <2>2
  <2>3. CASE x = s /\ y = p
    <3>1. net[x][y] # <<>> /\ net'[x][y] = Tail(net[x][y])
      BY <1>6, <1>7, <2>3
    <3>2. k \in Range(net[x][y])
      BY <1>10, <2>1, <3>1 DEF Range
    <3> QED
      BY <2>1, <3>2
  <2>4. CASE net'[x][y] = Append(net[x][y], m)
    <3>1. k \in Range(net[x][y]) \/ k = m
      BY <1>10, <2>1, <2>4 DEF Range
    <3> QED
      BY <2>1, <3>1
  <2> QED
    <3>1. CASE x = p /\ y = s
      BY <1>8, <2>2, <2>4, <3>1
    <3>2. CASE ~ (x = s /\ y = p) /\ ~ (x = p /\ y = s)
      BY <1>9, <2>2, <3>2
    <3> QED
      BY <2>3, <3>1, <3>2
<1>11. \A x, y \in Players : (x = s /\ y = p) \/ (x = p /\ y = s) \/ net'[x][y] = net[x][y]
  BY <1>9
<1>12. Answered(p, s, m) => net'[p][s] = Append(net[p][s], m)
  BY <1>8 DEF whom, Answered
<1> QED
  BY <1>6, <1>7, <1>8, <1>10, <1>11, <1>12

(* An invitation becomes a guest, or a refusal on its way back. *)
LEMMA PreinvitedGuests ==
  ASSUME Inv, GuestInv, Inv', NEW p \in Players, NEW s \in Players \ {p}, Preinvited(p, s)
  PROVE  GuestInv'
<1>0. PICK accepted \in BOOLEAN :
        /\ Receives(s, p, "preinvite_invite") /\ Handler
        /\ net' = SentTo(Taken(s, p), p, {s}, Response(Head(net[s][p]).uid, accepted))
        /\ IF accepted
           THEN /\ pre' = [pre EXCEPT ![p] = Head(net[s][p]).uid]
                /\ master' = [master EXCEPT ![p] = s]
                /\ dropped' = [dropped EXCEPT ![p] = @ \ {Head(net[s][p]).uid}]
           ELSE UNCHANGED <<pre, master, dropped>>
        /\ UNCHANGED <<uid, group, begun>>
  BY DEF Preinvited
<1> DEFINE h == Head(net[s][p])
           u == h.uid
           m == Response(u, accepted)
           out == net[s][p]
           back == net[p][s]
<1>1. /\ Receives(s, p, "preinvite_invite") /\ opened' = opened /\ group' = group
      /\ uid' = uid /\ begun' = begun
      /\ net' = SentTo(Taken(s, p), p, {s}, m)
      /\ accepted => /\ pre' = [pre EXCEPT ![p] = u] /\ master' = [master EXCEPT ![p] = s]
                     /\ dropped' = [dropped EXCEPT ![p] = @ \ {u}]
      /\ ~accepted => UNCHANGED <<pre, master, dropped>>
  BY <1>0 DEF Handler, opens
<1>2. /\ s \in Parties /\ p \in Parties /\ out \in Seq(Messages) /\ back \in Seq(Messages)
      /\ 1 .. opened \in SUBSET Uids /\ NULL \notin 1 .. opened
      /\ dropped \in [Players -> SUBSET (1 .. opened)] /\ begun \in [Players -> SUBSET (1 .. opened)]
      /\ Hosted(s, p) /\ Entries(p, group[s]) \in Nat
      /\ pre[s] \in (1 .. opened) \cup {NULL}
  BY GuestNow
<1>3. h \in Messages /\ h.type = "preinvite_invite" /\ u \in 1 .. opened /\ h = Invite(u)
  <2>1. h \in Range(net[s][p]) /\ h \in Messages /\ h.type = "preinvite_invite"
    BY <1>1, <1>2, HeadCarried DEF Inv, TypeOK
  <2>2. u \in 1 .. opened
    BY <2>1 DEF GuestInv, UidsOpened
  <2>3. \A k \in Messages : k.type = "preinvite_invite" => k = Invite(k.uid)
    BY DEF Messages, Invite
  <2> QED
    BY <2>1, <2>2, <2>3
<1>4. accepted \in BOOLEAN /\ m \in Messages /\ m.uid = u /\ m.type = "preinvite_response"
  BY <1>2, <1>3, MessagesMade DEF Response
<1>5. m = Response(u, accepted)
  OBVIOUS
<1>6. IF accepted
      THEN /\ pre'[p] = u /\ master'[p] = s /\ dropped'[p] = dropped[p] \ {u}
           /\ \A x \in Players \ {p} : pre'[x] = pre[x] /\ master'[x] = master[x] /\ dropped'[x] = dropped[x]
           /\ dropped' \in [Players -> SUBSET (1 .. opened)]
      ELSE pre' = pre /\ master' = master /\ dropped' = dropped
  <2>1. DOMAIN pre = Players /\ DOMAIN master = Players
    BY DEF Inv, TypeOK, SessionOK
  <2> HIDE DEF h, u, m
  <2>2. CASE accepted
    <3>1. /\ pre' = [pre EXCEPT ![p] = u] /\ master' = [master EXCEPT ![p] = s]
          /\ dropped' = [dropped EXCEPT ![p] = @ \ {u}]
      BY <1>1, <2>2
    <3>2. dropped' \in [Players -> SUBSET (1 .. opened)]
      BY <1>2, <3>1
    <3>3. /\ dropped'[p] = dropped[p] \ {u}
          /\ \A x \in Players \ {p} : dropped'[x] = dropped[x]
      BY <1>2, <3>1
    <3>4. /\ pre'[p] = u /\ master'[p] = s
          /\ \A x \in Players \ {p} : pre'[x] = pre[x] /\ master'[x] = master[x]
      BY <2>1, <3>1
    <3> QED
      BY <2>2, <3>2, <3>3, <3>4
  <2>3. CASE ~accepted
    BY <1>1, <2>3
  <2> QED
    BY <2>2, <2>3
<1>7. \A v : WaitsFor(p, s, v)' => WaitsFor(p, s, v) \/ (accepted /\ v = u)
  BY <1>6 DEF WaitsFor
<1> HIDE DEF h, u, m
<1>8. /\ out # <<>> /\ net'[s][p] = Tail(out) /\ net'[p][s] = Append(back, m)
      /\ \A x, y \in Players : (x = s /\ y = p) \/ (x = p /\ y = s) \/ net'[x][y] = net[x][y]
      /\ \A x, y \in Players : \A k \in Range(net'[x][y]) : k.uid \in 1 .. opened
  <2>1. Answers(p, s, m) /\ Answered(p, s, m)
    BY <1>1 DEF Answers, Answered
  <2>2. Receives(s, p, "preinvite_invite") /\ m \in Messages /\ m.uid \in 1 .. opened
    BY <1>1, <1>3, <1>4
  <2>3. /\ net[s][p] # <<>> /\ net'[s][p] = Tail(net[s][p])
        /\ net'[p][s] = Append(net[p][s], m)
        /\ \A x, y \in Players : (x = s /\ y = p) \/ (x = p /\ y = s) \/ net'[x][y] = net[x][y]
        /\ \A x, y \in Players : \A k \in Range(net'[x][y]) : k.uid \in 1 .. opened
    BY <2>1, <2>2, Exchanged
  <2> QED
    BY <2>1, <2>3
<1>9. UidsOpened'
  <2>1. \A x \in Players : pre'[x] \in (1 .. opened) \cup {NULL}
    BY <1>3, <1>6 DEF GuestInv, UidsOpened
  <2>2. dropped' \in [Players -> SUBSET (1 .. opened)] /\ begun' \in [Players -> SUBSET (1 .. opened)]
    BY <1>1, <1>2, <1>6
  <2> QED
    BY <1>1, <1>8, <2>1, <2>2 DEF UidsOpened
<1>10. \A x \in Players : pre'[x] \notin dropped'[x] /\ uid'[x] \in begun'[x] \cup {NULL}
  BY <1>1, <1>6 DEF GuestInv
<1>11. ASSUME NEW x \in Players, NEW y \in Players \ {x} PROVE Hosted(x, y)'
  <2>1. Ending(x)' \in SUBSET Ending(x) /\ (x # p => Ending(x)' = Ending(x))
    BY <1>1, <1>6 DEF Ending
  <2>2. GroupSame(x, y) /\ (x # p => pre'[x] = pre[x] /\ master'[x] = master[x])
    <3>1. s # NULL
      BY Constants
    <3> QED
      BY <1>1, <1>6, <3>1 DEF GroupSame
  <2>3. CASE ~ (x = s /\ y = p)
    <3>1. WaitsSame(y, x)
      BY <1>6, <2>3 DEF WaitsSame, WaitsFor
    <3>2. OutSame(x, y)
      BY <1>4, <1>8, <2>3 DEF OutSame
    <3>3. BackSame(y, x)
      BY <1>8, <2>3 DEF BackSame
    <3> QED
      BY <2>1, <2>2, <3>1, <3>2, <3>3, HostedKept
  <2>4. CASE x = s /\ y = p
    <3> DEFINE n == Entries(p, group[s])
               v == pre[s]
               waits == WaitsFor(p, s, v)
               now == WaitsFor(p, s, pre[s])'
    <3>1. ASSUME v # NULL, master[s] = NULL PROVE Listed(n, Tail(out), Append(back, m), v, now)
      <4>1. Listed(n, out, back, v, waits)
        BY <1>2, <3>1 DEF Hosted
      <4>2. now => waits \/ (accepted /\ v = u)
        BY <1>7, <2>2, <2>4 DEF WaitsFor
      <4>3. accepted /\ v # u => ~now
        BY <1>6, <2>2, <2>4 DEF WaitsFor
      <4>4. n \in Nat /\ out \in Seq(Messages) /\ back \in Seq(Messages)
        BY <1>2
      <4> HIDE DEF n, v, waits, now, out, back
      <4>5. CASE v = u
        <5>1. Head(out) = Invite(v) /\ m = Response(v, accepted) /\ Response(v, accepted) \in Messages
          BY <1>3, <1>4, <1>5, <4>5 DEF h, out
        <5>2. Listed(n, Tail(out), Append(back, Response(v, accepted)), v, now)
          BY <1>4, <1>8, <4>1, <4>2, <4>4, <5>1, ListedAnswered
        <5> QED
          BY <5>1, <5>2
      <4>6. CASE v # u
        <5>1. now => waits
          BY <4>2, <4>6
        <5>2. Listed(n, Tail(out), back, v, now)
          BY <1>8, <4>1, <4>4, <5>1, ListedTaken
        <5>3. Tail(out) \in Seq(Messages) /\ m # Response(v, FALSE)
          <6>1. Response(v, FALSE).uid = v
            BY DEF Response
          <6> QED
            BY <1>4, <1>8, <4>4, <4>6, <6>1, OldestTaken
        <5> QED
          BY <1>4, <4>4, <5>2, <5>3, ListedSent
      <4> QED
        BY <4>5, <4>6
    <3>2. ASSUME NEW w \in Ending(s) PROVE Warned(Tail(out), w, WaitsFor(p, s, w)')
      <4> DEFINE before == WaitsFor(p, s, w)
                 after == WaitsFor(p, s, w)'
      <4>1. Warned(out, w, before)
        BY <1>2 DEF Hosted, Ending
      <4>2. after => before \/ Head(out) = Invite(w)
        BY <1>3, <1>7 DEF h
      <4>3. Head(out).type # "preinvite_cancel"
        BY <1>3 DEF h
      <4> HIDE DEF before, after, out
      <4>4. Warned(Tail(out), w, after)
        BY <1>2, <1>8, <4>1, <4>2, <4>3, WarnedTaken
      <4> QED
        BY <4>4 DEF after
    <3>3. pre'[s] # NULL /\ master'[s] = NULL =>
            Listed(Entries(p, group'[s]), net'[s][p], net'[p][s], pre'[s], WaitsFor(p, s, pre[s])')
      BY <1>1, <1>8, <2>2, <2>4, <3>1
    <3>4. net'[s][p] = Tail(out) /\ \A w \in Ending(s)' : w \in Ending(s)
      BY <1>8, <2>1, <2>4
    <3>5. \A w \in Ending(s)' : Warned(net'[s][p], w, WaitsFor(p, s, w)')
      <4> HIDE DEF Ending
      <4> QED
        BY <3>2, <3>4
    <3> QED
      BY <2>4, <3>3, <3>5 DEF Hosted, Ending
  <2> QED
    BY <2>3, <2>4
<1> QED
  BY <1>9, <1>10, <1>11 DEF GuestInv

(* A refusal gives its place back, and no other answer takes one. *)
LEMMA RespondedGuests ==
  ASSUME Inv, GuestInv, Inv', NEW p \in Players, NEW s \in Players \ {p}, Responded(p, s)
  PROVE  GuestInv'
<1> DEFINE m == Head(net[s][p])
           g == group[p]
           known == s \in Whom(g) /\ pre[p] = m.uid
           k == PlaceOf(s, g)
           marked == [g EXCEPT ![k].accepted = TRUE]
           c == Cancel(m.uid)
<1>1. /\ Receives(s, p, "preinvite_response") /\ opened' = opened
      /\ pre' = pre /\ master' = master /\ dropped' = dropped /\ uid' = uid /\ begun' = begun
      /\ net' = Taken(s, p) \/ (~known /\ net' = SentTo(Taken(s, p), p, {s}, c))
      /\ known => net' = Taken(s, p)
      /\ ~known => group' = group
      /\ known => group' = [group EXCEPT ![p] = IF m.accepted THEN marked ELSE RemoveAt(g, k)]
  BY DEF Responded, Handler, opens, history
<1>2. /\ s \in Parties /\ p \in Parties /\ net[s][p] \in Seq(Messages) /\ net[p][s] \in Seq(Messages)
      /\ 1 .. opened \in SUBSET Uids /\ NULL \notin 1 .. opened
      /\ Hosted(p, s) /\ (g = NULL \/ g \in Seq(Members(p)))
  BY GuestNow
<1>3. /\ m \in Messages /\ m.type = "preinvite_response" /\ m.uid \in 1 .. opened
      /\ m.accepted \in BOOLEAN /\ m = Response(m.uid, m.accepted)
  <2>1. m \in Range(net[s][p]) /\ m \in Messages /\ m.type = "preinvite_response"
    BY <1>1, <1>2, HeadCarried DEF Inv, TypeOK
  <2>2. m.uid \in 1 .. opened
    BY <2>1 DEF GuestInv, UidsOpened
  <2>3. \A x \in Messages : x.type = "preinvite_response" =>
          x.accepted \in BOOLEAN /\ x = Response(x.uid, x.accepted)
    BY DEF Messages, Response
  <2> QED
    BY <2>1, <2>2, <2>3
<1>4. c \in Messages /\ c.uid = m.uid /\ c.type = "preinvite_cancel"
  BY <1>2, <1>3, MessagesMade DEF Cancel
<1>5. /\ \A x \in Players \ {p} : group'[x] = group[x]
      /\ ~known => group'[p] = g
      /\ known => group'[p] = IF m.accepted THEN marked ELSE RemoveAt(g, k)
  BY <1>1 DEF Inv, TypeOK, SessionOK
<1>6. known => g # NULL /\ g \in Seq(Members(p)) /\ s \in Whom(g) /\ k \in DOMAIN g /\ g[k].who = s
  <2>1. known => g # NULL /\ g \in Seq(Members(p)) /\ s \in Whom(g)
    BY <1>2 DEF Whom
  <2> QED
    BY <2>1, PlaceIsFound
<1>7. known /\ m.accepted => \A y : Entries(y, marked) = Entries(y, g)
  <2> HIDE DEF g
  <2> QED
    BY <1>6, EntriesMarked
<1>8. known => \A y : /\ y # s => Entries(y, RemoveAt(g, k)) = Entries(y, g)
                      /\ y = s => Entries(y, RemoveAt(g, k)) + 1 = Entries(y, g)
                      /\ Entries(y, RemoveAt(g, k)) \in Nat
  <2> DEFINE at == k
  <2>1. known => g \in Seq(Members(p)) /\ at \in DOMAIN g /\ g[at].who = s
    BY <1>6
  <2> HIDE DEF g, known, at
  <2>2. known => \A y : /\ y # s => Entries(y, RemoveAt(g, at)) = Entries(y, g)
                        /\ y = s => Entries(y, RemoveAt(g, at)) + 1 = Entries(y, g)
                        /\ Entries(y, RemoveAt(g, at)) \in Nat
    BY <2>1, EntriesRemoved
  <2> QED
    BY <2>2 DEF at
<1>9. known => pre[p] = m.uid
  OBVIOUS
<1> HIDE DEF m, g, known, k, marked, c
<1>10. /\ net[s][p] # <<>> /\ net'[s][p] = Tail(net[s][p])
       /\ net'[p][s] = net[p][s] \/ net'[p][s] = Append(net[p][s], c)
       /\ \A x, y \in Players : (x = s /\ y = p) \/ (x = p /\ y = s) \/ net'[x][y] = net[x][y]
       /\ \A x, y \in Players : \A n \in Range(net'[x][y]) : n.uid \in 1 .. opened
  <2>1. Answers(p, s, c)
    BY <1>1 DEF Answers, Answered
  <2>2. Receives(s, p, "preinvite_response") /\ c \in Messages /\ c.uid \in 1 .. opened
    BY <1>1, <1>3, <1>4
  <2>3. s \in Players \ {p}
    OBVIOUS
  <2> QED
    BY <2>1, <2>2, <2>3, Exchanged
<1>11. /\ UidsOpened'
       /\ \A x \in Players : pre'[x] \notin dropped'[x] /\ uid'[x] \in begun'[x] \cup {NULL}
  BY <1>1, <1>10 DEF GuestInv, UidsOpened
<1>12. ASSUME NEW x \in Players, NEW y \in Players \ {x} PROVE Hosted(x, y)'
  <2>1. WaitsSame(y, x) /\ \A v : WaitsFor(y, x, v)' <=> WaitsFor(y, x, v)
    BY <1>1 DEF WaitsSame, WaitsFor
  <2>2. OutSame(x, y)
    <3>1. Head(net[s][p]).type = "preinvite_response"
      BY <1>3 DEF m
    <3> QED
      BY <1>4, <1>10, <3>1 DEF OutSame
  <2>3. BackSame(y, x)
    <3>1. \A v : c # Response(v, FALSE)
      BY <1>4 DEF Response
    <3> QED
      BY <1>4, <1>10, <3>1 DEF BackSame
  <2>4. CASE ~ (x = p /\ y = s /\ known /\ ~ m.accepted)
    <3>1. GroupSame(x, y)
      <4>1. Entries(y, group'[x]) = Entries(y, group[x])
        <5>1. CASE x # p
          BY <1>5, <5>1
        <5>2. CASE x = p /\ ~known
          BY <1>5, <5>2 DEF g
        <5>3. CASE x = p /\ known /\ m.accepted
          BY <1>5, <1>7, <5>3 DEF g
        <5>4. CASE x = p /\ known /\ ~ m.accepted
          <6>1. y # s /\ group'[p] = RemoveAt(g, k)
            BY <1>5, <2>4, <5>4
          <6> QED
            BY <1>8, <5>4, <6>1 DEF g
        <5> QED
          BY <5>1, <5>2, <5>3, <5>4
      <4> QED
        BY <1>1, <4>1 DEF GroupSame
    <3>2. Ending(x)' \in SUBSET Ending(x)
      BY <1>1 DEF Ending
    <3> QED
      BY <2>1, <2>2, <2>3, <3>1, <3>2, HostedKept
  <2>5. CASE x = p /\ y = s /\ known /\ ~ m.accepted
    <3> DEFINE out == net[p][s]
               back == net[s][p]
               n == Entries(s, g)
               u == pre[p]
               waits == WaitsFor(s, p, u)
    <3>1. net'[p][s] = out /\ net'[s][p] = Tail(back)
      <4>1. net' = Taken(s, p)
        BY <1>1, <2>5
      <4>2. net \in Net /\ s # p
        BY GuestNow
      <4>3. Taken(s, p)[p][s] = net[p][s]
        BY <1>1, <1>2, <4>2, QueueTaken
      <4> QED
        BY <1>10, <4>1, <4>3
    <3>2. /\ n \in Nat /\ Entries(s, group'[p]) \in Nat /\ Entries(s, group'[p]) = n - 1
      <4>1. /\ group'[p] = RemoveAt(g, k) /\ Entries(s, RemoveAt(g, k)) + 1 = n
            /\ Entries(s, RemoveAt(g, k)) \in Nat
        BY <1>5, <1>8, <2>5
      <4> HIDE DEF n
      <4> QED
        BY <4>1
    <3>3. ASSUME master[p] = NULL
          PROVE  Listed(n - 1, out, Tail(back), u, waits)
      <4>1. Listed(n, out, back, u, waits)
        BY <1>2, <1>3, <1>9, <2>5, <3>3 DEF Hosted, g
      <4>2. Head(back) = Response(u, FALSE)
        BY <1>3, <1>9, <2>5 DEF m
      <4>3. out \in Seq(Messages) /\ back \in Seq(Messages) /\ back # <<>> /\ n \in Nat
        BY <1>2, <1>10, <3>2
      <4> HIDE DEF n, out, back, u, waits
      <4> QED
        BY <4>1, <4>2, <4>3, ListedTaken
    <3>4. WaitsFor(s, p, pre[p])' <=> waits
      BY <1>1 DEF WaitsFor
    <3>5. pre'[p] # NULL /\ master'[p] = NULL =>
            Listed(Entries(s, group'[p]), net'[p][s], net'[s][p], pre'[p], WaitsFor(s, p, pre[p])')
      BY <1>1, <3>1, <3>2, <3>3, <3>4 DEF Listed
    <3>6. \A v \in dropped'[p] \ begun'[p] : Warned(net'[p][s], v, WaitsFor(s, p, v)')
      BY <1>1, <1>2, <2>1, <2>5, <3>1 DEF Warned, Hosted
    <3> QED
      BY <2>5, <3>5, <3>6 DEF Hosted
  <2> QED
    BY <2>4, <2>5
<1> QED
  BY <1>11, <1>12 DEF GuestInv

(* An invitation is not answered, or a cancel heard: who hears that waits no  *)
(* longer.                                                                   *)
LEMMA PreinviteCanceledGuests ==
  ASSUME Inv, GuestInv, Inv', NEW p \in Players, NEW s \in Players \ {p},
         PreinviteCanceled(p, s) \/ Postponed(p, s)
  PROVE  GuestInv'
<1> DEFINE m == Head(net[s][p])
<1>1. PICK type \in {"preinvite_cancel", "preinvite_invite"} :
        /\ Receives(s, p, type) /\ opened' = opened
        /\ net' = Taken(s, p) /\ group' = group /\ dropped' = dropped
        /\ uid' = uid /\ begun' = begun
        /\ type = "preinvite_cancel" => pre'[p] = NULL
        /\ pre'[p] = NULL \/ (pre'[p] = pre[p] /\ master'[p] = master[p])
        /\ \A x \in Players \ {p} : pre'[x] = pre[x] /\ master'[x] = master[x]
  <2>1. CASE PreinviteCanceled(p, s)
    <3>1. /\ Receives(s, p, "preinvite_cancel") /\ opened' = opened
          /\ net' = Taken(s, p) /\ group' = group /\ dropped' = dropped
          /\ uid' = uid /\ begun' = begun /\ pre'[p] = NULL
          /\ \A x \in Players \ {p} : pre'[x] = pre[x] /\ master'[x] = master[x]
      BY <2>1 DEF PreinviteCanceled, Handler, opens, history, Inv, TypeOK, SessionOK
    <3> QED
      BY <3>1
  <2>2. CASE Postponed(p, s)
    <3>1. /\ Receives(s, p, "preinvite_invite") /\ opened' = opened
          /\ net' = Taken(s, p) /\ dropped' = dropped /\ begun' = begun
          /\ UNCHANGED <<pre, uid, group, master>>
      BY <2>2 DEF Postponed, Handler, opens, history, session, groups
    <3> QED
      BY <3>1
  <2> QED
    BY <2>1, <2>2
<1>2. s \in Parties /\ p \in Parties /\ NULL \notin 1 .. opened
  BY GuestNow
<1>3. m \in Messages /\ m.uid \in 1 .. opened /\ m.type = type
  <2>1. m \in Range(net[s][p]) /\ m \in Messages /\ m.type = type
    BY <1>1, <1>2, HeadCarried DEF Inv, TypeOK
  <2> QED
    BY <2>1 DEF GuestInv, UidsOpened
<1> HIDE DEF m
<1>8. Head(net[s][p]).type = type
  BY <1>3 DEF m
<1>4. /\ net[s][p] # <<>> /\ net'[s][p] = Tail(net[s][p])
      /\ \A x, y \in Players : (x = s /\ y = p) \/ (x = p /\ y = s) \/ net'[x][y] = net[x][y]
      /\ \A x, y \in Players : \A n \in Range(net'[x][y]) : n.uid \in 1 .. opened
  <2>1. Answers(p, s, m)
    BY <1>1 DEF Answers, Answered
  <2> QED
    BY <1>1, <1>3, <2>1, Exchanged
<1>5. net'[p][s] = net[p][s]
  <2>1. net \in Net /\ s # p
    BY GuestNow
  <2> QED
    BY <1>1, <1>2, <2>1, QueueTaken
<1>6. /\ UidsOpened'
      /\ \A x \in Players : pre'[x] \notin dropped'[x] /\ uid'[x] \in begun'[x] \cup {NULL}
  <2>1. \A x \in Players : NULL \notin dropped[x]
    BY <1>2, GuestNow
  <2> QED
    BY <1>1, <1>4, <2>1 DEF GuestInv, UidsOpened
<1>7. ASSUME NEW x \in Players, NEW y \in Players \ {x} PROVE Hosted(x, y)'
  <2>1. GroupSame(x, y)
    BY <1>1 DEF GroupSame
  <2>2. WaitsSame(y, x)
    BY <1>1, <1>2 DEF WaitsSame, WaitsFor
  <2>3. type = "preinvite_cancel" => \A u \in 1 .. opened : ~ WaitsFor(p, s, u)'
    BY <1>1, <1>2 DEF WaitsFor
  <2>4. OutSame(x, y) /\ BackSame(y, x)
    BY <1>4, <1>5, <1>8, <2>3 DEF OutSame, BackSame
  <2>5. Ending(x)' \in SUBSET Ending(x)
    BY <1>1 DEF Ending
  <2> QED
    BY <2>1, <2>2, <2>4, <2>5, HostedKept
<1> QED
  BY <1>6, <1>7 DEF GuestInv
-----------------------------------------------------------------------------
LEMMA InitGuests == ASSUME Init PROVE GuestInv
<1>1. /\ \A x \in Players : pre[x] = NULL /\ uid[x] = NULL /\ master[x] = NULL /\ dropped[x] = {}
      /\ opened = 0 /\ dropped \in [Players -> SUBSET (1 .. 0)] /\ begun = dropped
  BY DEF Init
<1>2. \A x, y \in Players : net[x][y] = <<>>
  BY Constants DEF Init
<1>3. UidsOpened
  BY <1>1, <1>2 DEF UidsOpened, Range
<1>4. \A x \in Players : \A y \in Players \ {x} : Hosted(x, y)
  BY <1>1 DEF Hosted
<1> QED
  BY <1>1, <1>3, <1>4 DEF GuestInv

LEMMA NextGuests == ASSUME Inv, GuestInv, [Next]_vars PROVE GuestInv'
<1>0. Inv'
  BY NextInv
<1>1. ASSUME NEW p \in Players,
             Opening(p) \/ Open(p) \/ Start(p) \/ CancelCommand(p) \/ RoomChanged(p)
      PROVE  GuestInv'
  BY <1>0, <1>1, OpeningGuests, OpenGuests, StartGuests, CancelCommandGuests, RoomChangedGuests
<1>2. ASSUME NEW p \in Players, NEW q \in Players \ {p},
             \/ Preinvite(p, q) \/ Preinvited(p, q) \/ Postponed(p, q)
             \/ Responded(p, q) \/ PreinviteCanceled(p, q)
      PROVE  GuestInv'
  BY <1>0, <1>2, PreinviteGuests, PreinvitedGuests, RespondedGuests, PreinviteCanceledGuests
<1>3. ASSUME NEW p \in Players,
             Started(p) \/ Offer(p) \/ Succeeded(p) \/ Canceled(p) \/ Joined(p)
               \/ MissionExpired(p) \/ MissionsUpdated(p)
      PROVE  GuestInv'
  BY <1>0, <1>3, ToldGuests
<1>4. ASSUME NEW p \in Players,
             MissionsAsked(p) \/ SearchRequested(p) \/ SearchCanceled(p) \/ OfferAnswered(p)
      PROVE  GuestInv'
  BY <1>0, <1>4, HeardGuests
<1>5. ASSUME NEW u \in Uids, Match(u) PROVE GuestInv'
  BY <1>0, <1>5, MatchGuests
<1>6. ASSUME UNCHANGED vars PROVE GuestInv'
  <2>1. /\ opened' = opened /\ dropped' = dropped /\ begun' = begun /\ net' = net
        /\ UNCHANGED <<pre, uid, group, master>>
    BY <1>6 DEF vars, session, groups, opens, history
  <2>2. (\A x \in Players : Alone(x) /\ Heard(x)) /\ begun' \in [Players -> SUBSET Nat]
    BY <2>1, StayedAlone
  <2> QED
    BY <1>0, <2>1, <2>2, UntouchedNet, AloneGuests
<1> QED
  BY <1>1, <1>2, <1>3, <1>4, <1>5, <1>6 DEF Next

(* Each invitation, each refusal and each guest of a group that is still open *)
(* has a place of its own in it, and a cancel follows those of a group that   *)
(* was cancelled, in every state.                                            *)
THEOREM GuestInvariant == Spec => []GuestInv
<1>1. Init => GuestInv
  BY InitGuests
<1>2. Inv /\ GuestInv /\ [Next]_vars => GuestInv'
  BY NextGuests
<1> QED
  BY <1>1, <1>2, QuickplayInvariant, PTL DEF Spec

(* Nobody goes on waiting for a group whose master has cancelled it before    *)
(* its search began, however often it was invited and wherever the cancel    *)
(* met invitation and answer.                                                *)
THEOREM CancelsReachGuests == Spec => []CancelReachesGuests
<1>1. Inv /\ GuestInv => CancelReachesGuests
  <2> SUFFICES ASSUME Inv, GuestInv, Rest, NEW p \in Players, NEW q \in Players,
                      pre[q] # NULL, master[q] = p, pre[q] \in dropped[p] \ begun[p]
               PROVE  FALSE
    BY DEF CancelReachesGuests
  <2>1. CASE p = q
    BY <2>1, GuestNow
  <2>2. CASE p # q
    <3>1. Hosted(p, q) /\ net[p][q] = <<>>
      BY <2>2, GuestNow DEF Rest
    <3>2. WaitsFor(q, p, pre[q])
      BY DEF WaitsFor
    <3>3. CanceledAfter(<<>>, 0)
      BY <3>1, <3>2 DEF Hosted, Warned
    <3> QED
      BY <3>3 DEF CanceledAfter
  <2> QED
    BY <2>1, <2>2
<1> QED
  BY <1>1, QuickplayInvariant, GuestInvariant, PTL
=============================================================================
