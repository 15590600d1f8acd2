--------------------------- MODULE QueryCacheProofs ---------------------------
(***************************************************************************)
(* Proofs about QueryCache for any number of transfers, chunks and         *)
(* catalogs.                                                               *)
(***************************************************************************)
EXTENDS QueryCache, TLAPS

(* What the assumptions say of hashes and chunks. *)
LEMMA Constants ==
  /\ Chunks \in Nat /\ Chunks > 0 /\ 0 \in 0 .. Chunks - 1
  /\ NULL \notin Versions /\ 1 \in Versions
  /\ \A v \in Versions : v # NULL
BY QueryCacheAssumption DEF Versions

(* The whole catalog is all of its chunks and nothing else. *)
LEMMA WholeCatalog ==
  ASSUME NEW v, NEW parts, parts \subseteq Catalog(v),
         \A k \in 0 .. Chunks - 1 : <<v, k>> \in parts
  PROVE  parts = Catalog(v)
BY DEF Catalog

LEMMA ChunkOfCatalog ==
  ASSUME NEW v \in Versions, NEW k \in 0 .. Chunks - 1
  PROVE  <<v, k>> \in Catalog(v) /\ <<v, k>> \in UNION {Catalog(w) : w \in Versions}
BY DEF Catalog

LEMMA CatalogIsTyped ==
  ASSUME NEW v \in Versions
  PROVE  Catalog(v) \subseteq UNION {Catalog(w) : w \in Versions}
OBVIOUS

(* What a transfer is, and what the answer to it. *)
LEMMA TransferFields ==
  ASSUME NEW q \in Transfers
  PROVE  /\ q # NULL /\ q.from \in 0 .. Chunks - 1 /\ q.from \in Nat
         /\ q.cached \in Versions \cup {NULL}
         /\ q.answer # NULL =>
              /\ q.answer \in Answers /\ q.answer.code \in {"cached", "more", "end"}
              /\ q.answer.hash \in Versions
              /\ q.answer.from \in 0 .. Chunks - 1
BY QueryCacheAssumption DEF Transfers, Answers

LEMMA AskedIsTransfer ==
  ASSUME NEW k \in 0 .. Chunks - 1, NEW c \in Versions \cup {NULL}
  PROVE  /\ Asked(k, c) \in Transfers /\ Asked(k, c) # NULL
         /\ Asked(k, c).from = k /\ Asked(k, c).answer = NULL
BY QueryCacheAssumption DEF Asked, Transfers
-----------------------------------------------------------------------------
LEMMA InitInv == ASSUME Init PROVE Inv
<1>1. TypeOK
  BY Constants DEF Init, TypeOK
<1>2. ContainerInv /\ FileInv /\ DiskInv /\ StoppedInv
  BY DEF Init, ContainerInv, FileInv, DiskInv, StoppedInv
<1>3. \A r \in Requests : TransferInv(r)
  BY DEF Init, TransferInv
<1> QED
  BY <1>1, <1>2, <1>3 DEF Inv

(* A step that leaves the client's memory and file alone, and tears no less,  *)
(* has to show of the transfers that those half way are where they were.     *)
LEMMA MemoryKept ==
  ASSUME Inv, UNCHANGED <<memory, disk, running>>, TypeOK',
         torn \subseteq torn',
         \A r \in Requests : TransferInv(r)',
         hash # NULL /\ hash \notin torn' => \A r \in Requests :
           HalfWay(r) <=> HalfWay(r)',
         hash # NULL /\ hash \notin torn' => \A r \in Requests :
           HalfWay(r) => transfers'[r].from = transfers[r].from,
         file # NULL /\ file.hash \notin torn' =>
           /\ version' = version
           /\ \A r \in Requests : HalfWay(r) <=> HalfWay(r)'
           /\ \A r \in Requests : HalfWay(r) => transfers'[r].from = transfers[r].from
  PROVE  Inv'
<1>1. ContainerInv'
  <2> SUFFICES ASSUME hash # NULL, hash \notin torn'
               PROVE  ContainerInv'
    BY DEF Inv, ContainerInv, memory
  <2>1. /\ container \subseteq Catalog(hash)
        /\ container = Catalog(hash) \/ \E r \in Requests : HalfWay(r) /\ Received(r, container, hash)
    BY DEF Inv, ContainerInv
  <2>2. \A r \in Requests : HalfWay(r) /\ Received(r, container, hash)
          => HalfWay(r)' /\ Received(r, container, hash)'
    BY DEF Received, memory
  <2>3. hash' = hash /\ container' = container
    BY DEF memory
  <2> QED
    BY <2>1, <2>2, <2>3 DEF ContainerInv
<1>2. FileInv'
  <2>1. file' = file /\ running' = running
    BY DEF memory
  <2>2. CASE file # NULL /\ file.hash \notin torn'
    <3>1. /\ running /\ file.hash = version' /\ file.parts \subseteq Catalog(file.hash)
          /\ \E r \in Requests : HalfWay(r)
          /\ \A r \in Requests : HalfWay(r) => Received(r, file.parts, file.hash)
      BY <2>2 DEF Inv, FileInv
    <3>2. \A r \in Requests : HalfWay(r) /\ Received(r, file.parts, file.hash)
            => HalfWay(r)' /\ Received(r, file.parts, file.hash)'
      BY <2>1, <2>2 DEF Received
    <3> QED
      BY <2>1, <2>2, <3>1, <3>2 DEF FileInv
  <2>3. CASE file = NULL \/ file.hash \in torn'
    BY <2>1, <2>3 DEF Inv, FileInv
  <2> QED
    BY <2>2, <2>3
<1>3. DiskInv' /\ StoppedInv'
  BY DEF Inv, DiskInv, StoppedInv, memory
<1> QED
  BY <1>1, <1>2, <1>3 DEF Inv
-----------------------------------------------------------------------------
LEMMA RequestInv ==
  ASSUME Inv, NEW r \in Requests, Request(r)
  PROVE  Inv'
<1> DEFINE c == IF UseCache THEN hash ELSE NULL
<1>1. /\ running /\ transfers[r] = NULL
      /\ transfers' = [transfers EXCEPT ![r] = Asked(0, c)]
      /\ UNCHANGED <<version, running, memory, disk, torn>>
  BY DEF Request
<1>2. /\ Asked(0, c) \in Transfers /\ Asked(0, c) # NULL
      /\ Asked(0, c).from = 0 /\ Asked(0, c).answer = NULL
  <2>1. c \in Versions \cup {NULL}
    BY DEF Inv, TypeOK
  <2> QED
    BY <2>1, Constants, AskedIsTransfer
<1> HIDE DEF c
<1>3. transfers \in [Requests -> Transfers \cup {NULL}]
  BY DEF Inv, TypeOK
<1>4. transfers'[r] = Asked(0, c) /\ \A s \in Requests : s # r => transfers'[s] = transfers[s]
  BY <1>1, <1>3
<1>5. TypeOK'
  BY <1>1, <1>2 DEF Inv, TypeOK, memory
<1>6. \A s \in Requests : TransferInv(s)'
  BY <1>1, <1>2, <1>4 DEF Inv, TransferInv, memory
<1>7. \A s \in Requests : /\ HalfWay(s) <=> HalfWay(s)'
                          /\ HalfWay(s) => transfers'[s].from = transfers[s].from
  BY <1>1, <1>2, <1>4 DEF HalfWay
<1> QED
  BY <1>1, <1>5, <1>6, <1>7, MemoryKept

(* The service answers from where it was asked. *)
LEMMA AnswerIsTyped ==
  ASSUME NEW q \in Transfers, version \in Versions
  PROVE  /\ Answer(q) \in Answers /\ Answer(q) # NULL
         /\ Answer(q).from = q.from /\ Answer(q).hash = version
         /\ Answer(q).code = "cached" => q.from = 0
         /\ Answer(q).code = "more" => q.from + 1 < Chunks
         /\ Answer(q).code = "end" => q.from + 1 = Chunks
<1>1. q.from \in 0 .. Chunks - 1 /\ q.from \in Nat
  BY TransferFields
<1>2. CASE q.from = 0 /\ q.cached = version
  BY <1>1, <1>2, QueryCacheAssumption DEF Answer, Answers
<1>3. CASE ~ (q.from = 0 /\ q.cached = version)
  <2>1. Answer(q) = [code |-> IF q.from + 1 < Chunks THEN "more" ELSE "end",
                     hash |-> version, from |-> q.from]
    BY <1>3 DEF Answer
  <2>2. Answer(q) \in Answers
    BY <1>1, <2>1 DEF Answers
  <2>3. ~ (q.from + 1 < Chunks) => q.from + 1 = Chunks
    BY <1>1, Constants
  <2> QED
    BY <2>1, <2>2, <2>3, QueryCacheAssumption
<1> QED
  BY <1>2, <1>3

LEMMA ServeInv ==
  ASSUME Inv, NEW r \in Requests, Serve(r)
  PROVE  Inv'
<1> PICK q : q = transfers[r]
  OBVIOUS
<1> DEFINE p == [q EXCEPT !.answer = Answer(q)]
<1>1. /\ q # NULL /\ q.answer = NULL /\ transfers' = [transfers EXCEPT ![r] = p]
      /\ UNCHANGED <<version, running, memory, disk, torn>>
  BY DEF Serve
<1>2. transfers \in [Requests -> Transfers \cup {NULL}] /\ q \in Transfers /\ version \in Versions
  BY <1>1 DEF Inv, TypeOK
<1>3. /\ Answer(q) \in Answers /\ Answer(q) # NULL
      /\ Answer(q).from = q.from /\ Answer(q).hash = version
      /\ Answer(q).code = "cached" => q.from = 0
      /\ Answer(q).code = "more" => q.from + 1 < Chunks
      /\ Answer(q).code = "end" => q.from + 1 = Chunks
  BY <1>2, AnswerIsTyped
<1>4. p \in Transfers /\ p # NULL /\ p.from = q.from /\ p.answer = Answer(q)
  <2>1. p \in Transfers /\ p.from = q.from /\ p.answer = Answer(q)
    BY <1>2, <1>3 DEF Transfers
  <2> QED
    BY <2>1, QueryCacheAssumption
<1> HIDE DEF p
<1>5. transfers'[r] = p /\ \A s \in Requests : s # r => transfers'[s] = transfers[s]
  BY <1>1, <1>2
<1>6. TypeOK'
  BY <1>1, <1>4 DEF Inv, TypeOK, memory
<1>7. \A s \in Requests : TransferInv(s)'
  <2>1. ASSUME NEW s \in Requests, s # r PROVE TransferInv(s)'
    BY <1>1, <1>5, <2>1 DEF Inv, TransferInv, memory
  <2>2. TransferInv(r)'
    <3>1. running' /\ (q.from > 0 => hash' = version' \/ {hash', version'} \subseteq torn')
      BY <1>1 DEF Inv, TransferInv, memory
    <3> QED
      BY <1>1, <1>3, <1>4, <1>5, <3>1 DEF TransferInv
  <2> QED
    BY <2>1, <2>2
<1>8. \A s \in Requests : /\ HalfWay(s) <=> HalfWay(s)'
                          /\ HalfWay(s) => transfers'[s].from = transfers[s].from
  BY <1>1, <1>4, <1>5 DEF HalfWay
<1> QED
  BY <1>1, <1>6, <1>7, <1>8, MemoryKept

(* A transfer half way, and the torn catalogs, know of every exchange. *)
LEMMA RotateInv == ASSUME Inv, Rotate PROVE Inv'
<1>1. /\ version' = version + 1 /\ version' \in Versions /\ version \in Versions
      /\ torn' = (IF \E r \in Requests : UnderWay(r) THEN torn \cup {version, version'} ELSE torn)
      /\ UNCHANGED <<transfers, running, memory, disk>>
  BY QueryCacheAssumption DEF Rotate, Inv, TypeOK, Versions
<1>2. torn \subseteq torn'
  BY <1>1
<1>3. TypeOK'
  BY <1>1 DEF Inv, TypeOK, memory
<1>4. ASSUME NEW r \in Requests PROVE TransferInv(r)'
  <2>1. CASE UnderWay(r)
    <3>1. {version, version'} \subseteq torn'
      BY <1>1, <2>1
    <3> QED
      BY <1>1, <1>2, <2>1, <3>1 DEF Inv, TransferInv, memory
  <2>2. CASE ~UnderWay(r)
    <3>1. transfers[r] # NULL => ~(transfers[r].from > 0) /\ transfers[r].answer = NULL
      BY <2>2 DEF UnderWay
    <3> QED
      BY <1>1, <3>1 DEF Inv, TransferInv
  <2> QED
    BY <2>1, <2>2
<1>5. file # NULL => file.hash \in torn'
  <2> SUFFICES ASSUME file # NULL, file.hash \notin torn PROVE file.hash \in torn'
    BY <1>2
  <2>1. file.hash = version /\ \E r \in Requests : HalfWay(r)
    BY DEF Inv, FileInv
  <2>2. \E r \in Requests : UnderWay(r)
    BY <2>1 DEF HalfWay, UnderWay
  <2> QED
    BY <1>1, <2>1, <2>2
<1>6. \A r \in Requests : /\ HalfWay(r) <=> HalfWay(r)'
                          /\ HalfWay(r) => transfers'[r].from = transfers[r].from
  BY <1>1 DEF HalfWay
<1> QED
  BY <1>1, <1>2, <1>3, <1>4, <1>5, <1>6, MemoryKept

LEMMA FailedInv ==
  ASSUME Inv, NEW r \in Requests, Failed(r)
  PROVE  Inv'
<1>1. /\ transfers[r] # NULL /\ transfers' = [transfers EXCEPT ![r] = NULL]
      /\ torn' = (IF transfers[r].from > 0 THEN torn \cup {hash} ELSE torn)
      /\ UNCHANGED <<version, running, memory, disk>>
  BY DEF Failed
<1>2. /\ transfers \in [Requests -> Transfers \cup {NULL}] /\ version \in Versions
      /\ torn \subseteq Versions /\ torn \subseteq torn'
  BY <1>1 DEF Inv, TypeOK
<1>3. transfers'[r] = NULL /\ \A s \in Requests : s # r => transfers'[s] = transfers[s]
  BY <1>1, <1>2
<1>4. transfers[r].from > 0 => hash = version \/ {hash, version} \subseteq torn
  BY <1>1 DEF Inv, TransferInv
<1>5. TypeOK'
  <2>1. torn' \subseteq Versions
    BY <1>1, <1>2, <1>4
  <2>2. transfers' \in [Requests -> Transfers \cup {NULL}]
    BY <1>1, <1>2
  <2> QED
    BY <1>1, <2>1, <2>2 DEF Inv, TypeOK, memory
<1>6. \A s \in Requests : TransferInv(s)'
  BY <1>1, <1>2, <1>3 DEF Inv, TransferInv, memory
<1>7. CASE transfers[r].from > 0
  <2>1. hash \in torn'
    BY <1>1, <1>7
  <2>2. file # NULL => file.hash \in torn'
    <3> SUFFICES ASSUME file # NULL, file.hash \notin torn PROVE file.hash \in torn'
      BY <1>2
    <3>1. file.hash = version
      BY DEF Inv, FileInv
    <3> QED
      BY <1>4, <1>7, <2>1, <3>1
  <2> QED
    BY <1>1, <1>2, <1>5, <1>6, <2>1, <2>2, MemoryKept
<1>8. CASE ~ (transfers[r].from > 0)
  <2>1. \A s \in Requests : /\ HalfWay(s) <=> HalfWay(s)'
                            /\ HalfWay(s) => transfers'[s].from = transfers[s].from
    BY <1>3, <1>8 DEF HalfWay
  <2> QED
    BY <1>1, <1>2, <1>5, <1>6, <2>1, MemoryKept
<1> QED
  BY <1>7, <1>8
-----------------------------------------------------------------------------
(* An answer that brings a chunk: what it says of the catalog and of what     *)
(* came before.                                                              *)
LEMMA Answered ==
  ASSUME Inv, NEW r \in Requests, Told(r), transfers[r].answer.code \in {"more", "end"}
  PROVE  LET a == transfers[r].answer IN
         /\ running /\ transfers[r] \in Transfers /\ transfers[r] # NULL
         /\ a.hash \in Versions /\ a.hash # NULL /\ a.from \in 0 .. Chunks - 1
         /\ a.from = transfers[r].from
         /\ a.hash = version \/ {a.hash, version} \subseteq torn
         /\ a.code = "more" => a.from + 1 \in 0 .. Chunks - 1
         /\ a.code = "end" => a.from + 1 = Chunks
<1> PICK q : q = transfers[r]
  OBVIOUS
<1>1. q # NULL /\ q.answer # NULL /\ running /\ q \in Transfers
  BY DEF Told, Inv, TypeOK
<1>2. q.from \in Nat /\ q.answer.hash \in Versions /\ q.answer.from \in 0 .. Chunks - 1
  BY <1>1, TransferFields
<1>3. /\ q.answer.from = q.from
      /\ q.answer.hash = version \/ {q.answer.hash, version} \subseteq torn
      /\ q.answer.code = "more" => q.from + 1 < Chunks
      /\ q.answer.code = "end" => q.from + 1 = Chunks
  BY <1>1 DEF Inv, TransferInv
<1>4. q.answer.code = "more" => q.from + 1 \in 0 .. Chunks - 1
  BY <1>2, <1>3, Constants
<1> QED
  BY <1>1, <1>2, <1>3, <1>4, Constants

(* What has been written to the file that is open after the chunk. *)
LEMMA WrittenIsTyped ==
  ASSUME Inv, NEW a, a.hash \in Versions, a.from \in 0 .. Chunks - 1
  PROVE  /\ Opens(a) => /\ Written(a) \in Files /\ Written(a).hash = a.hash
                        /\ Written(a).parts = {<<a.hash, 0>>}
         /\ ~Opens(a) /\ file # NULL =>
              /\ Written(a) \in Files /\ Written(a).hash = file.hash
              /\ Written(a).parts = file.parts \cup {<<a.hash, a.from>>}
         /\ ~Opens(a) /\ file = NULL => Written(a) = NULL
         /\ Written(a) # NULL => [Written(a) EXCEPT !.ended = TRUE] \in Files
<1>1. <<a.hash, a.from>> \in UNION {Catalog(w) : w \in Versions}
  BY ChunkOfCatalog
<1>2. CASE Opens(a)
  <2> DEFINE f == [hash |-> a.hash, parts |-> {}, ended |-> FALSE]
  <2>1. Opened(a) = f /\ f \in Files /\ a.from = 0
    BY <1>2 DEF Opened, Opens, Files
  <2>2. Opened(a) # NULL
    BY <2>1, QueryCacheAssumption
  <2>3. Written(a) = [f EXCEPT !.parts = @ \cup {<<a.hash, a.from>>}]
    BY <2>1, <2>2 DEF Written
  <2>4. Written(a) = [hash |-> a.hash, parts |-> {<<a.hash, 0>>}, ended |-> FALSE]
    BY <2>1, <2>3
  <2> HIDE DEF f
  <2>5. {<<a.hash, 0>>} \in SUBSET UNION {Catalog(w) : w \in Versions}
    BY <1>1, <2>1
  <2>6. Written(a) \in Files
    BY <2>4, <2>5 DEF Files
  <2>7. Written(a).hash = a.hash /\ Written(a).parts = {<<a.hash, 0>>}
    BY <2>4
  <2>8. [Written(a) EXCEPT !.ended = TRUE] \in Files
    BY <2>6 DEF Files
  <2> QED
    BY <1>2, <2>6, <2>7, <2>8
<1>3. CASE ~Opens(a) /\ file # NULL
  <2>1. file \in Files /\ Opened(a) = file
    BY <1>3 DEF Inv, TypeOK, Opened
  <2>2. Written(a) = [file EXCEPT !.parts = @ \cup {<<a.hash, a.from>>}]
    BY <1>3, <2>1 DEF Written
  <2> DEFINE P == file.parts \cup {<<a.hash, a.from>>}
  <2>3. P \in SUBSET UNION {Catalog(w) : w \in Versions}
    BY <1>1, <2>1 DEF Files
  <2>4. Written(a) = [file EXCEPT !.parts = P]
    BY <2>2
  <2> HIDE DEF P
  <2>5. Written(a) \in Files
    BY <2>1, <2>3, <2>4 DEF Files
  <2>6. Written(a).hash = file.hash /\ Written(a).parts = P /\ Written(a).ended = file.ended
    BY <2>1, <2>4 DEF Files
  <2>7. [Written(a) EXCEPT !.ended = TRUE] \in Files
    BY <2>5 DEF Files
  <2> QED
    BY <1>1, <1>3, <2>1, <2>5, <2>6, <2>7 DEF P
<1>4. CASE ~Opens(a) /\ file = NULL
  BY <1>4 DEF Written, Opened
<1> QED
  BY <1>2, <1>3, <1>4

(* The chunk is added, and the transfer goes on behind it or is at its end.   *)
LEMMA UpdateInv ==
  ASSUME Inv, NEW r \in Requests, Told(r), transfers[r].answer.code \in {"more", "end"},
         Update(transfers[r].answer), UNCHANGED <<version, running>>,
         transfers' = [transfers EXCEPT ![r] =
                         IF transfers[r].answer.code = "more"
                         THEN Asked(transfers[r].answer.from + 1, NULL) ELSE NULL]
  PROVE  Inv'
<1> PICK a : a = transfers[r].answer
  OBVIOUS
<1> DEFINE next == IF a.code = "more" THEN Asked(a.from + 1, NULL) ELSE NULL
           chunk == <<a.hash, a.from>>
<1>1. /\ running /\ transfers[r] \in Transfers /\ transfers[r] # NULL
      /\ a.hash \in Versions /\ a.hash # NULL /\ a.from \in 0 .. Chunks - 1
      /\ a.from = transfers[r].from
      /\ a.hash = version \/ {a.hash, version} \subseteq torn
      /\ a.code = "more" => a.from + 1 \in 0 .. Chunks - 1
      /\ a.code = "end" => a.from + 1 = Chunks
      /\ a.code \in {"more", "end"}
  BY Answered
<1>2. /\ hash' = a.hash
      /\ container' = (IF a.from = 0 THEN {} ELSE container) \cup {chunk}
      /\ IF a.code = "end" /\ Written(a) # NULL
         THEN file' = NULL /\ disk' = [Written(a) EXCEPT !.ended = TRUE]
         ELSE file' = Written(a) /\ disk' = IF Opens(a) THEN NULL ELSE disk
      /\ torn' = (IF Tears(a) THEN torn \cup {a.hash} ELSE torn)
      /\ version' = version /\ running' = running
      /\ transfers' = [transfers EXCEPT ![r] = next]
  BY DEF Update
<1>3. a.code = "more" => /\ next \in Transfers /\ next # NULL
                         /\ next.from = a.from + 1 /\ next.answer = NULL
  BY <1>1, AskedIsTransfer
<1>4. a.code = "end" => next = NULL
  OBVIOUS
<1>5. next \in Transfers \cup {NULL} /\ a.from \in Nat
  BY <1>1, <1>3, <1>4
<1> HIDE DEF next
<1>6. /\ transfers \in [Requests -> Transfers \cup {NULL}] /\ version \in Versions
      /\ torn \subseteq Versions /\ torn \subseteq torn'
      /\ container \subseteq UNION {Catalog(v) : v \in Versions}
  BY <1>2 DEF Inv, TypeOK
<1>7. transfers'[r] = next /\ \A s \in Requests : s # r => transfers'[s] = transfers[s]
  BY <1>2, <1>6
<1>8. /\ Opens(a) => /\ Written(a) \in Files /\ Written(a).hash = a.hash
                     /\ Written(a).parts = {<<a.hash, 0>>}
      /\ ~Opens(a) /\ file # NULL =>
           /\ Written(a) \in Files /\ Written(a).hash = file.hash
           /\ Written(a).parts = file.parts \cup {chunk}
      /\ ~Opens(a) /\ file = NULL => Written(a) = NULL
      /\ Written(a) # NULL => [Written(a) EXCEPT !.ended = TRUE] \in Files
  BY <1>1, WrittenIsTyped
<1>9. chunk \in Catalog(a.hash) /\ chunk \in UNION {Catalog(v) : v \in Versions}
  BY <1>1, ChunkOfCatalog
<1>10. TypeOK'
  <2>1. torn' \subseteq Versions /\ container' \subseteq UNION {Catalog(v) : v \in Versions}
    BY <1>1, <1>2, <1>6, <1>9
  <2>2. file' \in Files \cup {NULL} /\ disk' \in Files \cup {NULL}
    BY <1>2, <1>8 DEF Inv, TypeOK
  <2>3. transfers' \in [Requests -> Transfers \cup {NULL}]
    BY <1>2, <1>5, <1>6
  <2> QED
    BY <1>1, <1>2, <2>1, <2>2, <2>3 DEF Inv, TypeOK
<1>11. \A s \in Requests : TransferInv(s)'
  <2>1. hash' = version' \/ {hash', version'} \subseteq torn'
    BY <1>1, <1>2, <1>6
  <2>2. ASSUME NEW s \in Requests, s # r PROVE TransferInv(s)'
    BY <1>1, <1>2, <1>6, <1>7, <2>1, <2>2 DEF Inv, TransferInv
  <2>3. TransferInv(r)'
    BY <1>1, <1>2, <1>3, <1>4, <1>7, <2>1 DEF TransferInv
  <2> QED
    BY <2>2, <2>3
<1>12. /\ \A s \in Requests : s # r => (HalfWay(s) <=> HalfWay(s)')
       /\ HalfWay(r)' <=> a.code = "more"
       /\ HalfWay(r) <=> a.from > 0
  BY <1>1, <1>3, <1>4, <1>5, <1>7 DEF HalfWay
<1>13. a.code = "more" => transfers'[r].from = a.from + 1
  BY <1>3, <1>7
<1>14. a.hash \notin torn' => a.hash = version /\ a.hash \notin torn
  BY <1>1, <1>6
(* A transfer that had what was before it still has it. *)
<1>15. ASSUME NEW s \in Requests, s # r, NEW parts, NEW h, HalfWay(s), Received(s, parts, h)
       PROVE  HalfWay(s)' /\ \A k \in 0 .. transfers'[s].from - 1 : <<h, k>> \in parts
  BY <1>7, <1>12, <1>15 DEF Received
(* And the one that got the chunk has that as well. *)
<1>16. ASSUME NEW parts, \A k \in 0 .. a.from - 1 : <<a.hash, k>> \in parts
       PROVE  \A k \in 0 .. a.from : <<a.hash, k>> \in parts \cup {chunk}
  BY <1>5, <1>16
<1>17. ContainerInv'
  <2> SUFFICES ASSUME a.hash \notin torn'
               PROVE  /\ container' \subseteq Catalog(a.hash)
                      /\ container' = Catalog(a.hash)
                           \/ \E s \in Requests : HalfWay(s)' /\
                                \A k \in 0 .. transfers'[s].from - 1 : <<a.hash, k>> \in container'
    BY <1>1, <1>2 DEF ContainerInv, Received
  <2>1. CASE a.from = 0
    <3>1. container' = {<<a.hash, 0>>} /\ container' \subseteq Catalog(a.hash)
      BY <1>2, <1>9, <2>1
    <3>2. CASE a.code = "more"
      <4>1. \A k \in 0 .. transfers'[r].from - 1 : <<a.hash, k>> \in container'
        BY <1>13, <2>1, <3>1, <3>2
      <4> QED
        BY <1>12, <3>1, <3>2, <4>1
    <3>3. CASE a.code = "end"
      <4>1. \A k \in 0 .. Chunks - 1 : <<a.hash, k>> \in container'
        BY <1>1, <2>1, <3>1, <3>3
      <4> QED
        BY <3>1, <4>1, WholeCatalog
    <3> QED
      BY <1>1, <3>2, <3>3
  <2>2. CASE a.from > 0
    <3>1. hash = a.hash /\ hash \notin torn /\ hash # NULL
      BY <1>1, <1>14, <2>2 DEF Inv, TransferInv
    <3>2. container' = container \cup {chunk}
      BY <1>2, <2>2
    <3>3. /\ container \subseteq Catalog(a.hash)
          /\ container = Catalog(a.hash)
               \/ \E s \in Requests : HalfWay(s) /\ Received(s, container, a.hash)
      BY <3>1 DEF Inv, ContainerInv
    <3>4. container' \subseteq Catalog(a.hash)
      BY <1>9, <3>2, <3>3
    <3>5. CASE container = Catalog(a.hash)
      BY <1>9, <3>2, <3>5
    <3>6. CASE \E s \in Requests : s # r /\ HalfWay(s) /\ Received(s, container, a.hash)
      BY <1>15, <3>2, <3>4, <3>6
    <3>7. CASE Received(r, container, a.hash)
      <4>1. \A k \in 0 .. a.from : <<a.hash, k>> \in container'
        BY <1>1, <1>16, <3>2, <3>7 DEF Received
      <4>2. CASE a.code = "more"
        <5>1. \A k \in 0 .. transfers'[r].from - 1 : <<a.hash, k>> \in container'
          BY <1>5, <1>13, <4>1, <4>2
        <5> QED
          BY <1>12, <3>4, <4>2, <5>1
      <4>3. CASE a.code = "end"
        <5>1. \A k \in 0 .. Chunks - 1 : <<a.hash, k>> \in container'
          BY <1>1, <1>5, <4>1, <4>3
        <5> QED
          BY <3>4, <5>1, WholeCatalog
      <4> QED
        BY <1>1, <4>2, <4>3
    <3> QED
      BY <3>3, <3>5, <3>6, <3>7
  <2> QED
    BY <1>5, <2>1, <2>2
(* What is in the file that is not torn. *)
<1>18. ASSUME Written(a) # NULL, Written(a).hash \notin torn'
       PROVE  /\ Written(a).hash = a.hash /\ a.hash = version
              /\ Written(a).parts \subseteq Catalog(a.hash)
              /\ \A k \in 0 .. a.from : <<a.hash, k>> \in Written(a).parts
              /\ \A s \in Requests : s # r /\ HalfWay(s) => Received(s, Written(a).parts, a.hash)
  <2>1. CASE Opens(a)
    <3>1. a.from = 0 /\ Written(a).hash = a.hash /\ Written(a).parts = {<<a.hash, 0>>}
      BY <1>8, <2>1 DEF Opens
    <3>2. \A s \in Requests : ~HalfWay(s)
      BY <1>2, <1>18, <2>1, <3>1 DEF Tears
    <3> QED
      BY <1>9, <1>14, <1>18, <3>1, <3>2
  <2>2. CASE ~Opens(a) /\ file # NULL
    <3>1. Written(a).hash = file.hash /\ Written(a).parts = file.parts \cup {chunk}
      BY <1>8, <2>2
    <3>2. /\ file.hash = version /\ file.parts \subseteq Catalog(file.hash)
          /\ \A s \in Requests : HalfWay(s) => Received(s, file.parts, file.hash)
      BY <1>6, <1>18, <2>2, <3>1 DEF Inv, FileInv
    <3>3. a.hash = version
      BY <1>1, <1>6, <1>18, <3>1, <3>2
    <3>4. \A k \in 0 .. a.from - 1 : <<a.hash, k>> \in file.parts
      <4>1. CASE a.from > 0
        BY <1>1, <1>12, <3>2, <3>3, <4>1 DEF Received
      <4>2. CASE a.from = 0
        BY <4>2
      <4> QED
        BY <1>5, <4>1, <4>2
    <3>5. \A k \in 0 .. a.from : <<a.hash, k>> \in Written(a).parts
      BY <1>16, <3>1, <3>4
    <3>6. \A s \in Requests : HalfWay(s) => Received(s, Written(a).parts, a.hash)
      BY <3>1, <3>2, <3>3 DEF Received
    <3>7. Written(a).parts \subseteq Catalog(a.hash)
      BY <1>9, <3>1, <3>2, <3>3
    <3> QED
      BY <3>1, <3>2, <3>3, <3>5, <3>6, <3>7
  <2> QED
    BY <1>8, <1>18, <2>1, <2>2
<1>19. FileInv'
  <2> SUFFICES ASSUME file' # NULL PROVE FileInv'
    BY DEF FileInv
  <2>1. file' = Written(a) /\ Written(a) # NULL /\ a.code = "more"
    BY <1>1, <1>2
  <2> SUFFICES ASSUME Written(a).hash \notin torn'
               PROVE  FileInv'
    BY <1>1, <1>2, <2>1 DEF FileInv
  <2>2. /\ Written(a).hash = a.hash /\ a.hash = version
        /\ Written(a).parts \subseteq Catalog(a.hash)
        /\ \A k \in 0 .. a.from : <<a.hash, k>> \in Written(a).parts
        /\ \A s \in Requests : s # r /\ HalfWay(s) => Received(s, Written(a).parts, a.hash)
    BY <1>18, <2>1
  <2>3. HalfWay(r)'
    BY <1>12, <2>1
  <2>4. ASSUME NEW s \in Requests, HalfWay(s)'
        PROVE  \A k \in 0 .. transfers'[s].from - 1 : <<a.hash, k>> \in Written(a).parts
    <3>1. CASE s = r
      BY <1>5, <1>13, <2>1, <2>2, <3>1
    <3>2. CASE s # r
      BY <1>12, <1>15, <2>2, <2>4, <3>2
    <3> QED
      BY <3>1, <3>2
  <2> QED
    BY <1>1, <1>2, <2>1, <2>2, <2>3, <2>4 DEF FileInv, Received
<1>20. DiskInv'
  <2>1. CASE a.code = "end" /\ Written(a) # NULL
    <3>1. Written(a) \in Files
      BY <1>8, <2>1
    <3>2. disk' = [Written(a) EXCEPT !.ended = TRUE]
      BY <1>2, <2>1
    <3>3. disk'.hash = Written(a).hash /\ disk'.parts = Written(a).parts /\ disk'.ended
      BY <3>1, <3>2 DEF Files
    <3>4. ASSUME disk'.hash \notin torn'
          PROVE  disk'.parts = Catalog(disk'.hash)
      <4>1. /\ Written(a).hash = a.hash /\ Written(a).parts \subseteq Catalog(a.hash)
            /\ \A k \in 0 .. a.from : <<a.hash, k>> \in Written(a).parts
        BY <1>18, <2>1, <3>3, <3>4
      <4>2. \A k \in 0 .. Chunks - 1 : <<a.hash, k>> \in Written(a).parts
        BY <1>1, <1>5, <2>1, <4>1
      <4> QED
        BY <3>3, <4>1, <4>2, WholeCatalog
    <3> QED
      BY <3>3, <3>4 DEF DiskInv
  <2>2. CASE ~ (a.code = "end" /\ Written(a) # NULL)
    <3>1. disk' = NULL \/ disk' = disk
      BY <1>2, <2>2
    <3> QED
      BY <1>6, <3>1 DEF Inv, DiskInv
  <2> QED
    BY <2>1, <2>2
<1>21. StoppedInv'
  BY <1>1, <1>2 DEF StoppedInv
<1> QED
  BY <1>10, <1>11, <1>17, <1>19, <1>20, <1>21 DEF Inv

LEMMA ChunkMoreInv ==
  ASSUME Inv, NEW r \in Requests, ChunkMore(r)
  PROVE  Inv'
<1>1. /\ Told(r) /\ transfers[r].answer.code = "more" /\ Update(transfers[r].answer)
      /\ transfers' = [transfers EXCEPT ![r] = Asked(transfers[r].answer.from + 1, NULL)]
      /\ UNCHANGED <<version, running>>
  BY DEF ChunkMore
<1> QED
  BY <1>1, UpdateInv

(* What is under the hash that was current stays, or has been completed. *)
LEMMA ChunkEndInv ==
  ASSUME Inv, NEW r \in Requests, ChunkEnd(r)
  PROVE  Inv'
<1>1. /\ Told(r) /\ transfers[r].answer.code \in {"end", "cached"}
      /\ transfers' = [transfers EXCEPT ![r] = NULL]
      /\ UNCHANGED <<version, running>>
  BY DEF ChunkEnd
<1>2. CASE transfers[r].answer.code = "end"
  <2>1. Update(transfers[r].answer) /\ transfers[r].answer.code # "more"
    BY <1>2 DEF ChunkEnd
  <2> QED
    BY <1>1, <1>2, <2>1, UpdateInv
<1>3. CASE transfers[r].answer.code = "cached"
  <2>1. UNCHANGED <<memory, disk, torn>>
    BY <1>3 DEF ChunkEnd
  <2>2. transfers \in [Requests -> Transfers \cup {NULL}]
    BY DEF Inv, TypeOK
  <2>3. transfers'[r] = NULL /\ \A s \in Requests : s # r => transfers'[s] = transfers[s]
    BY <1>1, <2>2
  <2>4. transfers[r].from = 0
    BY <1>1, <1>3 DEF Inv, TransferInv, Told
  <2>5. TypeOK'
    BY <1>1, <2>1, <2>2 DEF Inv, TypeOK, memory
  <2>6. \A s \in Requests : TransferInv(s)'
    BY <1>1, <2>1, <2>3 DEF Inv, TransferInv, memory
  <2>7. \A s \in Requests : /\ HalfWay(s) <=> HalfWay(s)'
                            /\ HalfWay(s) => transfers'[s].from = transfers[s].from
    BY <2>3, <2>4 DEF HalfWay
  <2> QED
    BY <1>1, <2>1, <2>5, <2>6, <2>7, MemoryKept
<1> QED
  BY <1>1, <1>2, <1>3
-----------------------------------------------------------------------------
LEMMA StopInv == ASSUME Inv, Stop PROVE Inv'
<1>1. /\ running' = FALSE /\ version' = version
      /\ IF file = NULL THEN UNCHANGED <<disk, torn>>
         ELSE disk' \in {disk, file} /\ torn' = torn \cup {file.hash}
      /\ hash' = NULL /\ container' = {} /\ file' = NULL
      /\ transfers' = [r \in Requests |-> NULL]
  BY DEF Stop
<1>2. TypeOK'
  <2>1. file # NULL => file \in Files /\ file.hash \in Versions
    BY DEF Inv, TypeOK, Files
  <2>2. disk' \in Files \cup {NULL} /\ torn' \subseteq Versions
    BY <1>1, <2>1 DEF Inv, TypeOK
  <2> QED
    BY <1>1, <2>2 DEF Inv, TypeOK
<1>3. ContainerInv' /\ FileInv' /\ StoppedInv' /\ \A r \in Requests : TransferInv(r)'
  BY <1>1 DEF ContainerInv, FileInv, StoppedInv, TransferInv
<1>4. DiskInv'
  <2>1. CASE disk' = disk
    <3>1. torn \subseteq torn'
      BY <1>1
    <3> QED
      BY <2>1, <3>1 DEF Inv, DiskInv
  <2>2. CASE file # NULL /\ disk' = file
    BY <1>1, <2>2 DEF DiskInv
  <2> QED
    BY <1>1, <2>1, <2>2
<1> QED
  BY <1>2, <1>3, <1>4 DEF Inv

(* No transfer is under way while the client is stopped; what is loaded is what *)
(* the file held when it was closed.                                           *)
LEMMA StartInv == ASSUME Inv, Start PROVE Inv'
<1>1. /\ ~running /\ running' = TRUE /\ file' = NULL
      /\ IF UseCache /\ disk # NULL
         THEN hash' = disk.hash /\ container' = IF disk.ended THEN disk.parts ELSE {}
         ELSE hash' = NULL /\ container' = {}
      /\ UNCHANGED <<version, transfers, disk, torn>>
  BY DEF Start, Load
<1>2. \A r \in Requests : transfers[r] = NULL
  BY <1>1 DEF Inv, TransferInv
<1>3. disk # NULL => /\ disk.hash \in Versions /\ disk.hash # NULL
                     /\ disk.parts \subseteq UNION {Catalog(v) : v \in Versions}
  BY Constants DEF Inv, TypeOK, Files
<1>4. TypeOK'
  BY <1>1, <1>3 DEF Inv, TypeOK
<1>5. ContainerInv'
  <2>1. CASE UseCache /\ disk # NULL
    <3>1. disk.hash \notin torn => disk.ended /\ disk.parts = Catalog(disk.hash)
      BY <2>1 DEF Inv, DiskInv
    <3> QED
      BY <1>1, <1>3, <2>1, <3>1 DEF ContainerInv
  <2>2. CASE ~(UseCache /\ disk # NULL)
    BY <1>1, <2>2 DEF ContainerInv
  <2> QED
    BY <2>1, <2>2
<1>6. FileInv' /\ DiskInv' /\ StoppedInv' /\ \A r \in Requests : TransferInv(r)'
  BY <1>1, <1>2 DEF Inv, FileInv, DiskInv, StoppedInv, TransferInv
<1> QED
  BY <1>4, <1>5, <1>6 DEF Inv
-----------------------------------------------------------------------------
LEMMA StutterInv == ASSUME Inv, UNCHANGED vars PROVE Inv'
<1>1. TypeOK'
  BY DEF Inv, TypeOK, vars, memory
<1>2. UNCHANGED <<memory, disk, running, version, transfers, torn>>
  BY DEF vars
<1>3. \A r \in Requests : TransferInv(r)'
  BY <1>2 DEF Inv, TransferInv, memory
<1>4. \A r \in Requests : /\ HalfWay(r) <=> HalfWay(r)'
                          /\ HalfWay(r) => transfers'[r].from = transfers[r].from
  BY <1>2 DEF HalfWay
<1> QED
  BY <1>1, <1>2, <1>3, <1>4, MemoryKept

LEMMA NextInv == ASSUME Inv, [Next]_vars PROVE Inv'
<1>1. ASSUME NEW r \in Requests, Request(r) PROVE Inv'
  BY <1>1, RequestInv
<1>2. ASSUME NEW r \in Requests, Serve(r) PROVE Inv'
  BY <1>2, ServeInv
<1>3. ASSUME NEW r \in Requests, ChunkMore(r) PROVE Inv'
  BY <1>3, ChunkMoreInv
<1>4. ASSUME NEW r \in Requests, ChunkEnd(r) PROVE Inv'
  BY <1>4, ChunkEndInv
<1>5. ASSUME NEW r \in Requests, Failed(r) PROVE Inv'
  BY <1>5, FailedInv
<1> QED
  BY <1>1, <1>2, <1>3, <1>4, <1>5, RotateInv, StopInv, StartInv, StutterInv DEF Next
-----------------------------------------------------------------------------
(* Every transfer is answered from where it is; what is missing under the    *)
(* hash of now is still ahead of a transfer; what a transfer has brought is  *)
(* in the open file; and a file is closed only when it is whole.             *)
THEOREM QueryCacheInvariant == Spec => []Inv
<1>1. Init => Inv
  BY InitInv
<1>2. Inv /\ [Next]_vars => Inv'
  BY NextInv
<1> QED
  BY <1>1, <1>2, PTL DEF Spec

(* The state of a query cache is what its code declares it to be.            *)
THEOREM QueryCacheTypeCorrect == Spec => []TypeOK
<1>1. Inv => TypeOK
  BY DEF Inv
<1> QED
  BY <1>1, QueryCacheInvariant, PTL

(* At rest the client has, under its hash, the whole catalog of that hash    *)
(* and nothing else: sent or loaded, with any number of transfers that       *)
(* overlap and clients that stop, but for the catalogs of which a transfer   *)
(* or a file was torn (querycache.c: querycache_update, querycache_load).     *)
THEOREM WholeAtRest == Spec => []WholeUnderItsHash
<1>1. ASSUME Inv PROVE WholeUnderItsHash
  <2>1. Rest => \A r \in Requests : ~HalfWay(r)
    BY DEF Rest, HalfWay
  <2> QED
    BY <1>1, <2>1 DEF Inv, ContainerInv, WholeUnderItsHash
<1> QED
  BY <1>1, QueryCacheInvariant, PTL
=============================================================================
