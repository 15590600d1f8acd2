------------------------------ MODULE QueryCache ------------------------------
(***************************************************************************)
(* One query cache: the catalog of items, offers, configurations or maps    *)
(* that the client keeps in memory and in a file under the hash the service  *)
(* gave it (src/querycache.c, src/xmpp_wf/get/xmpp_iq_querycache.c).         *)
(*                                                                         *)
(* A transfer asks for the catalog chunk after chunk, each of them from any  *)
(* masterserver, so that the answers of two transfers come in any order.     *)
(* The client may stop between two handlers and start again from its file.   *)
(* The service is not in the repository: it has one catalog at a time, tells *)
(* its hash with every chunk, and says CACHED to whom has that hash.         *)
(***************************************************************************)
EXTENDS Naturals

CONSTANTS Requests,     \* the transfers that may be under way at once
          UseCache,     \* cvar.query_cache
          Chunks,       \* the chunks of every catalog
          MaxVersion,   \* bound: the catalogs the service has had, by hash
          NULL

Versions == 1 .. MaxVersion
Catalog(v) == {<<v, k>> : k \in 0 .. Chunks - 1}
Files == [hash : Versions, parts : SUBSET UNION {Catalog(v) : v \in Versions}, ended : BOOLEAN]
Answers == [code : {"cached", "more", "end"}, hash : Versions, from : 0 .. Chunks - 1]
Transfers ==
  [from : 0 .. Chunks - 1, cached : Versions \cup {NULL}, answer : Answers \cup {NULL}]

ASSUME QueryCacheAssumption ==
  /\ UseCache \in BOOLEAN
  /\ Chunks \in Nat \ {0} /\ MaxVersion \in Nat \ {0}
  /\ NULL \notin Nat /\ NULL \notin Files /\ NULL \notin Answers /\ NULL \notin Transfers

VARIABLES
  version,    \* the hash of the service's catalog
  transfers,  \* what each transfer has asked for, and the answer on its way
  running,    \* the client runs
  hash,       \* cache->hash
  container,  \* cache->container: which chunks of which catalog
  file,       \* cache->file: what was written to it since it was opened
  disk,       \* what a client that starts finds in the file
  torn        \* history: the catalogs of which a transfer did not run through, or
              \* of which the file was opened while another one was half way

memory == <<hash, container, file>>
vars == <<version, transfers, running, memory, disk, torn>>

Init ==
  /\ version = 1 /\ transfers = [r \in Requests |-> NULL] /\ running = TRUE
  /\ hash = NULL /\ container = {} /\ file = NULL
  /\ disk = NULL /\ torn = {}

-----------------------------------------------------------------------------
(* The client asks *)

Asked(from, cached) == [from |-> from, cached |-> cached, answer |-> NULL]

(* querycache_request(): the first chunk, unless what we have is current.    *)
Request(r) ==
  /\ running /\ transfers[r] = NULL
  /\ transfers' = [transfers EXCEPT ![r] = Asked(0, IF UseCache THEN hash ELSE NULL)]
  /\ UNCHANGED <<version, running, memory, disk, torn>>

-----------------------------------------------------------------------------
(* The service *)

Answer(q) ==
  IF q.from = 0 /\ q.cached = version
  THEN [code |-> "cached", hash |-> version, from |-> 0]
  ELSE [code |-> IF q.from + 1 < Chunks THEN "more" ELSE "end",
        hash |-> version, from |-> q.from]

Serve(r) ==
  /\ transfers[r] # NULL /\ transfers[r].answer = NULL
  /\ transfers' = [transfers EXCEPT ![r].answer = Answer(transfers[r])]
  /\ UNCHANGED <<version, running, memory, disk, torn>>

UnderWay(r) == transfers[r] # NULL /\ (transfers[r].from > 0 \/ transfers[r].answer # NULL)

(* The catalog is exchanged, perhaps under a transfer.                       *)
Rotate ==
  /\ version < MaxVersion
  /\ version' = version + 1
  /\ torn' = IF \E r \in Requests : UnderWay(r) THEN torn \cup {version, version'} ELSE torn
  /\ UNCHANGED <<transfers, running, memory, disk>>

-----------------------------------------------------------------------------
(* The client is answered *)

(* A transfer that was broken off has left the file open.                    *)
Opens(a) == a.from = 0 /\ UseCache /\ file = NULL

Opened(a) ==
  IF Opens(a) THEN [hash |-> a.hash, parts |-> {}, ended |-> FALSE] ELSE file

(* The end of another transfer will close a file that lacks its first chunks. *)
HalfWay(r) == transfers[r] # NULL /\ transfers[r].from > 0
Tears(a) == Opens(a) /\ \E r \in Requests : HalfWay(r)

Written(a) ==
  IF Opened(a) = NULL THEN NULL
  ELSE [Opened(a) EXCEPT !.parts = @ \cup {<<a.hash, a.from>>}]

(* What was there is not forgotten when a new catalog begins.                *)
MutantUpdate(a) ==
  /\ hash' = a.hash
  /\ container' = container \cup {<<a.hash, a.from>>}
  /\ IF a.code = "end" /\ Written(a) # NULL
     THEN file' = NULL /\ disk' = [Written(a) EXCEPT !.ended = TRUE]
     ELSE file' = Written(a) /\ disk' = IF Opens(a) THEN NULL ELSE disk
  /\ torn' = IF Tears(a) THEN torn \cup {a.hash} ELSE torn

(* querycache_update(): opening the file empties it, closing it completes it. *)
Update(a) ==
  /\ hash' = a.hash
  /\ container' = (IF a.from = 0 THEN {} ELSE container) \cup {<<a.hash, a.from>>}
  /\ IF a.code = "end" /\ Written(a) # NULL
     THEN file' = NULL /\ disk' = [Written(a) EXCEPT !.ended = TRUE]
     ELSE file' = Written(a) /\ disk' = IF Opens(a) THEN NULL ELSE disk
  /\ torn' = IF Tears(a) THEN torn \cup {a.hash} ELSE torn

Told(r) == running /\ transfers[r] # NULL /\ transfers[r].answer # NULL

(* The same chunk is asked for again.                                        *)
MutantChunkMore(r) ==
  LET a == transfers[r].answer IN
  /\ Told(r) /\ a.code = "more"
  /\ Update(a)
  /\ transfers' = [transfers EXCEPT ![r] = Asked(a.from, NULL)]
  /\ UNCHANGED <<version, running>>

(* querycache_request_cb(), XMPP_CHUNK_MORE *)
ChunkMore(r) ==
  LET a == transfers[r].answer IN
  /\ Told(r) /\ a.code = "more"
  /\ Update(a)
  /\ transfers' = [transfers EXCEPT ![r] = Asked(a.from + 1, NULL)]
  /\ UNCHANGED <<version, running>>

(* XMPP_CHUNK_END, XMPP_CHUNK_CACHED: the continuation is called.            *)
ChunkEnd(r) ==
  /\ Told(r) /\ transfers[r].answer.code \in {"end", "cached"}
  /\ IF transfers[r].answer.code = "end" THEN Update(transfers[r].answer)
     ELSE UNCHANGED <<memory, disk, torn>>
  /\ transfers' = [transfers EXCEPT ![r] = NULL]
  /\ UNCHANGED <<version, running>>

(* An error, or the handler expires, whose answer is ignored when it comes.  *)
Failed(r) ==
  /\ running /\ transfers[r] # NULL
  /\ transfers' = [transfers EXCEPT ![r] = NULL]
  /\ torn' = IF transfers[r].from > 0 THEN torn \cup {hash} ELSE torn
  /\ UNCHANGED <<version, running, memory, disk>>

-----------------------------------------------------------------------------
(* Stopping and starting *)

(* querycache_free(), or a crash: the buffer of the file is written, or not. *)
Stop ==
  /\ running /\ running' = FALSE
  /\ IF file = NULL THEN UNCHANGED <<disk, torn>>
     ELSE disk' \in {disk, file} /\ torn' = torn \cup {file.hash}
  /\ hash' = NULL /\ container' = {} /\ file' = NULL
  /\ transfers' = [r \in Requests |-> NULL]
  /\ UNCHANGED version

(* querycache_load(): of a file without its end tag the hash is taken, and   *)
(* no element.                                                               *)
Load ==
  /\ file' = NULL
  /\ IF UseCache /\ disk # NULL
     THEN hash' = disk.hash /\ container' = IF disk.ended THEN disk.parts ELSE {}
     ELSE hash' = NULL /\ container' = {}

Start ==
  /\ ~running /\ running' = TRUE
  /\ Load
  /\ UNCHANGED <<version, transfers, disk, torn>>

Next ==
  \/ \E r \in Requests : \/ Request(r) \/ Serve(r)
                         \/ ChunkMore(r) \/ ChunkEnd(r) \/ Failed(r)
  \/ Rotate \/ Stop \/ Start

Spec == Init /\ [][Next]_vars

(* The service answers and dispatch goes on; nothing need ever be asked.     *)
FairSpec ==
  /\ Spec
  /\ \A r \in Requests : WF_vars(Serve(r)) /\ WF_vars(ChunkMore(r) \/ ChunkEnd(r))

-----------------------------------------------------------------------------
(* Properties *)

TypeOK ==
  /\ version \in Versions /\ running \in BOOLEAN
  /\ hash \in Versions \cup {NULL}
  /\ container \subseteq UNION {Catalog(v) : v \in Versions}
  /\ file \in Files \cup {NULL} /\ disk \in Files \cup {NULL}
  /\ transfers \in [Requests -> Transfers \cup {NULL}]
  /\ torn \subseteq Versions

Rest == \A r \in Requests : transfers[r] = NULL

(* What the client holds under a hash is the whole catalog of that hash and  *)
(* nothing else, as soon as no transfer is under way, whether it was sent or *)
(* loaded after a restart, and however transfers overlapped: unless one of   *)
(* that catalog was broken off, the catalog was exchanged under it, or its   *)
(* file was opened again while a transfer of it was half way, whose end then *)
(* closes it.                                                                *)
WholeUnderItsHash ==
  running /\ Rest /\ hash \notin torn => container = IF hash = NULL THEN {} ELSE Catalog(hash)

(* Why it holds.  Each transfer is answered from where it is, by the service  *)
(* of now or of a torn catalog, ... *)
TransferInv(r) ==
  transfers[r] # NULL =>
    LET q == transfers[r] IN
    /\ running
    /\ q.from > 0 => hash = version \/ {hash, version} \subseteq torn
    /\ q.answer # NULL =>
         /\ q.answer.from = q.from
         /\ q.answer.hash = version \/ {q.answer.hash, version} \subseteq torn
         /\ q.answer.code = "cached" => q.from = 0
         /\ q.answer.code = "more" => q.from + 1 < Chunks
         /\ q.answer.code = "end" => q.from + 1 = Chunks

(* ... what has not been received yet is still ahead of some transfer, ...    *)
Received(r, parts, h) == \A k \in 0 .. transfers[r].from - 1 : <<h, k>> \in parts

ContainerInv ==
  IF hash = NULL THEN container = {}
  ELSE hash \notin torn =>
         /\ container \subseteq Catalog(hash)
         /\ container = Catalog(hash) \/ \E r \in Requests : HalfWay(r) /\ Received(r, container, hash)

(* ... and what a transfer has brought since it began is in the open file.    *)
FileInv ==
  file # NULL =>
    /\ running
    /\ file.hash \notin torn =>
         /\ file.hash = version /\ file.parts \subseteq Catalog(file.hash)
         /\ \E r \in Requests : HalfWay(r)
         /\ \A r \in Requests : HalfWay(r) => Received(r, file.parts, file.hash)

DiskInv ==
  disk # NULL /\ disk.hash \notin torn => disk.ended /\ disk.parts = Catalog(disk.hash)

StoppedInv == ~running => hash = NULL

Inv ==
  /\ TypeOK /\ ContainerInv /\ FileInv /\ DiskInv /\ StoppedInv
  /\ \A r \in Requests : TransferInv(r)

(* Every transfer comes to its end, although others restart the container   *)
(* and the catalog may be exchanged: none is asked to go over and over.      *)
TransfersEnd == \A r \in Requests : (transfers[r] # NULL) ~> (transfers[r] = NULL)
=============================================================================
