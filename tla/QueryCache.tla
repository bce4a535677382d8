----------------------------- MODULE QueryCache -----------------------------
(***************************************************************************)
(* The dashboard's query (GET /api/dashboard-query, lib/dashboard.mjs)     *)
(* over the index of the markdown memory (lib/md_retriever.mjs) and the    *)
(* cache of answers in SQLite (lib/structural_query_cache.mjs).            *)
(*                                                                         *)
(* The documents change on disk under the servers: each is shown to some   *)
(* zones, until it is edited, restricted or revoked.  Every server holds   *)
(* an index it rebuilds when asked after IndexTtl; the cache is one file   *)
(* for all of them and outlives each.  An entry's key holds the zone and a *)
(* signature of what the index shows to that zone; the signature is taken  *)
(* before the cache is read, and the answer made after it, with the index  *)
(* of that later moment.  A document here is one version of its text; the  *)
(* query, scores and hashes are left out.  Times are ages: they grow with  *)
(* every Tick up to Horizon, beyond which nothing tells them apart.        *)
(***************************************************************************)
EXTENDS Integers, FiniteSetsExt

CONSTANTS
    Servers, Zones,
    Corpora,        \* what the disk may show: functions from Zones to sets of documents
    IndexTtl,       \* DIZZY_RAG_CACHE_MS
    CacheTtl,       \* ttlMs of an entry
    Batch,          \* batchSize of an eviction
    Slack,          \* bound: how long a request is at work
    MaxEdits

CacheAssumption ==
    /\ \A c \in Corpora : DOMAIN c = Zones
    /\ {IndexTtl, CacheTtl, Batch} \subseteq Nat \ {0}
    /\ {Slack, MaxEdits} \subseteq Nat

VARIABLES
    corpus,
    index,      \* of each server: what it shows and its age
    rows,       \* the table: key -> what it answers, and its age
    request,    \* of each server: where its request stands
    shown,      \* history: how long ago each zone was last shown each document
    oldest,     \* history: the longest of these in any answer
    edits

caching == <<corpus, index, rows, request, shown, oldest, edits>>

Documents == UNION {c[z] : c \in Corpora, z \in Zones}
Horizon == IndexTtl + CacheTtl + Slack
NoIndex == [shows |-> [z \in Zones |-> {}], age |-> Horizon]
Idle == [at |-> "idle", zone |-> CHOOSE z \in Zones : TRUE, signature |-> {}, spent |-> 0,
         answer |-> {}]
Keys == Zones \X {c[z] : c \in Corpora, z \in Zones}

Init ==
    /\ corpus \in Corpora /\ rows = <<>> /\ oldest = 0 /\ edits = 0
    /\ index = [s \in Servers |-> NoIndex] /\ request = [s \in Servers |-> Idle]
    /\ shown = [z \in Zones |-> [d \in Documents |-> IF d \in corpus[z] THEN 0 ELSE Horizon]]

(* The history of an answer: how long its zone has not been shown what it  *)
(* holds.                                                                  *)
Answers(s, answer) == oldest' = Max({shown[request[s].zone][d] : d \in answer} \cup {oldest})

Reach(s, place) == request[s].at = place
Goes(s, r) == request' = [request EXCEPT ![s] = r]

IndexForEver(s) == IF index[s] # NoIndex THEN index[s] ELSE [shows |-> corpus, age |-> 0]

(* getIndex: the index in memory, or a new one when it has come of age.    *)
IndexNow(s) == IF index[s].age < IndexTtl THEN index[s] ELSE [shows |-> corpus, age |-> 0]


UsesIndex(s) == index' = [index EXCEPT ![s] = IndexNow(s)]

(* The documents the index may use for a zone: those not revoked, and not  *)
(* kept from the zone.                                                     *)
ShownToAll(ix, zone) == Documents
ShownTo(ix, zone) == ix.shows[zone]

-----------------------------------------------------------------------------
(* The signature of the sources, which is part of the key.                 *)
Sign(s, zone) ==
    /\ Reach(s, "idle")
    /\ UsesIndex(s)
    /\ Goes(s, [Idle EXCEPT !.at = "signed", !.zone = zone,
                            !.signature = ShownTo(IndexNow(s), zone)])
    /\ UNCHANGED <<corpus, rows, shown, oldest, edits>>

CacheKey(s) == <<request[s].zone, request[s].signature>>
ExpiredLate(row) == row.age > CacheTtl
Expired(row) == row.age >= CacheTtl

(* lookup: a SELECT, and then a statement for what was found.              *)
Lookup(s) ==
    /\ Reach(s, "signed")
    /\ \/ CacheKey(s) \notin DOMAIN rows /\ Goes(s, [request[s] EXCEPT !.at = "missed"])
       \/ /\ CacheKey(s) \in DOMAIN rows /\ Expired(rows[CacheKey(s)])
          /\ Goes(s, [request[s] EXCEPT !.at = "expired"])
       \/ /\ CacheKey(s) \in DOMAIN rows /\ ~Expired(rows[CacheKey(s)])
          /\ Goes(s, [request[s] EXCEPT !.at = "hit", !.answer = rows[CacheKey(s)].answer])
    /\ UNCHANGED <<corpus, index, rows, shown, oldest, edits>>

Without(ks) == [k \in DOMAIN rows \ ks |-> rows[k]]

(* The DELETE of an expired entry: whatever stands under the key by now.   *)
Purge(s) ==
    /\ Reach(s, "expired")
    /\ rows' = Without({CacheKey(s)})
    /\ Goes(s, [request[s] EXCEPT !.at = "missed"])
    /\ UNCHANGED <<corpus, index, shown, oldest, edits>>

(* The UPDATE of the use of an entry that was hit, which may be gone.      *)
Touch(s) ==
    /\ Reach(s, "hit")
    /\ Answers(s, request[s].answer) /\ Goes(s, Idle)
    /\ UNCHANGED <<corpus, index, rows, shown, edits>>

(* getRelevantMarkdownSnippets: the index is asked for a second time.      *)
Retrieve(s) ==
    /\ Reach(s, "missed")
    /\ UsesIndex(s)
    /\ Goes(s, [request[s] EXCEPT !.at = "retrieved",
                                  !.answer = ShownTo(IndexNow(s), request[s].zone)])
    /\ UNCHANGED <<corpus, rows, shown, oldest, edits>>

(* store: a new entry, or a new answer and expiry for an old one.          *)
Store(s) ==
    /\ Reach(s, "retrieved")
    /\ rows' = [k \in DOMAIN rows \cup {CacheKey(s)} |->
                   IF k # CacheKey(s) THEN rows[k]
                   ELSE [answer |-> request[s].answer, age |-> 0]]
    /\ Answers(s, request[s].answer) /\ Goes(s, Idle)
    /\ UNCHANGED <<corpus, index, shown, edits>>

(* pruneUnderMemoryPressure: what has expired, then a batch of other       *)
(* entries, those unused longest; the order of use is left out.            *)
Batches(ks) == kSubset(IF Batch < Cardinality(ks) THEN Batch ELSE Cardinality(ks), ks)
Prune ==
    /\ rows # <<>>
    /\ LET expired == {k \in DOMAIN rows : Expired(rows[k])}
       IN  \E evicted \in Batches(DOMAIN rows \ expired) : rows' = Without(expired \cup evicted)
    /\ UNCHANGED <<corpus, index, request, shown, oldest, edits>>

(* The watchdog of lib/daemon_hygiene.mjs finds memory short, or is forced.*)
CheckNow == Prune

-----------------------------------------------------------------------------
(* The disk changes under the servers; time passes; a server is restarted. *)
Edit ==
    /\ edits < MaxEdits /\ edits' = edits + 1
    /\ corpus' \in Corpora \ {corpus}
    /\ shown' = [z \in Zones |-> [d \in Documents |-> IF d \in corpus'[z] THEN 0 ELSE shown[z][d]]]
    /\ UNCHANGED <<index, rows, request, oldest>>

Older(age) == IF age < Horizon THEN age + 1 ELSE age

Tick ==
    /\ \A s \in Servers : ~Reach(s, "idle") => request[s].spent < Slack
    /\ index' = [s \in Servers |-> [index[s] EXCEPT !.age = Older(@)]]
    /\ rows' = [k \in DOMAIN rows |-> [rows[k] EXCEPT !.age = Older(@)]]
    /\ request' = [s \in Servers |->
          IF Reach(s, "idle") THEN Idle ELSE [request[s] EXCEPT !.spent = @ + 1]]
    /\ shown' = [z \in Zones |-> [d \in Documents |-> IF d \in corpus[z] THEN 0 ELSE Older(shown[z][d])]]
    /\ UNCHANGED <<corpus, oldest, edits>>

Restart(s) ==
    /\ index[s] # NoIndex
    /\ index' = [index EXCEPT ![s] = NoIndex] /\ Goes(s, Idle)
    /\ UNCHANGED <<corpus, rows, shown, oldest, edits>>

Next ==
    \/ \E s \in Servers :
          \/ \E z \in Zones : Sign(s, z)
          \/ Lookup(s) \/ Purge(s) \/ Touch(s) \/ Retrieve(s) \/ Store(s) \/ Restart(s)
    \/ CheckNow \/ Edit \/ Tick

Spec == Init /\ [][Next]_caching

-----------------------------------------------------------------------------
TypeOK ==
    /\ corpus \in Corpora /\ DOMAIN rows \subseteq Keys
    /\ \A k \in DOMAIN rows : rows[k].answer \subseteq Documents
    /\ \A s \in Servers : index[s].age \in 0 .. Horizon /\ request[s].spent \in 0 .. Slack
    /\ \A s \in Servers : request[s].at \in
          {"idle", "signed", "missed", "expired", "hit", "retrieved"}

(* No answer holds a document its zone has not been shown for longer than  *)
(* an index may be old, or an entry whose answer was made after the disk   *)
(* changed under its signature: when the disk is back at what the          *)
(* signature says, that answer is found again.                             *)
AnswersAreFresh == oldest <= Slack + Max({IndexTtl - 1, CacheTtl + Slack - 2})
=============================================================================
