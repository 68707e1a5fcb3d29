------------------------------ MODULE QueryPath ------------------------------
(***************************************************************************)
(* POST /v1/query beside the ingestion pipeline: the request reads the     *)
(* knowledge base, looks its cache key up in Redis, searches and answers   *)
(* on a miss, stores the answer under that key and records the query.      *)
(* Every SELECT and every Redis call is a step of its own; ingestion and   *)
(* other queries run in between.                                           *)
(*                                                                         *)
(* All requests ask one question with the same parameters: others have     *)
(* keys of their own. The ranking and the language model are a function of *)
(* the chunks the search sees, so an answer is represented by these and by *)
(* the ones it cites.                                                      *)
(***************************************************************************)
EXTENDS Ingestion

CONSTANTS Queries, AskedKb  \* query requests, the knowledge base of each

ASSUME QueryAssumption == AskedKb \in [Queries -> KnowledgeBases]

VARIABLES
    asking,  \* control state and local values of each query request
    cache    \* query:* entries in Redis, per knowledge base

qvars == <<vars, asking, cache>>

Chunks == Uploads \X Nat
Entry == [key : Nat, seen : SUBSET Chunks, cites : SUBSET Chunks]

AskPc == {"idle", "keyed", "missed", "searched", "answered"}
Asking == [pc : AskPc, key : Nat, seen : SUBSET Chunks, cites : SUBSET Chunks]

NotAsking == [pc |-> "idle", key |-> 0, seen |-> {}, cites |-> {}]

QueryTypeOK ==
    /\ asking \in [Queries -> Asking]
    /\ cache \in [KnowledgeBases -> SUBSET Entry]

\* What build_query selects: the chunks of the documents that read "ready".
Searchable(kb) ==
    {c \in CommittedChunks : KbOf[c[1]] = kb /\ status[c[1]] = "ready"}

Ask(q, from, to) == asking[q].pc = from /\ asking' = [asking EXCEPT ![q] = to]

-----------------------------------------------------------------------------
(* The request *)

LoadVersion(q) ==
    /\ Ask(q, "idle", [NotAsking EXCEPT !.pc = "keyed", !.key = version[AskedKb[q]]])
    /\ UNCHANGED <<vars, cache>>

CacheHit(q) ==
    \E e \in cache[AskedKb[q]] :
        /\ e.key = asking[q].key
        /\ Ask(q, "keyed", [pc |-> "answered", key |-> e.key, seen |-> e.seen, cites |-> e.cites])
        /\ UNCHANGED <<vars, cache>>

\* Mutant of CacheMiss: the Redis error leaves the handler in no state of its own.
RedisErrorEscapes(q) ==
    /\ Ask(q, "keyed", [asking[q] EXCEPT !.pc = "raised"])
    /\ UNCHANGED <<vars, cache>>

\* There is no entry, or Redis fails: get_json returns None for both.
CacheMiss(q) ==
    /\ Ask(q, "keyed", [asking[q] EXCEPT !.pc = "missed"])
    /\ UNCHANGED <<vars, cache>>

\* The best top_k of what is searchable are cited, in a rejection too.
Search(q) ==
    \E hits \in SUBSET Searchable(AskedKb[q]) :
        /\ hits = {} => Searchable(AskedKb[q]) = {}
        /\ Ask(q, "missed", [asking[q] EXCEPT !.pc = "searched", !.cites = hits,
                                              !.seen = Searchable(AskedKb[q])])
        /\ UNCHANGED <<vars, cache>>

\* Mutant of EntryKey: the key is built from the knowledge base as it is now.
LateKey(q) == version[AskedKb[q]]

EntryKey(q) == asking[q].key

\* setex replaces the entry; when Redis fails nothing is stored.
CacheSet(q) ==
    /\ Ask(q, "searched", [asking[q] EXCEPT !.pc = "answered"])
    /\ \/ cache' = [cache EXCEPT ![AskedKb[q]] =
                      {e \in @ : e.key # EntryKey(q)} \cup
                      {[key |-> EntryKey(q), seen |-> asking[q].seen, cites |-> asking[q].cites]}]
       \/ UNCHANGED cache
    /\ UNCHANGED vars

\* Mutant of Record: citations are written while their chunk is being deleted.
RecordUnlocked(q) ==
    /\ Ask(q, "answered", NotAsking)
    /\ cited' = [u \in Uploads |-> cited[u] \cup {b \in chunks[u] : <<u, b>> \in asking[q].cites}]
    /\ UNCHANGED <<apiVars, status, job, chunks, batches, version, queue, run, faults, cache>>

Record(q) ==
    /\ Ask(q, "answered", NotAsking)
    /\ asking[q].cites \subseteq CommittedChunks
    /\ Cite(asking[q].cites)
    /\ UNCHANGED cache

\* The foreign key refuses a citation of a chunk that is gone: the client of an
\* answer that was found gets an error.
RecordFails(q) ==
    /\ Ask(q, "answered", NotAsking)
    /\ ~(asking[q].cites \subseteq CommittedChunks)
    /\ UNCHANGED <<vars, cache>>

\* The embedding provider or the language model fails.
AnswerFails(q) ==
    /\ Ask(q, "missed", NotAsking) \/ Ask(q, "searched", NotAsking)
    /\ UNCHANGED <<vars, cache>>

Answer(q) ==
    \/ LoadVersion(q) \/ CacheHit(q) \/ CacheMiss(q) \/ Search(q) \/ CacheSet(q)
    \/ Record(q) \/ RecordFails(q) \/ AnswerFails(q)

\* query_cache_ttl_seconds passed, or Redis evicts the entry.
Expire(kb) ==
    \E e \in cache[kb] :
        /\ cache' = [cache EXCEPT ![kb] = @ \ {e}]
        /\ UNCHANGED <<vars, asking>>

QueryInit == Init /\ asking = [q \in Queries |-> NotAsking]
                  /\ cache = [kb \in KnowledgeBases |-> {}]

QueryNext ==
    \/ Pipeline /\ UNCHANGED <<asking, cache>>
    \/ \E q \in Queries : Answer(q)
    \/ \E kb \in KnowledgeBases : Expire(kb)

QuerySpec == QueryInit /\ [][QueryNext]_qvars

-----------------------------------------------------------------------------
(* Properties *)

\* "Cache keys are versioned ... so new uploads invalidate stale answers": an
\* answer stored under the current key was computed from everything retrieval
\* can see now, whatever was published between the steps of the request.
CacheComplete ==
    \A kb \in KnowledgeBases : \A e \in cache[kb] :
        e.key = version[kb] => Searchable(kb) \subseteq e.seen

\* A hit under the current key cites only chunks that still exist, although
\* re-ingestion replaces chunks: its history entry can be written.
CurrentHitsResolve ==
    \A kb \in KnowledgeBases : \A e \in cache[kb] :
        e.key = version[kb] => e.cites \subseteq CommittedChunks

\* What freshness there is on the other changes of a document: under the current key
\* an answer is served from a document retrieval no longer selects only if its
\* status is still "processing", since CommitProcessing touches nothing, or if the
\* request that uploaded it marked it failed after its task had been taken. A
\* delivery that is lost leaves both status and key as they are: the answer is then
\* served until it expires.
StaleOnlyDuringRuns ==
    \A kb \in KnowledgeBases : \A e \in cache[kb] :
        e.key = version[kb] =>
            \A u \in {c[1] : c \in e.seen} :
                \/ status[u] \in {"ready", "processing"}
                \/ status[u] = "failed" /\ api[u] = "unavailable"

\* The query path is a refinement of Ingestion: to the pipeline a query is the
\* atomic Cite of its history transaction, so what is shown of Ingestion holds here.
RefinesIngestion == Spec
=============================================================================
