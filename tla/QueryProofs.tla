----------------------------- MODULE QueryProofs -----------------------------
(* Proofs about QueryPath for every set of uploads, workers, faults and      *)
(* query requests.                                                           *)
EXTENDS QueryPath, IngestionProofs

-----------------------------------------------------------------------------
(* To the pipeline a query is one atomic Cite, or nothing *)

LEMMA QueryInitRefines == QueryInit => Init
    BY DEF QueryInit

LEMMA AnswerRefines ==
    ASSUME NEW q \in Queries, Answer(q)
    PROVE  [Next]_vars
    <1>1. CASE Record(q)
        <2>1. asking[q].cites \in SUBSET CommittedChunks
            BY <1>1 DEF Record
        <2>2. Cite(asking[q].cites)
            BY <1>1 DEF Record
        <2>. QED
            BY <2>1, <2>2 DEF Next
    <1>2. CASE ~Record(q)
        BY <1>2 DEF Answer, LoadVersion, CacheHit, CacheMiss, Search, CacheSet, RecordFails, AnswerFails
    <1>. QED
        BY <1>1, <1>2

LEMMA QueryNextRefines ==
    ASSUME [QueryNext]_qvars
    PROVE  [Next]_vars
    <1>1. CASE UNCHANGED qvars
        BY <1>1 DEF qvars
    <1>2. CASE Pipeline /\ UNCHANGED <<asking, cache>>
        BY <1>2 DEF Next
    <1>3. CASE \E q \in Queries : Answer(q)
        BY <1>3, AnswerRefines
    <1>4. CASE \E kb \in KnowledgeBases : Expire(kb)
        BY <1>4 DEF Expire
    <1>. QED
        BY <1>1, <1>2, <1>3, <1>4 DEF QueryNext

\* The query path refines Ingestion: every theorem about the pipeline and its
\* atomic citations holds of requests that read, answer, cache and record in steps.
THEOREM QueryPathRefinesIngestion == QuerySpec => RefinesIngestion
    BY QueryInitRefines, QueryNextRefines, PTL DEF QuerySpec, RefinesIngestion, Spec

\* A citation that a query request records before any run has looked for citations
\* of its chunk stays for ever, and so does the chunk.
THEOREM RecordedCitationsAreKept == QuerySpec => CitationsAreKept
    BY QueryPathRefinesIngestion, EarlyCitationsAreKept, PTL DEF RefinesIngestion

-----------------------------------------------------------------------------
(* What a step may do to a knowledge base whose key it leaves alone *)

\* Only Touch changes an updated_at.
LEMMA VersionFrame ==
    ASSUME TypeInv, [Next]_vars
    PROVE  UNCHANGED version \/ \E u \in Uploads : Touch(u)
    <1>1. ASSUME NEW u \in Uploads, Handle(u) \/ ApiCrash(u)
          PROVE  UNCHANGED version \/ Touch(u)
        BY <1>1 DEF Handle, RejectUpload, StoreFile, RejectDuplicate, PassDuplicateCheck,
            InsertDocument, Dispatch, DispatchRaises, MarkEnqueueFailed, ApiCrash, rows
    <1>2. ASSUME NEW w \in Workers, Work(w) \/ Disturb(w)
          PROVE  UNCHANGED version \/ (Doc(w) \in Uploads /\ Touch(Doc(w)))
        <2>1. CASE UNCHANGED <<apiVars, rows>>
            BY <2>1 DEF rows
        <2>2. CASE CommitProcessing(w)
            BY <2>2 DEF CommitProcessing
        <2>3. CASE CommitReady(w) \/ CommitFailed(w)
            BY <1>2, <2>3, CommitFrame DEF CommitReady, CommitFailed
        <2>. QED
            BY <1>2, <2>1, <2>2, <2>3, RowsFrame
    <1>3. CASE UNCHANGED vars
        BY <1>3 DEF vars, rows
    <1>4. ASSUME NEW S, Cite(S)
          PROVE  UNCHANGED version
        BY <1>4 DEF Cite
    <1>. QED
        BY <1>1, <1>2, <1>3, <1>4 DEF Next, Pipeline, Rest

\* Only a publication changes the chunks of a document, and it touches.
LEMMA ChunksFrame ==
    ASSUME TypeInv, [Next]_vars, NEW u \in Uploads, chunks'[u] # chunks[u]
    PROVE  version'[KbOf[u]] # version[KbOf[u]]
    <1>1. ASSUME NEW v \in Uploads, Handle(v) \/ ApiCrash(v)
          PROVE  UNCHANGED chunks
        BY <1>1 DEF Handle, RejectUpload, StoreFile, RejectDuplicate, PassDuplicateCheck,
            InsertDocument, Dispatch, DispatchRaises, MarkEnqueueFailed, ApiCrash, rows
    <1>2. ASSUME NEW w \in Workers, Work(w) \/ Disturb(w)
          PROVE  UNCHANGED chunks \/ version'[KbOf[u]] # version[KbOf[u]]
        <2>1. CASE CommitReady(w)
            <3>1. u = Doc(w)
                BY <2>1, PublicationFrame
            <3>. QED
                BY <2>1, <3>1, PublicationFrame DEF TypeInv, TypeOK
        <2>2. CASE ~CommitReady(w)
            BY <1>2, <2>2, RowsFrame DEF CommitProcessing, CommitFailed, rows
        <2>. QED
            BY <2>1, <2>2
    <1>3. CASE UNCHANGED vars
        BY <1>3 DEF vars, rows
    <1>4. ASSUME NEW S, Cite(S)
          PROVE  UNCHANGED chunks
        BY <1>4 DEF Cite
    <1>. QED
        BY <1>1, <1>2, <1>3, <1>4 DEF Next, Pipeline, Rest

\* The committed chunks of a knowledge base, whatever its documents read.
Known(kb) == {c \in CommittedChunks : KbOf[c[1]] = kb}

LEMMA ChunkSets ==
    ASSUME NEW kb, NEW c
    PROVE  /\ c \in Known(kb) <=> \E u \in Uploads : \E b \in chunks[u] : c = <<u, b>> /\ KbOf[u] = kb
           /\ c \in Searchable(kb) <=> c \in Known(kb) /\ status[c[1]] = "ready"
    BY DEF Known, Searchable, CommittedChunks

\* Keys only grow; while a key stays, nothing new is searchable and no chunk goes.
LEMMA KeyFrame ==
    ASSUME ChunkInv, [Next]_vars, NEW kb \in KnowledgeBases
    PROVE  /\ version[kb] \in Nat /\ version'[kb] \in Nat /\ version[kb] <= version'[kb]
           /\ version'[kb] = version[kb] => /\ Searchable(kb)' \subseteq Searchable(kb)
                                            /\ Known(kb) \subseteq Known(kb)'
    <1>1. TypeInv /\ version \in [KnowledgeBases -> Nat] /\ version' \in [KnowledgeBases -> Nat]
        BY NextType DEF ChunkInv, TypeInv, TypeOK
    <1>2. version[kb] <= version'[kb]
        BY <1>1, VersionFrame DEF Touch
    <1>3. ASSUME version'[kb] = version[kb], NEW c \in Known(kb)
          PROVE  c \in Known(kb)'
        <2>1. PICK u \in Uploads : \E b \in chunks[u] : c = <<u, b>> /\ KbOf[u] = kb
            BY ChunkSets
        <2>2. chunks'[u] = chunks[u]
            BY <1>1, <1>3, <2>1, ChunksFrame
        <2>. QED
            BY <2>1, <2>2 DEF Known, CommittedChunks
    <1>4. ASSUME version'[kb] = version[kb], NEW c \in Searchable(kb)'
          PROVE  c \in Searchable(kb)
        <2>1. PICK u \in Uploads : \E b \in chunks'[u] : c = <<u, b>> /\ KbOf[u] = kb /\ status'[u] = "ready"
            BY DEF Searchable, CommittedChunks
        <2>2. status[u] = "ready" /\ chunks'[u] = chunks[u]
            BY <1>4, <2>1, NextChunks
        <2>. QED
            BY <2>1, <2>2 DEF Searchable, CommittedChunks
    <1>. QED
        BY <1>1, <1>2, <1>3, <1>4

-----------------------------------------------------------------------------
(* The cache *)

\* What was computed for a key: if the key is current it saw everything that is
\* searchable and cites what is there. A key is never ahead of its knowledge base.
Sound(kb, key, seen, cites) ==
    /\ key <= version[kb]
    /\ key = version[kb] => Searchable(kb) \subseteq seen /\ cites \subseteq Known(kb)

\* It holds of every entry and of every answer on its way into the cache.
CacheInv ==
    /\ ChunkInv
    /\ QueryTypeOK
    /\ \A q \in Queries : asking[q].key <= version[AskedKb[q]]
    /\ \A q \in Queries : asking[q].pc = "searched" =>
          Sound(AskedKb[q], asking[q].key, asking[q].seen, asking[q].cites)
    /\ \A kb \in KnowledgeBases : \A e \in cache[kb] : Sound(kb, e.key, e.seen, e.cites)

LEMMA InitCache == QueryInit => CacheInv
    BY InitChunks, QueryAssumption
    DEF QueryInit, Init, CacheInv, QueryTypeOK, NotAsking, Asking, AskPc, QueryAssumption

LEMMA SearchableType ==
    ASSUME TypeOK, NEW kb
    PROVE  Searchable(kb) \in SUBSET Chunks
    BY DEF TypeOK, Searchable, CommittedChunks, Chunks

LEMMA SoundKept ==
    ASSUME ChunkInv, [Next]_vars, NEW kb \in KnowledgeBases,
           NEW key \in Nat, NEW seen, NEW cites, Sound(kb, key, seen, cites)
    PROVE  /\ key <= version'[kb]
           /\ key = version'[kb] => Searchable(kb)' \subseteq seen /\ cites \subseteq Known(kb)'
    <1>1. /\ version[kb] \in Nat /\ version'[kb] \in Nat /\ version[kb] <= version'[kb]
          /\ version'[kb] = version[kb] => /\ Searchable(kb)' \subseteq Searchable(kb)
                                           /\ Known(kb) \subseteq Known(kb)'
        BY KeyFrame
    <1>2. key <= version'[kb]
        BY <1>1 DEF Sound
    <1>3. key = version'[kb] => version'[kb] = version[kb] /\ key = version[kb]
        BY <1>1 DEF Sound
    <1>. QED
        BY <1>1, <1>2, <1>3 DEF Sound

LEMMA QueryType ==
    ASSUME TypeOK, QueryTypeOK, [QueryNext]_qvars
    PROVE  QueryTypeOK'
    <1>. USE DEF QueryTypeOK
    <1>1. CASE UNCHANGED <<asking, cache>>
        BY <1>1
    <1>2. ASSUME NEW q \in Queries, Answer(q)
          PROVE  QueryTypeOK'
        <2>0. /\ asking[q] \in Asking
              /\ AskedKb[q] \in KnowledgeBases
              /\ NotAsking \in Asking
            BY QueryAssumption DEF QueryAssumption, NotAsking, Asking, AskPc
        <2>1. CASE LoadVersion(q)
            BY <2>0, <2>1 DEF LoadVersion, Ask, Asking, AskPc, TypeOK
        <2>2. CASE CacheHit(q)
            BY <2>0, <2>2 DEF CacheHit, Ask, Entry, Asking, AskPc
        <2>3. CASE CacheMiss(q)
            BY <2>0, <2>3 DEF CacheMiss, Ask, Asking, AskPc
        <2>4. CASE Search(q)
            <3>1. PICK hits \in SUBSET Searchable(AskedKb[q]) :
                    /\ Ask(q, "missed", [asking[q] EXCEPT !.pc = "searched", !.cites = hits,
                                                          !.seen = Searchable(AskedKb[q])])
                    /\ UNCHANGED cache
                BY <2>4 DEF Search
            <3>2. hits \in SUBSET Chunks /\ Searchable(AskedKb[q]) \in SUBSET Chunks
                BY SearchableType
            <3>. QED
                BY <2>0, <3>1, <3>2 DEF Ask, Asking, AskPc
        <2>5. CASE CacheSet(q)
            <3>1. asking' \in [Queries -> Asking]
                BY <2>0, <2>5 DEF CacheSet, Ask, Asking, AskPc
            <3>2. [key |-> EntryKey(q), seen |-> asking[q].seen, cites |-> asking[q].cites] \in Entry
                BY <2>0 DEF EntryKey, Entry, Asking
            <3>3. cache' \in [KnowledgeBases -> SUBSET Entry]
                BY <2>0, <2>5, <3>2 DEF CacheSet
            <3>. QED
                BY <3>1, <3>3
        <2>6. CASE Record(q) \/ RecordFails(q) \/ AnswerFails(q)
            BY <2>0, <2>6 DEF Record, RecordFails, AnswerFails, Ask
        <2>. QED
            BY <1>2, <2>1, <2>2, <2>3, <2>4, <2>5, <2>6 DEF Answer
    <1>3. ASSUME NEW kb \in KnowledgeBases, Expire(kb)
          PROVE  QueryTypeOK'
        BY <1>3 DEF Expire
    <1>. QED
        BY <1>1, <1>2, <1>3 DEF QueryNext, qvars

\* What an answer or an entry keeps, whatever step is taken.
LEMMA AnswersKept ==
    ASSUME CacheInv, [Next]_vars
    PROVE  /\ \A q \in Queries : asking[q].key <= version'[AskedKb[q]]
           /\ \A q \in Queries : asking[q].pc = "searched" =>
                 /\ asking[q].key = version'[AskedKb[q]] =>
                       /\ Searchable(AskedKb[q])' \subseteq asking[q].seen
                       /\ asking[q].cites \subseteq Known(AskedKb[q])'
           /\ \A kb \in KnowledgeBases : \A e \in cache[kb] :
                 /\ e.key <= version'[kb]
                 /\ e.key = version'[kb] => /\ Searchable(kb)' \subseteq e.seen
                                            /\ e.cites \subseteq Known(kb)'
    <1>0. ChunkInv /\ QueryTypeOK
        BY DEF CacheInv
    <1>1. ASSUME NEW q \in Queries
          PROVE  AskedKb[q] \in KnowledgeBases /\ asking[q].key \in Nat
        BY <1>0, QueryAssumption DEF QueryAssumption, QueryTypeOK, Asking
    <1>2. ASSUME NEW q \in Queries
          PROVE  asking[q].key <= version'[AskedKb[q]]
        <2>1. /\ version[AskedKb[q]] \in Nat /\ version'[AskedKb[q]] \in Nat
              /\ version[AskedKb[q]] <= version'[AskedKb[q]]
            BY <1>0, <1>1, KeyFrame
        <2>. QED
            BY <1>1, <2>1 DEF CacheInv
    <1>3. ASSUME NEW q \in Queries, asking[q].pc = "searched",
                 asking[q].key = version'[AskedKb[q]]
          PROVE  /\ Searchable(AskedKb[q])' \subseteq asking[q].seen
                 /\ asking[q].cites \subseteq Known(AskedKb[q])'
        <2>1. Sound(AskedKb[q], asking[q].key, asking[q].seen, asking[q].cites)
            BY <1>3 DEF CacheInv
        <2>. QED
            BY <1>0, <1>1, <1>3, <2>1, SoundKept
    <1>4. ASSUME NEW kb \in KnowledgeBases, NEW e \in cache[kb]
          PROVE  /\ e.key <= version'[kb]
                 /\ e.key = version'[kb] => /\ Searchable(kb)' \subseteq e.seen
                                            /\ e.cites \subseteq Known(kb)'
        <2>1. e.key \in Nat /\ Sound(kb, e.key, e.seen, e.cites)
            BY <1>0 DEF CacheInv, QueryTypeOK, Entry
        <2>. QED
            BY <1>0, <2>1, SoundKept
    <1>. QED
        BY <1>2, <1>3, <1>4

\* A step of a request leaves it with the key it had, the current one or none,
\* and only a search leaves it with an answer to store.
LEMMA AnswerFrame ==
    ASSUME QueryTypeOK, NEW q \in Queries, Answer(q)
    PROVE  /\ asking'[q].key \in {0, version[AskedKb[q]], asking[q].key}
           /\ asking'[q].pc = "searched" => Search(q)
    <1>0. asking[q] \in Asking /\ q \in DOMAIN asking
        BY DEF QueryTypeOK
    <1>1. CASE LoadVersion(q)
        BY <1>0, <1>1 DEF LoadVersion, Ask, NotAsking
    <1>2. CASE CacheHit(q)
        BY <1>0, <1>2 DEF CacheHit, Ask
    <1>3. CASE CacheMiss(q)
        BY <1>0, <1>3 DEF CacheMiss, Ask, Asking
    <1>4. CASE Search(q)
        BY <1>0, <1>4 DEF Search, Ask, Asking
    <1>5. CASE CacheSet(q)
        BY <1>0, <1>5 DEF CacheSet, Ask, Asking
    <1>6. CASE Record(q) \/ RecordFails(q) \/ AnswerFails(q)
        BY <1>0, <1>6 DEF Record, RecordFails, AnswerFails, Ask, NotAsking
    <1>. QED
        BY <1>1, <1>2, <1>3, <1>4, <1>5, <1>6 DEF Answer

LEMMA NextCache ==
    ASSUME CacheInv, [QueryNext]_qvars
    PROVE  CacheInv'
    <1>0. /\ [Next]_vars /\ ChunkInv' /\ QueryTypeOK' /\ QueryTypeOK
        BY QueryNextRefines, NextChunks, QueryType DEF CacheInv, ChunkInv, TypeInv
    <1>1. CASE UNCHANGED <<asking, cache>>
        BY <1>0, <1>1, AnswersKept DEF CacheInv, Sound
    <1>2. ASSUME NEW kb \in KnowledgeBases, Expire(kb)
          PROVE  CacheInv'
        <2>1. asking' = asking /\ \A k \in KnowledgeBases : cache'[k] \subseteq cache[k]
            BY <1>0, <1>2 DEF Expire, QueryTypeOK
        <2>. QED
            BY <1>0, <2>1, AnswersKept DEF CacheInv, Sound
    <1>3. ASSUME NEW q \in Queries, Answer(q)
          PROVE  CacheInv'
        <2>. DEFINE kb == AskedKb[q]
        <2>0. /\ kb \in KnowledgeBases /\ asking[q].key \in Nat /\ version[kb] \in Nat
              /\ \A p \in Queries \ {q} : asking'[p] = asking[p]
            BY <1>0, <1>3, QueryAssumption
            DEF CacheInv, ChunkInv, TypeInv, TypeOK, QueryAssumption, QueryTypeOK, Asking, Answer, Ask,
                LoadVersion, CacheHit, CacheMiss, Search, CacheSet, Record, RecordFails, AnswerFails
        <2>k. UNCHANGED <<version, status, chunks>>
            BY <1>3 DEF Answer, LoadVersion, CacheHit, CacheMiss, Search, CacheSet, Record,
                RecordFails, AnswerFails, vars, rows, Cite
        <2>1. asking'[q].key <= version'[kb]
            <3>1. asking'[q].key \in {0, version[kb], asking[q].key}
                BY <1>0, <1>3, AnswerFrame
            <3>. QED
                BY <2>0, <2>k, <3>1 DEF CacheInv
        <2>2. asking'[q].pc = "searched" => Sound(kb, asking'[q].key, asking'[q].seen, asking'[q].cites)
            <3>1. CASE Search(q)
                <4>1. PICK hits \in SUBSET Searchable(kb) :
                        asking'[q] = [asking[q] EXCEPT !.pc = "searched", !.cites = hits,
                                                       !.seen = Searchable(kb)]
                    BY <1>0, <3>1 DEF Search, Ask, QueryTypeOK
                <4>2. hits \subseteq Known(kb)
                    BY DEF Searchable, Known
                <4>3. /\ asking'[q].key = asking[q].key /\ asking'[q].cites = hits
                      /\ asking'[q].seen = Searchable(kb)
                    BY <1>0, <4>1 DEF QueryTypeOK, Asking
                <4>. QED
                    BY <4>2, <4>3 DEF Sound, CacheInv
            <3>2. CASE ~Search(q)
                BY <1>0, <1>3, <3>2, AnswerFrame
            <3>. QED
                BY <3>1, <3>2
        <2>3. ASSUME NEW k \in KnowledgeBases, NEW e \in cache'[k], e \notin cache[k]
              PROVE  k = kb /\ Sound(kb, e.key, e.seen, e.cites)
            <3>1. CacheSet(q)
                BY <1>3, <2>3 DEF Answer, LoadVersion, CacheHit, CacheMiss, Search, Record,
                    RecordFails, AnswerFails
            <3>2. /\ asking[q].pc = "searched" /\ k = kb
                  /\ e = [key |-> asking[q].key, seen |-> asking[q].seen, cites |-> asking[q].cites]
                BY <1>0, <2>0, <2>3, <3>1 DEF CacheSet, Ask, EntryKey, QueryTypeOK
            <3>3. Sound(kb, asking[q].key, asking[q].seen, asking[q].cites)
                BY <3>2 DEF CacheInv
            <3>. QED
                BY <3>2, <3>3
        <2>4. \A k : Searchable(k)' = Searchable(k) /\ Known(k)' = Known(k)
            BY <2>k DEF Searchable, Known, CommittedChunks
        <2>5. \A p \in Queries : asking'[p].key <= version'[AskedKb[p]]
            BY <2>0, <2>1, <2>k DEF CacheInv
        <2>6. \A p \in Queries : asking'[p].pc = "searched" =>
                 Sound(AskedKb[p], asking[p].key, asking[p].seen, asking[p].cites)'
            BY <2>0, <2>2, <2>k, <2>4 DEF CacheInv, Sound
        <2>7. \A k \in KnowledgeBases : \A e \in cache'[k] : Sound(k, e.key, e.seen, e.cites)'
            BY <2>3, <2>k, <2>4 DEF CacheInv, Sound
        <2>. QED
            BY <1>0, <2>5, <2>6, <2>7 DEF CacheInv
    <1>. QED
        BY <1>1, <1>2, <1>3 DEF QueryNext, qvars

\* The local values of a request and the fields of a cache entry keep their types:
\* the control states are those of query_knowledge, keys are numbers, and what was
\* seen and cited are sets of chunks.
THEOREM QueryTypeCorrect == QuerySpec => []QueryTypeOK
    <1>1. CacheInv => QueryTypeOK
        BY DEF CacheInv
    <1>. QED
        BY <1>1, InitCache, NextCache, PTL DEF QuerySpec

\* An answer under the current key was computed from everything searchable.
THEOREM CachedAnswersAreComplete == QuerySpec => []CacheComplete
    <1>1. CacheInv => CacheComplete
        BY DEF CacheInv, CacheComplete, Sound
    <1>. QED
        BY <1>1, InitCache, NextCache, PTL DEF QuerySpec

\* A hit under the current key cites chunks that exist.
THEOREM CurrentHitsAreCitable == QuerySpec => []CurrentHitsResolve
    <1>1. CacheInv => CurrentHitsResolve
        BY DEF CacheInv, CurrentHitsResolve, Sound, Known
    <1>. QED
        BY <1>1, InitCache, NextCache, PTL DEF QuerySpec

-----------------------------------------------------------------------------
(* What the cache serves although retrieval no longer selects it *)

Unsettled(u) == \/ status[u] \in {"ready", "processing"}
                \/ status[u] = "failed" /\ api[u] = "unavailable"

Served(kb, seen) ==
    \A c \in seen : c[1] \in Uploads /\ KbOf[c[1]] = kb /\ Unsettled(c[1])

\* A document leaves "ready" and "processing" only with a touch, or in the hands of
\* the request that failed to dispatch it, which forgets the touch.
LEMMA ServedFrame ==
    ASSUME TaskInv, [Next]_vars, NEW kb, NEW seen,
           Served(kb, seen), version'[kb] = version[kb]
    PROVE  Served(kb, seen)'
    <1>. SUFFICES ASSUME NEW u \in Uploads, KbOf[u] = kb, Unsettled(u)
                  PROVE  Unsettled(u)'
        BY DEF Served
    <1>0. /\ TypeInv /\ RequestInv
          /\ status \in [Uploads -> DocumentStatus] /\ api \in [Uploads -> ApiPc]
          /\ version \in [KnowledgeBases -> Nat] /\ KbOf[u] \in KnowledgeBases
        BY IngestionAssumption DEF TaskInv, TypeInv, TypeOK, IngestionAssumption
    <1>1. ASSUME NEW v \in Uploads, Handle(v) \/ ApiCrash(v)
          PROVE  Unsettled(u)'
        <2>1. CASE v = u
            <3>1. api[u] \notin {"new", "stored", "checked"}
                BY <1>0 DEF RequestInv, Unsettled
            <3>2. Dispatch(u) \/ DispatchRaises(u) \/ MarkEnqueueFailed(u) \/ ApiCrash(u)
                BY <1>1, <2>1, <3>1 DEF Handle, RejectUpload, StoreFile, RejectDuplicate,
                    PassDuplicateCheck, InsertDocument, ApiStep
            <3>3. CASE MarkEnqueueFailed(u)
                BY <1>0, <3>3 DEF MarkEnqueueFailed, ApiStep, Unsettled
            <3>4. CASE Dispatch(u) \/ DispatchRaises(u) \/ ApiCrash(u)
                BY <1>0, <3>4 DEF Dispatch, DispatchRaises, ApiCrash, ApiStep, rows, Unsettled
            <3>. QED
                BY <3>2, <3>3, <3>4
        <2>2. CASE v # u
            <3>1. status'[u] = status[u] /\ api'[u] = api[u]
                BY <1>0, <1>1, <2>2 DEF Handle, RejectUpload, StoreFile, RejectDuplicate,
                    PassDuplicateCheck, InsertDocument, Dispatch, DispatchRaises,
                    MarkEnqueueFailed, ApiCrash, ApiStep, rows
            <3>. QED
                BY <3>1 DEF Unsettled
        <2>. QED
            BY <2>1, <2>2
    <1>2. ASSUME NEW w \in Workers, Work(w) \/ Disturb(w)
          PROVE  Unsettled(u)'
        <2>1. CASE UNCHANGED <<apiVars, rows>>
            BY <2>1 DEF apiVars, rows, Unsettled
        <2>2. CASE CommitProcessing(w) \/ CommitReady(w)
            BY <1>0, <2>2 DEF CommitProcessing, CommitReady, Written, apiVars, Unsettled
        <2>3. CASE CommitFailed(w)
            <3>1. Touch(Doc(w)) /\ Doc(w) \in Uploads
                BY <1>0, <2>3, CommitFrame DEF CommitFailed
            <3>2. Doc(w) # u
                BY <1>0, <3>1 DEF Touch
            <3>. QED
                BY <1>0, <2>3, <3>2 DEF CommitFailed, apiVars, Unsettled
        <2>. QED
            BY <1>2, <2>1, <2>2, <2>3, RowsFrame
    <1>3. ASSUME UNCHANGED <<status, api>>
          PROVE  Unsettled(u)'
        BY <1>3 DEF Unsettled
    <1>. QED
        BY <1>1, <1>2, <1>3 DEF Next, Pipeline, Rest, Cite, vars, rows, apiVars

StaleInv ==
    /\ CacheInv /\ TaskInv
    /\ \A q \in Queries : asking[q].pc = "searched" /\ asking[q].key = version[AskedKb[q]] =>
          Served(AskedKb[q], asking[q].seen)
    /\ \A kb \in KnowledgeBases : \A e \in cache[kb] :
          e.key = version[kb] => Served(kb, e.seen)

LEMMA InitStale == QueryInit => StaleInv
    BY InitCache, InitTasks DEF StaleInv, QueryInit, NotAsking

\* What is current after a step was current before it and is served as before.
LEMMA StaleKept ==
    ASSUME StaleInv, [Next]_vars
    PROVE  /\ \A q \in Queries : asking[q].pc = "searched" /\ asking[q].key = version'[AskedKb[q]] =>
                 \A seen : seen = asking[q].seen => Served(AskedKb[q], seen)'
           /\ \A kb \in KnowledgeBases : \A e \in cache[kb] :
                 e.key = version'[kb] => Served(kb, e.seen)'
    <1>1. ASSUME NEW kb \in KnowledgeBases, NEW key \in Nat, key <= version[kb], key = version'[kb]
          PROVE  key = version[kb] /\ version'[kb] = version[kb]
        <2>1. version[kb] \in Nat /\ version'[kb] \in Nat /\ version[kb] <= version'[kb]
            BY KeyFrame DEF StaleInv, CacheInv
        <2>. QED
            BY <1>1, <2>1
    <1>2. ASSUME NEW q \in Queries, asking[q].pc = "searched", asking[q].key = version'[AskedKb[q]],
                 NEW seen, seen = asking[q].seen
          PROVE  Served(AskedKb[q], seen)'
        <2>1. AskedKb[q] \in KnowledgeBases /\ asking[q].key \in Nat
              /\ asking[q].key <= version[AskedKb[q]]
            BY QueryAssumption DEF QueryAssumption, StaleInv, CacheInv, QueryTypeOK, Asking
        <2>2. asking[q].key = version[AskedKb[q]] /\ version'[AskedKb[q]] = version[AskedKb[q]]
            BY <1>1, <1>2, <2>1
        <2>3. Served(AskedKb[q], seen)
            BY <1>2, <2>2 DEF StaleInv
        <2>. QED
            BY <2>2, <2>3, ServedFrame DEF StaleInv
    <1>3. ASSUME NEW kb \in KnowledgeBases, NEW e \in cache[kb], e.key = version'[kb]
          PROVE  Served(kb, e.seen)'
        <2>1. e.key \in Nat /\ e.key <= version[kb]
            BY DEF StaleInv, CacheInv, QueryTypeOK, Entry, Sound
        <2>2. e.key = version[kb] /\ version'[kb] = version[kb]
            BY <1>1, <1>3, <2>1
        <2>. QED
            BY <2>2, ServedFrame DEF StaleInv
    <1>. QED
        BY <1>2, <1>3

LEMMA NextStale ==
    ASSUME StaleInv, [QueryNext]_qvars
    PROVE  StaleInv'
    <1>0. /\ [Next]_vars /\ CacheInv /\ CacheInv' /\ TaskInv' /\ QueryTypeOK
        BY QueryNextRefines, NextCache, NextTasks DEF StaleInv, CacheInv
    <1>k. /\ \A q \in Queries : asking[q].pc = "searched" /\ asking[q].key = version'[AskedKb[q]] =>
                \A seen : seen = asking[q].seen => Served(AskedKb[q], seen)'
          /\ \A kb \in KnowledgeBases : \A e \in cache[kb] :
                e.key = version'[kb] => Served(kb, e.seen)'
        BY <1>0, StaleKept
    <1>1. CASE UNCHANGED <<asking, cache>>
        BY <1>0, <1>1, <1>k DEF StaleInv, Served
    <1>2. ASSUME NEW kb \in KnowledgeBases, Expire(kb)
          PROVE  StaleInv'
        <2>1. asking' = asking /\ \A k \in KnowledgeBases : cache'[k] \subseteq cache[k]
            BY <1>0, <1>2 DEF Expire, QueryTypeOK
        <2>. QED
            BY <1>0, <2>1, <1>k DEF StaleInv, Served
    <1>3. ASSUME NEW q \in Queries, Answer(q)
          PROVE  StaleInv'
        <2>0. /\ AskedKb[q] \in KnowledgeBases
              /\ \A p \in Queries \ {q} : asking'[p] = asking[p]
            BY <1>0, <1>3, QueryAssumption
            DEF QueryAssumption, QueryTypeOK, Answer, Ask, LoadVersion, CacheHit, CacheMiss, Search,
                CacheSet, Record, RecordFails, AnswerFails
        <2>1. UNCHANGED <<version, status, api>>
            BY <1>3 DEF Answer, LoadVersion, CacheHit, CacheMiss, Search, CacheSet, Record,
                RecordFails, AnswerFails, vars, rows, apiVars, Cite
        <2>2. asking'[q].pc = "searched" => Served(AskedKb[q], asking'[q].seen)
            <3>1. CASE Search(q)
                <4>1. asking'[q].seen = Searchable(AskedKb[q])
                    BY <1>0, <3>1 DEF Search, Ask, QueryTypeOK, Asking
                <4>. QED
                    BY <4>1 DEF Served, Unsettled, Searchable, CommittedChunks
            <3>2. CASE ~Search(q)
                BY <1>0, <1>3, <3>2, AnswerFrame
            <3>. QED
                BY <3>1, <3>2
        <2>3. ASSUME NEW k \in KnowledgeBases, NEW e \in cache'[k], e \notin cache[k],
                     e.key = version[k]
              PROVE  Served(k, e.seen)
            <3>1. CacheSet(q)
                BY <1>3, <2>3 DEF Answer, LoadVersion, CacheHit, CacheMiss, Search, Record,
                    RecordFails, AnswerFails
            <3>2. /\ asking[q].pc = "searched" /\ k = AskedKb[q]
                  /\ e = [key |-> asking[q].key, seen |-> asking[q].seen, cites |-> asking[q].cites]
                BY <1>0, <2>0, <2>3, <3>1 DEF CacheSet, Ask, EntryKey, QueryTypeOK
            <3>. QED
                BY <2>3, <3>2 DEF StaleInv
        <2>4. \A k, S : Served(k, S) => Served(k, S)'
            BY <2>1 DEF Served, Unsettled
        <2>5. \A p \in Queries : asking'[p].pc = "searched" /\ asking'[p].key = version'[AskedKb[p]] =>
                  Served(AskedKb[p], asking[p].seen)'
            BY <2>0, <2>1, <2>2, <2>4 DEF StaleInv
        <2>6. \A k \in KnowledgeBases : \A e \in cache'[k] :
                  e.key = version'[k] => Served(k, e.seen)'
            BY <2>1, <2>3, <2>4 DEF StaleInv
        <2>. QED
            BY <1>0, <2>5, <2>6 DEF StaleInv
    <1>. QED
        BY <1>1, <1>2, <1>3 DEF QueryNext, qvars

\* Under every fault: under the current key the cache serves a document retrieval no
\* longer selects only while its status is "processing", or "failed" by the request
\* that uploaded it. Both may last: nothing but the end of a run writes the status.
THEOREM StaleAnswersAreUnsettled == QuerySpec => []StaleOnlyDuringRuns
    <1>1. StaleInv => StaleOnlyDuringRuns
        BY DEF StaleInv, StaleOnlyDuringRuns, Served, Unsettled
    <1>. QED
        BY <1>1, InitStale, NextStale, PTL DEF QuerySpec

\* What the cache serves under the current key is selected by retrieval as well, is
\* about to be processed or processed by a task that waits or runs, or was marked
\* failed by the request that uploaded it.
StaleOnlyWithATask ==
    \A kb \in KnowledgeBases : \A e \in cache[kb] : e.key = version[kb] =>
        \A u \in {c[1] : c \in e.seen} :
            \/ status[u] = "ready" \/ LiveTask(u)
            \/ status[u] = "failed" /\ api[u] = "unavailable"

\* When Celery neither acknowledges nor re-sends what runs and no session fails,
\* a stale answer ends with the run that makes it stale: a document that is served
\* without being selected has a task that settles it.
THEOREM StaleAnswersHaveATask ==
    ASSUME TasksAreKept
    PROVE  QuerySpec => []StaleOnlyWithATask
    <1>1. StaleInv /\ NoLostTask => StaleOnlyWithATask
        BY DEF StaleInv, NoLostTask, StaleOnlyWithATask, Served, Unsettled
    <1>2. Spec => []NoLostTask
        BY NoTaskIsLost
    <1>. QED
        BY <1>1, <1>2, InitStale, NextStale, QueryPathRefinesIngestion, PTL
        DEF QuerySpec, RefinesIngestion

-----------------------------------------------------------------------------
(* When an answer that was found cannot be recorded *)

LEMMA AskEffect ==
    ASSUME QueryTypeOK, NEW q \in Queries, NEW from, NEW to, Ask(q, from, to)
    PROVE  /\ asking[q].pc = from /\ asking'[q] = to
           /\ \A p \in Queries \ {q} : asking'[p] = asking[p]
    BY DEF Ask, QueryTypeOK

LEMMA AskingSteps ==
    ASSUME QueryTypeOK, NEW q \in Queries
    PROVE  /\ LoadVersion(q) => /\ asking[q].pc = "idle" /\ asking'[q].pc = "keyed"
                                /\ asking'[q].key = version[AskedKb[q]]
           /\ CacheMiss(q) => asking'[q].pc = "missed"
           /\ Search(q) => /\ asking[q].pc = "missed" /\ asking'[q].pc = "searched"
                           /\ asking'[q].seen = Searchable(AskedKb[q])
           /\ Record(q) \/ RecordFails(q) \/ AnswerFails(q) => asking'[q].pc = "idle"
    <1>0. asking \in [Queries -> Asking] /\ asking[q] \in Asking
        BY DEF QueryTypeOK
    <1>1. ASSUME LoadVersion(q)
          PROVE  /\ asking[q].pc = "idle" /\ asking'[q].pc = "keyed"
                 /\ asking'[q].key = version[AskedKb[q]]
        BY <1>0, <1>1 DEF LoadVersion, Ask, NotAsking
    <1>2. ASSUME CacheMiss(q)
          PROVE  asking'[q].pc = "missed"
        BY <1>0, <1>2 DEF CacheMiss, Ask, Asking
    <1>3. ASSUME Search(q)
          PROVE  /\ asking[q].pc = "missed" /\ asking'[q].pc = "searched"
                 /\ asking'[q].seen = Searchable(AskedKb[q])
        BY <1>0, <1>3 DEF Search, Ask, Asking
    <1>4. ASSUME Record(q) \/ RecordFails(q) \/ AnswerFails(q)
          PROVE  asking'[q].pc = "idle"
        BY <1>0, <1>4 DEF Record, RecordFails, AnswerFails, Ask, NotAsking
    <1>. QED
        BY <1>1, <1>2, <1>3, <1>4

LEMMA PipelineUnmoved ==
    ASSUME NEW q \in Queries, Answer(q)
    PROVE  /\ UNCHANGED <<version, status, chunks>>
           /\ \A kb : Searchable(kb)' = Searchable(kb) /\ Known(kb)' = Known(kb)
    <1>1. UNCHANGED <<version, status, chunks>>
        BY DEF Answer, LoadVersion, CacheHit, CacheMiss, Search, CacheSet, Record,
            RecordFails, AnswerFails, vars, rows, Cite
    <1>. QED
        BY <1>1 DEF Searchable, Known, CommittedChunks

\* An answer under the current key, from the cache or not, cites what is there.
AnswerInv ==
    /\ CacheInv
    /\ \A q \in Queries : asking[q].pc = "answered" /\ asking[q].key = version[AskedKb[q]] =>
          asking[q].cites \subseteq Known(AskedKb[q])

LEMMA InitAnswer == QueryInit => AnswerInv
    BY InitCache DEF AnswerInv, QueryInit, NotAsking

LEMMA NextAnswer ==
    ASSUME AnswerInv, [QueryNext]_qvars
    PROVE  AnswerInv'
    <1>0. CacheInv /\ CacheInv' /\ QueryTypeOK /\ ChunkInv /\ [Next]_vars
        BY NextCache, QueryNextRefines DEF AnswerInv, CacheInv
    <1>1. SUFFICES ASSUME NEW q \in Queries, asking'[q].pc = "answered",
                          asking'[q].key = version'[AskedKb[q]]
                   PROVE  asking'[q].cites \subseteq Known(AskedKb[q])'
        BY <1>0 DEF AnswerInv
    <1>2. PICK kb \in KnowledgeBases : kb = AskedKb[q]
        BY QueryAssumption DEF QueryAssumption
    <1>3. CASE asking'[q] = asking[q]
        <2>1. /\ asking[q].key \in Nat /\ asking[q].key <= version[kb]
              /\ version[kb] \in Nat /\ version'[kb] \in Nat /\ version[kb] <= version'[kb]
            BY <1>0, <1>2, KeyFrame DEF CacheInv, QueryTypeOK, Asking
        <2>2. version'[kb] = version[kb] /\ asking[q].key = version[kb]
            BY <1>1, <1>2, <1>3, <2>1
        <2>3. asking[q].cites \subseteq Known(kb) /\ Known(kb) \subseteq Known(kb)'
            BY <1>0, <1>1, <1>2, <1>3, <2>2, KeyFrame DEF AnswerInv
        <2>. QED
            BY <1>2, <1>3, <2>3
    <1>4. CASE Answer(q)
        <2>0. UNCHANGED version /\ Known(kb)' = Known(kb)
            BY <1>4, PipelineUnmoved
        <2>1. CASE CacheHit(q)
            <3>1. PICK e \in cache[kb] :
                     Ask(q, "keyed", [pc |-> "answered", key |-> e.key, seen |-> e.seen,
                                      cites |-> e.cites])
                BY <1>2, <2>1 DEF CacheHit
            <3>2. asking'[q].key = e.key /\ asking'[q].cites = e.cites
                BY <1>0, <3>1, AskEffect
            <3>3. Sound(kb, e.key, e.seen, e.cites)
                BY <1>0 DEF CacheInv
            <3>. QED
                BY <1>1, <1>2, <2>0, <3>2, <3>3 DEF Sound
        <2>2. CASE CacheSet(q)
            <3>1. /\ asking[q].pc = "searched"
                  /\ asking'[q].key = asking[q].key /\ asking'[q].cites = asking[q].cites
                BY <1>0, <2>2 DEF CacheSet, Ask, QueryTypeOK, Asking
            <3>2. Sound(kb, asking[q].key, asking[q].seen, asking[q].cites)
                BY <1>0, <1>2, <3>1 DEF CacheInv
            <3>. QED
                BY <1>1, <1>2, <2>0, <3>1, <3>2 DEF Sound
        <2>3. CASE ~CacheHit(q) /\ ~CacheSet(q)
            <3>1. asking'[q].pc \in {"keyed", "missed", "searched", "idle"}
                BY <1>0, <1>4, <2>3, AskingSteps DEF Answer
            <3>. QED
                BY <1>1, <3>1
        <2>. QED
            BY <2>1, <2>2, <2>3
    <1>5. asking'[q] = asking[q] \/ Answer(q)
        <2>1. ASSUME NEW p \in Queries, Answer(p), p # q
              PROVE  asking'[q] = asking[q]
            BY <1>0, <2>1 DEF Answer, LoadVersion, CacheHit, CacheMiss, Search, CacheSet, Record,
                RecordFails, AnswerFails, Ask, QueryTypeOK
        <2>. QED
            BY <2>1 DEF QueryNext, qvars, Expire
    <1>. QED
        BY <1>3, <1>4, <1>5

\* QueryHistoryService.record fails on a deleted chunk only under an old cache key.
RefusedRecordsAreOutdated ==
    [][\A q \in Queries : RecordFails(q) => asking[q].key # version[AskedKb[q]]]_qvars

\* The foreign key turns an answer into an error only when the knowledge base was
\* touched since the request read its updated_at: an answer during which nothing was
\* uploaded, published or failed can be recorded, from the cache or not.
THEOREM ErrorsNeedAPublication == QuerySpec => RefusedRecordsAreOutdated
    <1>1. AnswerInv /\ [QueryNext]_qvars =>
              [\A q \in Queries : RecordFails(q) => asking[q].key # version[AskedKb[q]]]_qvars
        <2>. SUFFICES ASSUME AnswerInv, NEW q \in Queries, RecordFails(q),
                             asking[q].key = version[AskedKb[q]]
                      PROVE  FALSE
            OBVIOUS
        <2>1. asking[q].pc = "answered" /\ ~(asking[q].cites \subseteq CommittedChunks)
            BY DEF RecordFails, Ask
        <2>2. asking[q].cites \subseteq Known(AskedKb[q])
            BY <2>1 DEF AnswerInv
        <2>. QED
            BY <2>1, <2>2 DEF Known
    <1>. QED
        BY <1>1, InitAnswer, NextAnswer, PTL DEF QuerySpec, RefusedRecordsAreOutdated

-----------------------------------------------------------------------------
(* What an answer may miss. The history variable lasting holds, for each     *)
(* request under way, the chunks that have been searchable in every state    *)
(* since it read the knowledge base.                                         *)

VARIABLE lasting

Throughout(q) ==
    IF asking'[q].pc = "idle" THEN {}
    ELSE IF asking[q].pc = "idle" THEN Searchable(AskedKb[q])'
    ELSE lasting[q] \cap Searchable(AskedKb[q])'

HistoryInit == QueryInit /\ lasting = [q \in Queries |-> {}]
HistoryNext == QueryNext /\ lasting' = [q \in Queries |-> Throughout(q)]
HistorySpec == HistoryInit /\ [][HistoryNext]_<<qvars, lasting>>

\* What query_knowledge found or took from the cache holds all that could be found
\* from the reading of updated_at on.
AnswersMissNothing ==
    \A q \in Queries : asking[q].pc \in {"searched", "answered"} => lasting[q] \subseteq asking[q].seen

\* What a request that looks for key would be served.
ServesLasting(q) ==
    /\ \A e \in cache[AskedKb[q]] : e.key = asking[q].key => lasting[q] \subseteq e.seen
    /\ \A p \in Queries :
          asking[p].pc = "searched" /\ AskedKb[p] = AskedKb[q] /\ asking[p].key = asking[q].key
              => lasting[q] \subseteq asking[p].seen

\* A request may be served an entry that is not there yet: what another request
\* with its key has found already counts.
LastingInv ==
    /\ CacheInv
    /\ lasting \in [Queries -> SUBSET Chunks]
    /\ \A q \in Queries : asking[q].pc # "idle" => lasting[q] \subseteq Searchable(AskedKb[q])
    /\ AnswersMissNothing
    /\ \A q \in Queries : asking[q].pc = "keyed" => ServesLasting(q)

LEMMA InitLasting == HistoryInit => LastingInv
    BY InitCache DEF HistoryInit, LastingInv, AnswersMissNothing, QueryInit, NotAsking

LEMMA LastingShrinks ==
    ASSUME QueryTypeOK, HistoryNext, NEW q \in Queries, asking'[q].pc # "idle"
    PROVE  /\ lasting'[q] \subseteq Searchable(AskedKb[q])'
           /\ asking[q].pc # "idle" => lasting'[q] \subseteq lasting[q]
           /\ asking[q].pc = "idle" => lasting'[q] = Searchable(AskedKb[q])'
    BY DEF HistoryNext, Throughout

\* The steps of others leave what a request has found, and only shrink what it may
\* not miss.
LEMMA OthersKeepLasting ==
    ASSUME LastingInv, HistoryNext, NEW q \in Queries, asking'[q] = asking[q], asking[q].pc # "idle"
    PROVE  /\ lasting'[q] \subseteq Searchable(AskedKb[q])'
           /\ lasting'[q] \subseteq lasting[q]
           /\ asking'[q].pc \in {"searched", "answered"} => lasting'[q] \subseteq asking'[q].seen
    BY LastingShrinks DEF LastingInv, CacheInv, AnswersMissNothing

\* What a request does about the chunks it may not miss.
LEMMA OwnLasting ==
    ASSUME LastingInv, HistoryNext, NEW q \in Queries, Answer(q)
    PROVE  /\ asking'[q].pc \in {"searched", "answered"} => lasting'[q] \subseteq asking'[q].seen
           /\ asking'[q].pc = "keyed" =>
                 /\ asking[q].pc = "idle" /\ asking'[q].key = version[AskedKb[q]]
                 /\ lasting'[q] = Searchable(AskedKb[q])
           /\ asking'[q].pc = "searched" =>
                 asking'[q].seen = Searchable(AskedKb[q])
    <1>0. /\ QueryTypeOK /\ asking[q] \in Asking
          /\ asking[q].pc # "idle" => lasting[q] \subseteq Searchable(AskedKb[q])
          /\ Searchable(AskedKb[q])' = Searchable(AskedKb[q])
        BY PipelineUnmoved DEF LastingInv, CacheInv, QueryTypeOK
    <1>1. CASE LoadVersion(q)
        <2>1. /\ asking[q].pc = "idle" /\ asking'[q].pc = "keyed"
              /\ asking'[q].key = version[AskedKb[q]]
            BY <1>0, <1>1, AskingSteps
        <2>. QED
            BY <1>0, <2>1, LastingShrinks
    <1>2. CASE CacheHit(q)
        <2>1. PICK e \in cache[AskedKb[q]] :
                 /\ e.key = asking[q].key
                 /\ Ask(q, "keyed", [pc |-> "answered", key |-> e.key, seen |-> e.seen,
                                     cites |-> e.cites])
            BY <1>2 DEF CacheHit
        <2>2. asking[q].pc = "keyed" /\ asking'[q].pc = "answered" /\ asking'[q].seen = e.seen
            BY <1>0, <2>1, AskEffect
        <2>3. lasting[q] \subseteq e.seen
            BY <2>1, <2>2 DEF LastingInv, ServesLasting
        <2>. QED
            BY <1>0, <2>2, <2>3, LastingShrinks
    <1>3. CASE CacheMiss(q)
        <2>1. asking'[q].pc = "missed"
            BY <1>0, <1>3, AskingSteps
        <2>. QED
            BY <2>1
    <1>4. CASE Search(q)
        <2>1. /\ asking[q].pc = "missed" /\ asking'[q].pc = "searched"
              /\ asking'[q].seen = Searchable(AskedKb[q])
            BY <1>0, <1>4, AskingSteps
        <2>. QED
            BY <1>0, <2>1, LastingShrinks
    <1>5. CASE CacheSet(q)
        <2>1. /\ asking[q].pc = "searched" /\ asking'[q].pc = "answered"
              /\ asking'[q].seen = asking[q].seen
            BY <1>0, <1>5, AskEffect DEF CacheSet, Asking
        <2>2. lasting[q] \subseteq asking[q].seen
            BY <2>1 DEF LastingInv, AnswersMissNothing
        <2>. QED
            BY <1>0, <2>1, <2>2, LastingShrinks
    <1>6. CASE Record(q) \/ RecordFails(q) \/ AnswerFails(q)
        <2>1. asking'[q].pc = "idle"
            BY <1>0, <1>6, AskingSteps
        <2>. QED
            BY <2>1
    <1>. QED
        BY <1>1, <1>2, <1>3, <1>4, <1>5, <1>6 DEF Answer

\* What a request that looks for its key would be served stays complete when
\* another one stores what it found, and when a third finds something.
LEMMA ServesKept ==
    ASSUME LastingInv, HistoryNext, NEW q \in Queries, asking'[q] = asking[q], asking[q].pc = "keyed"
    PROVE  ServesLasting(q)'
    <1>0. /\ CacheInv /\ QueryTypeOK /\ ServesLasting(q)
          /\ lasting'[q] \subseteq lasting[q] /\ lasting[q] \subseteq Searchable(AskedKb[q])
        BY OthersKeepLasting DEF LastingInv, CacheInv
    <1>1. ASSUME \A kb \in KnowledgeBases : cache'[kb] \subseteq cache[kb], UNCHANGED asking
          PROVE  ServesLasting(q)'
        BY <1>0, <1>1, QueryAssumption DEF ServesLasting, QueryAssumption
    <1>2. ASSUME NEW p \in Queries, Answer(p)
          PROVE  ServesLasting(q)'
        <2>0. \A r \in Queries \ {p} : asking'[r] = asking[r]
            BY <1>0, <1>2 DEF Answer, LoadVersion, CacheHit, CacheMiss, Search, CacheSet, Record,
                RecordFails, AnswerFails, Ask, QueryTypeOK
        <2>1. ASSUME NEW r \in Queries, asking'[r].pc = "searched", AskedKb[r] = AskedKb[q],
                     asking'[r].key = asking[q].key
              PROVE  lasting'[q] \subseteq asking'[r].seen
            <3>1. CASE asking'[r] = asking[r]
                BY <1>0, <2>1, <3>1 DEF ServesLasting
            <3>2. CASE r = p
                BY <1>0, <1>2, <2>1, <3>2, OwnLasting
            <3>. QED
                BY <2>0, <3>1, <3>2
        <2>2. ASSUME NEW e \in cache'[AskedKb[q]], e.key = asking[q].key
              PROVE  lasting'[q] \subseteq e.seen
            <3>1. CASE e \in cache[AskedKb[q]]
                BY <1>0, <2>2, <3>1 DEF ServesLasting
            <3>2. CASE e \notin cache[AskedKb[q]]
                <4>1. CacheSet(p)
                    BY <1>2, <2>2, <3>2 DEF Answer, LoadVersion, CacheHit, CacheMiss, Search, Record,
                        RecordFails, AnswerFails
                <4>2. AskedKb[q] \in KnowledgeBases /\ AskedKb[p] \in KnowledgeBases
                    BY QueryAssumption DEF QueryAssumption
                <4>3. /\ asking[p].pc = "searched" /\ AskedKb[p] = AskedKb[q]
                      /\ e = [key |-> asking[p].key, seen |-> asking[p].seen, cites |-> asking[p].cites]
                    BY <1>0, <2>2, <3>2, <4>1, <4>2 DEF CacheSet, Ask, EntryKey, QueryTypeOK
                <4>4. lasting[q] \subseteq asking[p].seen
                    BY <1>0, <2>2, <4>3 DEF ServesLasting
                <4>. QED
                    BY <1>0, <4>3, <4>4
            <3>. QED
                BY <3>1, <3>2
        <2>. QED
            BY <2>1, <2>2 DEF ServesLasting
    <1>3. QueryNext
        BY DEF HistoryNext
    <1>. QED
        BY <1>0, <1>1, <1>2, <1>3 DEF QueryNext, Expire, QueryTypeOK

LEMMA NextLasting ==
    ASSUME LastingInv, HistoryNext
    PROVE  LastingInv'
    <1>0. /\ CacheInv /\ CacheInv' /\ QueryTypeOK /\ QueryTypeOK' /\ TypeOK' /\ QueryNext
        BY NextCache DEF LastingInv, HistoryNext, CacheInv, ChunkInv, TypeInv
    <1>1. lasting' \in [Queries -> SUBSET Chunks]
        <2>1. \A q \in Queries : Searchable(AskedKb[q])' \in SUBSET Chunks
            BY <1>0 DEF TypeOK, Searchable, CommittedChunks, Chunks
        <2>2. \A q \in Queries : Throughout(q) \in SUBSET Chunks
            BY <2>1 DEF Throughout
        <2>. QED
            BY <2>2 DEF HistoryNext
    <1>2. ASSUME NEW q \in Queries
          PROVE  /\ asking'[q].pc # "idle" => lasting'[q] \subseteq Searchable(AskedKb[q])'
                 /\ asking'[q].pc \in {"searched", "answered"} => lasting'[q] \subseteq asking'[q].seen
                 /\ asking'[q].pc = "keyed" => ServesLasting(q)'
        <2>1. CASE asking'[q] = asking[q]
            <3>1. asking[q].pc \in {"searched", "answered"} => asking[q].pc # "idle"
                OBVIOUS
            <3>. QED
                BY <1>0, <2>1, <3>1, LastingShrinks, OthersKeepLasting, ServesKept
        <2>2. CASE Answer(q)
            <3>1. ASSUME asking'[q].pc = "keyed"
                  PROVE  ServesLasting(q)'
                <4>1. /\ asking[q].pc = "idle" /\ asking'[q].key = version[AskedKb[q]]
                      /\ lasting'[q] = Searchable(AskedKb[q])
                    BY <2>2, <3>1, OwnLasting
                <4>2. UNCHANGED cache /\ \A r \in Queries \ {q} : asking'[r] = asking[r]
                    <5>1. ~CacheSet(q)
                        BY <4>1 DEF CacheSet, Ask
                    <5>. QED
                        BY <1>0, <2>2, <5>1 DEF Answer, LoadVersion, CacheHit, CacheMiss, Search,
                            Record, RecordFails, AnswerFails, Ask, QueryTypeOK
                <4>3. AskedKb[q] \in KnowledgeBases
                    BY QueryAssumption DEF QueryAssumption
                <4>4. \A e \in cache'[AskedKb[q]] : e.key = asking'[q].key => lasting'[q] \subseteq e.seen
                    BY <1>0, <4>1, <4>2, <4>3 DEF CacheInv, Sound
                <4>5. \A p \in Queries :
                          /\ asking'[p].pc = "searched" /\ AskedKb[p] = AskedKb[q]
                          /\ asking'[p].key = asking'[q].key
                          => lasting'[q] \subseteq asking'[p].seen
                    BY <1>0, <3>1, <4>1, <4>2 DEF CacheInv, Sound
                <4>. QED
                    BY <4>4, <4>5 DEF ServesLasting
            <3>. QED
                BY <1>0, <2>2, <3>1, LastingShrinks, OwnLasting
        <2>3. asking'[q] = asking[q] \/ Answer(q)
            <3>1. ASSUME NEW p \in Queries, Answer(p), p # q
                  PROVE  asking'[q] = asking[q]
                BY <1>0, <3>1 DEF Answer, LoadVersion, CacheHit, CacheMiss, Search, CacheSet, Record,
                    RecordFails, AnswerFails, Ask, QueryTypeOK
            <3>. QED
                BY <1>0, <3>1 DEF QueryNext, Expire
        <2>. QED
            BY <2>1, <2>2, <2>3
    <1>. QED
        BY <1>0, <1>1, <1>2 DEF LastingInv, AnswersMissNothing

\* No answer, computed or cached, misses a chunk that could be found all the while
\* the request ran: thanks to the versioned keys a hit lacks only what a search at
\* some moment of the request would have lacked as well.
THEOREM AnswersAreFresh == HistorySpec => []AnswersMissNothing
    <1>1. LastingInv /\ UNCHANGED <<qvars, lasting>> => LastingInv'
        <2>. SUFFICES ASSUME LastingInv, UNCHANGED <<qvars, lasting>> PROVE LastingInv'
            OBVIOUS
        <2>1. CacheInv'
            BY NextCache DEF LastingInv
        <2>2. UNCHANGED <<asking, cache, lasting, status, chunks>>
            BY DEF qvars, vars, rows
        <2>3. \A kb : Searchable(kb)' = Searchable(kb)
            BY <2>2 DEF Searchable, CommittedChunks
        <2>. QED
            BY <2>1, <2>2, <2>3 DEF LastingInv, AnswersMissNothing, ServesLasting
    <1>2. LastingInv => AnswersMissNothing
        BY DEF LastingInv
    <1>. QED
        BY <1>1, <1>2, InitLasting, NextLasting, PTL DEF HistorySpec
=============================================================================
