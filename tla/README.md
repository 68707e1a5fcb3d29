# Engineering Knowledge Copilot: verification project

TLA+ models of the backend under `src/app/`, the TLC configurations that check
them on small instances, and TLAPS proofs of the results that hold for every
size. Paths below are relative to `src/`.

## 1. The system

The backend is a FastAPI process (each request handler is a synchronous function
that runs in a thread of its own, with a database session of its own), a Celery
worker with several pool processes, PostgreSQL with pgvector, Redis (broker of
Celery, query cache, rate limits) and a directory of uploaded files that API and
worker share.

| Component | State | Operations | Talks to | What is hard | What makes it correct |
|---|---|---|---|---|---|
| Upload (`api/v1/documents.py`, `services/validation.py`, `storage.py`) | files; rows `documents`, `ingestion_jobs`; `knowledge_bases.updated_at` | validate, store, look for a duplicate, insert, enqueue, mark a failed dispatch | database, storage, broker | check and insert are two transactions; commit and enqueue are two systems; requests overlap and die | tasks name rows and files that exist; no duplicates (does not hold); an accepted upload settles |
| Dispatch and retry (`services/ingestion_queue.py`, `retry.py`, `workers/celery_app.py`) | attempts of one call; the queue | `enqueue`, `RetryService.run` | broker | a call may fail after the broker took the task | the bound on attempts; a repeated dispatch does no harm |
| Worker (`workers/ingestion_tasks.py`, `services/ingestion.py`) | session (loaded values), delivery; rows, chunks, vectors | one delivery of `ingest_document_task`: two or three transactions | database, storage, embedding provider, broker | overlapping, repeated, lost deliveries; a death at any step; values read in one transaction and written in a later one; retries | ready documents have chunks; document and job agree; attempts are bounded; no task is lost; every document settles |
| Query (`api/v1/query.py`, `services/cache.py`, `query_history.py`, `rag.py`, `retrieval.py`) | cache entries in Redis; `query_logs`, `query_citations` | key, look up, search, answer, store, record | database, Redis, providers | the key is read before the search and used after it; chunks are replaced between the search and the history insert | answers under the current key are complete; citations that a re-run can see are kept |
| Language model (`services/llm.py`, `openai_client.py`, `embedder.py`) | none | confidence gate, prompt, retries, normalisation of the payload | provider | arbitrary payloads, failing calls | a grounded answer cites its contexts, as far as its references are checked, and has a confidence no higher than retrieval's |
| Rate limiting (`services/rate_limit.py`, `api/deps.py`) | counters with an expiry in Redis or in memory | `increment`, `enforce_request_limit` | Redis | windows, clock readings outside the lock, Redis coming and going | at most `limit` requests per window and client |
| Chunker (`services/chunker.py`) | none | `chunk_document` | - | window arithmetic | every word is in a chunk, in order, no chunk is longer than the window |
| Lists (`services/pagination.py`, `document_catalog.py`, `query_history.py`, `api/v1/knowledge_bases.py`) | none | count, then page | database | rows are inserted between the two statements and between pages; stamps are older than commits | pages leave no gap; a finished walk misses no row that it should have met |
| Contact (`services/contact.py`) | none | one or two messages in one SMTP session | SMTP server | a failure between the two, a lost reply, a refused QUIT; the client repeats | nobody is told of a delivery that did not happen; copies only follow reported failures |
| HTTP layer (`main.py`, `api/errors.py`, `core/exceptions.py`, `api/deps.py`, `services/metrics.py`) | `http_requests_total` | admit, handle, turn exceptions into answers, count | every endpoint | a failure after the effect; an exception no handler inside the middleware knows | the status tells what became of the request; the request counter misses no answer (does not hold) |
| Config, schemas, migrations, logging, health | settings | - | - | - | not modelled: wiring, declarations, pings |

The components interact in four places: the **rows** (upload, worker and query
share `documents`, `document_chunks`, `query_citations` and `updated_at`), the
**broker** (upload and worker), the **cache key**, which is the only thing the
query path knows of ingestion, and the **HTTP layer**, which admits the requests of all
endpoints and answers them.

## 2. The modules

| Module | Models | State | Actions |
|---|---|---|---|
| `Ingestion` | upload request, dispatch, broker, worker, the rows they share | `api`, `tries`, `files`; `status`, `job`, `chunks`, `batches`, `cited`, `version`; `queue`; `run`; `faults` | one per SELECT, commit, broker call and fault |
| `IngestionPromise` | what a client may rely on: one life per document | `phase`, `attempts`, `sets`, `version` | `Submit`, `Abandon`, `Attempt`, `Publish`, `Fail` |
| `QueryPath` | `POST /v1/query` beside `Ingestion` | `asking`, `cache` | one per SELECT, Redis call and transaction |
| `Grounding` | one question through `RagService.answer`: embedding, gate, language model, normalisation, retries of provider calls | `provider`, `stage`, `calls`, `scores`, `confidence`, `response` | `CallFails`, `CallRefused`, `Retrieve`, `SearchFails`, `Reject`, `Ask`, `Quote`, `Normalize` |
| `RateLimit` | threads, the shared limiter, windows in memory and in Redis, time | `now`, `service`, `store`, `request` | `Arrive`, `Build`, `ReadClock`, `CountInMemory`, `CountInRedis`, `RedisFails`, `Tick`, `Restart` |
| `Chunker` | the nested loop of `chunk_document` | `size`, `overlap`, `pages`, `page`, `start`, `chunks` | `SkipPage`, `EmitWindow` |
| `Listing` | a paginated list and a client that walks through it while rows are inserted | `now`, `stamp`, `committed`, `walk` | `Insert`, `Commit`, `Abort`; `Begin`, `NextPage`, `SamePage`, `CountRows`, `SelectRows`, `ReadFails`, `Finish`, `RefuseSize` |
| `Contact` | the contact form, its SMTP session, a visitor who submits again | `form`, `mail`, `failures` | `Submit`, `Validate`, `Configure`, `Connect`, `Secure`, `SendMessage`, `SessionFails`, `ReplyLost`, `Quit`, `QuitRefused` |
| `HttpApi` | the layer around the endpoints; composes `Listing`, `Contact` and the creation of a knowledge base | both, and `endpoint`, `request`, `told`, `counted` | `Receive`, the refusals and admissions, the handlers, `RespondThroughMiddleware`, `RespondOutsideMiddleware` |
| `MCIngestion`, `MCQueryPath`, `MCGrounding`, `MCRateLimit`, `MCChunker`, `MCHttpApi` | instances for TLC | | |
| `IngestionProofs`, `SingleCopyProofs`, `QueryProofs`, `GroundingProofs`, `RateLimitProofs`, `ChunkerProofs`, `ListingProofs`, `HttpProofs` | theorems | `lasting`, a history variable (`QueryProofs`) | |

`QueryPath` EXTENDS `Ingestion`. In `Ingestion` a query is the environment action
`Cite(S)`, one atomic transaction that cites any committed chunks; `QueryPath`
replaces it by the real sequence of steps, and `RefinesIngestion` says that this
is a refinement, so everything shown of `Ingestion` holds of the composition.
`HttpApi` EXTENDS `Listing` and `Contact`: their actions are the steps of its handlers, and
`ComponentsKeepTheirSpecs` says that each of them still sees its own specification only.

### How `Ingestion` corresponds to the code

An upload request `u` gets a fresh storage key, document id and job id, so `u`
names all of them. `api[u]` is the point a request reached in
`upload_document`: `new` -> `stored` (`save_upload` returned) -> `checked` (the
duplicate SELECT found nothing) -> `enqueueing` (documents and jobs committed) ->
`accepted` (202) or `enqueue_failed` -> `unavailable` (503). `tries[u]` counts calls
of `delay()`: `DispatchRaises` is one turn of `RetryService.run`'s loop.

`run[w]` is one worker process: `pc`, the task it holds and the values its session
loaded. The steps are those of `IngestionService.run`:

| `pc` before | action | code (`app/services/ingestion.py`) |
|---|---|---|
| `loading` | `LoadDocument` | 36 |
| `loading_job` | `LoadJob` (NotFoundError when a row is missing) | 37-40 |
| `starting` | `CommitProcessing` | 42-48 |
| `parsing` | `SelectChunks`, or `Fail` | 51-56 |
| `replacing` | `SelectCitations`, `DeleteCitedChunks` (the flush's SELECT of the citations) | 57-59 |
| `looked` | `DeleteChunks` (its DELETE of the chunks) | 57-59 |
| `embedding` | `CommitReady`, or `Fail` | 61-115 |
| `rolled_back` | `ReloadDocument` | 117-118 |
| `reloading` | `ReloadJob` | 119 |
| `failing` | `CommitFailed` | 120-134 |
| `raised` | `PublishRetry`, `GiveUp` | `workers/ingestion_tasks.py` 13-17 |
| `acking` | `Ack` | `workers/ingestion_tasks.py` 14 |

What the model takes from the libraries, and where it matters:

- **SQLAlchemy's unit of work.** UPDATEs are sent at commit and name only the
  columns whose assigned value differs from the loaded one (`Written`,
  `FlushedJob`). `expire_on_commit` is off (`db/session.py`), so after the first
  commit the session keeps what it assigned; a rollback expires everything, so the
  except path loads again. With overlapping runs this decides which columns of two
  runs mix.
- **READ COMMITTED.** Every SELECT is a step that sees what is committed then. The
  DELETEs of the flush lock their rows: a second worker waits (`Locked`), and rows
  that are gone meanwhile are skipped.
- **`DocumentChunk.citations` has no delete cascade.** Deleting a chunk that was
  cited makes the flush set `query_citations.chunk_id` to NULL, which the column
  refuses: `DeleteCitedChunks` is the error path. The flush finds the citations by a
  SELECT of its own and deletes the chunks in a later statement, two steps of the model. A
  query may commit a citation in between: the DELETE succeeds, and the foreign key's
  `ON DELETE CASCADE` takes that citation out of the history (`CommitReady` removes it when
  the deletion becomes visible).
- **Failing dependencies.** The parser, the chunker's "no extractable text" and the embedding
  provider share `Fail`; that of a document with text is a counted fault.
- **Foreign keys.** Recording a citation waits for a transaction that deletes the
  chunk and fails once it is gone: the guard `BeingDeleted`, and `RecordFails`.
- **Celery.** `acks_late`: a delivery is acknowledged after the run, a dead worker's
  delivery returns (`Crash`); the death of a pool process alone is acknowledged as a
  failure, because `task_reject_on_worker_lost` is off (`ChildLost`); a retry is a new
  message sent before the acknowledgement (`PublishRetry`); a lost connection or the
  visibility timeout re-sends a task that is still running (`Redeliver`).
- **`updated_at`** is compared for equality only (it is a part of the cache key) and
  each `utcnow()` is written once: a number that is fresh at every touch. Two touches
  in the same microsecond are not modelled.

Chunks of one run are one *batch*: they are inserted and deleted together. A batch
number stands for the fresh UUIDs of its chunks. `error_message` and `finished_at`
are "set or NULL".

### How `QueryPath` corresponds to the code

`asking[q].pc` follows `query_knowledge`: `idle` -> `keyed` (`db.get(KnowledgeBase)` and
`build_cache_key`) -> `missed` or, on a hit, `answered` -> `searched` -> `answered`
(`set_json`) -> `idle` (`record`). An answer is represented by the chunks the search
saw and the ones it cites: ranking and language model are functions of these. All
requests ask one question with the same parameters, since other questions have keys
of their own. A Redis error is a miss on `get` and a lost write on `setex`, as in
`CacheService`. A request that ended may start again, so the requests are a pool of
threads and not a number of calls.

### How `Grounding` corresponds to the code

`stage` follows `RagService.answer`: `embedding` (`RetrievalPipelineService.retrieve` embeds the
question) -> `retrieved` (`search` and `calculate_confidence`) -> `asking` (`generate_answer`), or
`answered` at once when the evidence is `Weak`. A call of the OpenAI-compatible provider is
`CallFails` (one turn of `RetryService.run`; `calls` counts them and starts anew for the next
call), `CallRefused` (an error that is not retried, or a body of the wrong shape) or the step
that uses its result. A search whose statement raises is `SearchFails`. Scores and confidences are
integers over a common denominator (see the module's header), so that the weights of
`calculate_confidence` are exact (`Weighted`). What `round(..., 4)` makes of them is `Rounded`: the
multiples of `Grid` that are nearest, both of them in the middle between two, where the
floating-point number decides. The gate compares the rounded value, and the claimed confidence of
the model is rounded once more.

`Payload` is everything `_parse_payload` may hand to `_normalize_payload`, reduced to what the
normalisation tells apart: a status that is known, missing or unknown; an answer that is false in
Python, unusable or a sentence; the set of references `[n]` in it and whether there are words
besides; the claimed confidence; whether there is a reason. `Normalized` are the responses to
every such payload, except where the code raises: an answer with nothing left in it (`Emptied`) and
an integer that `float()` refuses (`Unreadable`). `around` are the references that
have a reference to no context inside their brackets ("[[9]7]"): the code removes the inner one
in one pass and so *makes* a reference that it does not compare with the contexts (`Left`). The
placeholder provider compares nothing: it quotes the text of up to three chunks, and whatever reads
like a reference there is in the answer (`Quoted`). `response.unchecked` remembers the references of
both kinds, for the one property that tells them from the others.

### How `RateLimit` corresponds to the code

A thread resolves the limiter (`Arrive`, and `Build` where `lru_cache` has none yet: the ping
decides), then counts. In memory that is two steps, the clock reading and the locked block, in
that order; in Redis it is one, the transaction of INCR, EXPIRE NX and TTL. A bucket that is
missing and one that has expired are the same to the code, so a missing one is
`NoBucket`, which expired at 0. `RedisFails` leaves open whether the transaction was applied.
`admitted`, `mark` and `stretch` are history and restrict nothing: `admitted` counts the admissions
of each window, `stretch` those in the stretch `[mark, mark + Window)`, which begins at any time
`Init` may choose. `Restart` loses the windows in memory and begins these histories of the memory
backend anew: what is said of it is said of one life of the process, because a process that starts
again knows nothing of what the last one admitted. Those of Redis go on.

### How `Chunker` corresponds to the code

`page` and `start` are the loop variables; `EmitWindow` is one turn of the inner loop with its
`break` and the end of its `range`. Words are positions: the text of a chunk is
`start..end - 1`, as in the metadata the code stores.

### How `Listing`, `Contact` and `HttpApi` correspond to the code

A row has a stamp from its `Insert` on (`created_at` is taken when the session flushes) and is
visible from its `Commit` on. The three list endpoints have one shape, `CountRows` then
`SelectRows`, and differ in their filter only. Rows of one stamp may be returned in any
order, anew in every statement (`Front` is the set of all results that `ORDER BY created_at DESC
LIMIT n` may have). `walk` is the request and the client around it: `base` are the rows that were
visible when the walk began, `seen` those on the pages it was shown, `late` counts the rows that
became visible between the last count and its page.

`form.pc` follows `ContactService.submit` down to the commands of the SMTP session. `taken` is
what the server took of this submission, `mail` what it ever took. `Quit` is the end of the
`with` block, where `smtplib` ignores a server that is gone and raises for one that refuses
(`QuitRefused`).

`request.pc` is where one request stands: `received` (in the middleware), admitted by its
dependencies and `running` (the handler), `inserted` and `committed` for the creation of a
knowledge base, `responding` (an outcome exists), `over`. `StatusOf` is the table of the exception
handlers. An exception that has none but the one for `Exception` passes through the middleware and
is answered outside of it, which is why `RespondOutsideMiddleware` does not change `counted`
(`http_requests_total`), while `told` has every answer. A conflict of
the unique name is an `IntegrityError` at the flush: an INSERT waits for the transaction that
inserted the same name (`Insert`) and then goes on or fails (`Taken`).

## 3. The runs

| Run | Instance | Faults | Properties |
|---|---|---|---|
| `query_faults` | 1 upload, 2 workers, 1 retry, 1 request thread that asks again and again | all eight kinds, 1 counted | `TypeOK`, `ReadyHasChunks`, `TasksHaveRowsAndFiles`, `QueryTypeOK`, `CacheComplete`, `CurrentHitsResolve`, `StaleOnlyDuringRuns`, `NewContentInvalidatesCache`, `CitationsAreKept`, `RefinesIngestion` |
| `ingestion_single` | 2 uploads of one file, 2 workers, 2 dispatch attempts, 2 retries | those that do not copy a task, 3 counted | `StatusAgreement`, `AttemptsBounded`, `KeepsPromise` |
| `ingestion_liveness` | 1 upload, 2 workers, 2 dispatch attempts, 1 retry, fairness | unconfirmed dispatch, API and worker deaths, re-deliveries, dependency failures, 1 counted | `NoLostTask`, `ChunkSetsBounded`, `AcceptedSettles`, `ReadableBecomesReady` |
| `grounding` | up to 3 hits with scores 0, 1/2, 1; 2 attempts; a rounding step of 80 (confidences 0..1200); every payload over references 0..4, with confidences in and above the range and one that `float()` refuses; any quoted references; fairness | failing search, failing and refused calls | `TypeOK`, `GroundedIsBacked`, `RejectionsSayWhy`, `ConfidenceIsEarned`, `QuestionSettles` |
| `rate_limit` | 2 threads, 1 client, limit 2, window 3, time 0..6 | failures of Redis, restarts | `TypeOK`, `WindowLimit`, `FullBeforeDenial`, `RollingLimit`, `LiveWindowsEnd` |
| `chunker` | sizes 1..4, overlaps -1..5, up to 2 pages of up to 7 words | - | `TypeOK`, `EveryWordIsChunked`, `EachChunkAdvances`, `NeighboursShareOverlap` |
| `http_api` | 3 rows in the list, one rival with the name the client wants, 2 rows of the client's own; stamps up to 3, page sizes 1..3, maximum 2; 4 requests, 4 submissions | failing reads, commits and refreshes; refusals, lost replies and a refused QUIT of the mail server | `HttpTypeOK`, `NoGaps`, `MissesOnlyWhatGrew`, `PagesFillTheTotal`, `NoticesAreTrue`, `CopiesFollowFailures`, `AnswersTellTheOutcome`, `ComponentsKeepTheirSpecs` |
| `violation_duplicates` | 2 uploads of one file | none | `NoDuplicateDocuments` |
| `violation_cited` | 1 upload, 1 worker, fairness | one crash | `ReadableEndsReady` |
| `violation_childlost` | 1 upload, 1 worker, fairness | one killed pool process | `ProcessingEnds` |
| `violation_grounding` | as `grounding`, two readable confidences | as `grounding` | `NoUnhandledError` |
| `violation_metrics` | as `http_api` | as `http_api` | `EveryAnswerCounted` |

**Bounds.** `MaxFaults` bounds crashes, re-deliveries, database errors and failing dependencies;
failures of the broker need no bound because each uses up an attempt or a retry. Two workers are
what overlapping needs: every race of the model is between two runs of one task, or between a run
and a request. In `query_faults` one fault copies a task or loses it, and the copies overlap in any
order with each other and with the request; two faults in one behaviour are beyond that run, and
covered by the theorems, which hold for any number. One request thread that starts anew is two
requests of which the second finds what the first has cached. `EnqueueAttempts` is 2 where a
repeated dispatch matters: in `ingestion_liveness` the first call of `delay()` may raise although
the broker took the task, and the second accept the upload; a crash or a re-delivery then makes it
three runs of one task, two of which overlap, which is what `ChunkSetsBounded` needs to be worth checking. Two uploads
are what the duplicate check needs; documents with other contents meet only in `updated_at` and in the answer. One retry
gives a last and a not-last attempt, two in `ingestion_single` one in between. `ingestion_liveness`
has no symmetry (liveness forbids it) and fewer faults for that reason. In the instances every
content has text; the path of a document without text (`chunk_payloads` empty) ends in the same
`Fail` as a dependency failure, and the theorems cover any `HasText`.

`Grounding` needs three hits because the mean is over three, and references below, in and above
the contexts. Its rounding step is coarse (1/15) and no divisor of the other units, so that rounding
up and down, and across the threshold, occurs. `RateLimit`: `MaxTime` is two windows, `MaxCount` one
request more than the limit.
These reach both bounds of `RollingLimit` (`3 * Limit - 1` and `2 * Limit - 1` occur, a smaller
bound is violated). `Chunker`: sizes, overlaps and lengths on either side of each other.

`http_api`: three rows with pages of one or two make walks of up to three pages; with three stamps
rows share one, have different ones, and become visible in another order than they were stamped.
Two rows of the client's own let its repeated request meet its first one, the rival row lets it
meet somebody else's. Four requests are three pages and one repetition. The rows of the list are
symmetric; the run checks safety only, so symmetry is sound. Deadlock is not checked there: a
client that has what it wants, or has used its requests, is done.

**What the passing runs show.** Under every fault: what retrieval selects by status is
there; a task always finds its rows and its file, so `NotFoundError` in the worker is
unreachable; a citation that was recorded before a run looks for it, and its chunk, stay for ever
(one that is recorded between the look and the commit of the DELETE goes with the chunk); the
cache key changes with every publication. Under repeated dispatches with a crash or a re-delivery, and by its theorem
under every fault, a document has at most as many sets of chunks as there are workers, and a later
run removes what overlapping ones left. `StatusAgreement`, `AttemptsBounded` and `KeepsPromise` need
more: they fail when a task has two copies (two runs then write different columns of
the job row; a document may leave `ready`), so `ingestion_single` excludes the faults
that copy one. `NoLostTask` excludes killed pool processes, failing commits of the failure handler, and
a re-delivery whose restored worker dies after the copy has ended: each of these really loses
the task (in the run, with one counted fault, a worker dies or is re-delivered, not both). A broker that refuses a retry loses it too, but only after the document has failed; the
liveness run leaves it out because the document then misses attempts it is entitled to.

For lists: however rows are inserted between the statements of one page and between the pages, a
row that was there when the walk began is on a page or behind all pages read so far, unless it
shares its `created_at` with another row: without that premise (`Untied`) TLC finds a row that
falls between two pages. For the contact form and the creation of a knowledge base: a success did
everything it speaks of and a client error did nothing; only a 500 or 503 leaves it open, and a
client that repeats after one may send a second message or meet its own row as a conflict.
`StaleOnlyDuringRuns` is what remains of "automatic query-cache freshness on document lifecycle
updates" (README.md:93): under the current key the cache serves a document that retrieval no longer
selects only if its status is `processing`, or if the request that uploaded it marked it failed
after the broker had taken its task. The claim does not hold for these: neither the commit that
begins a run (ingestion.py:42) nor the request (documents.py:130) touches the knowledge base. As
long as no delivery is lost and no session fails there is a task that ends the state (the theorem
`StaleAnswersHaveATask`); a lost one leaves status and key as they are, and the answer is served
until its TTL.

**Fairness.** `FairSpec` assumes weak fairness of `Handle(u)` for each request and of
`Work(w)` for each worker: a thread or a process that can take a step does. This is the
scheduling of uvicorn's thread pool and of Celery's prefork pool; the code has no lock
that several threads fight for, so weak fairness is enough. Nothing fair is assumed of
faults, of `ApiCrash` or of queries. Every attempt may fail, by a dependency or because a query has
cited the chunks that a crash lets run again, so `ReadableBecomesReady` says: ready, or the last
attempt that a task is entitled to was used.
`Grounding` assumes weak fairness of its next step, that is, that the thread of the request runs:
every provider call has a timeout and ends as a result, a failure or a refusal.

`GroundedIsBacked`, `RejectionsSayWhy` and `ConfidenceIsEarned` hold for every payload of the model,
contradictory ones included. "Answers are citation-backed at the chunk level" holds of the citations
list of a response, which retrieval builds; of the references in the text it holds as far as they
are compared with the contexts. `GroundedIsBacked` exempts, by name, those that are not: quoted from
a chunk, or made by the removal of others. With them counted in, TLC finds a grounded answer that
cites a context which does not exist. An answer of a model may have such references only
(llm.py:288 takes them for valid ones and adds no others). The bounds of both properties are those
after the rounding: a best score of 0.12346 may become a confidence of 0.1235.

In `RateLimit` a thread that waits for the lock with an old clock reading may open a window that is nearly over: no window exceeds its limit and no client is
refused early, but three windows, not two, can meet in one minute. All of this is under the
assumption, the guard of `Tick`, that a thread has the lock before a whole window has passed since it
read the clock: what a window does that is over when it begins is not said. The limits in memory are
those of one life of the process; a restart in mid-minute admits anew.

**What the five violations show** (see the findings in `PROJECT.json`): duplicates pass
the checksum check when two uploads overlap; a crash between publication and
acknowledgement plus one query turns a ready document into a failed one for good; a
killed pool process leaves a document in `processing`; an answer that consists of invalid
references only is an unhandled error instead of a rejection; a request that ends in an unhandled
error is missing from the counter of handled requests.

## 4. The proofs

`IngestionProofs` proves for every `Uploads`, `KnowledgeBases`, `Contents`, `Workers`,
`Faults` and every bound, from `IngestionAssumption` alone:

- `TypeCorrect`. `TypeOK` is not inductive: `tries[u] \in 0..EnqueueAttempts` needs that a
  request that is still enqueueing has an attempt left. `TypeInv` adds that.
- `TasksAreDeliverable`. `TaskInv` adds to the property where a request stands (`RequestInv`):
  a file exists from `stored` on, rows exist from `enqueueing` on, and nothing deletes
  either afterwards. `RunFrame` and `QueueFrame` say that a worker's step sends or takes
  no task but its own or a queued one.
- `ReadyIsSearchable`, `EarlyCitationsAreKept`, `PublicationInvalidatesCache` share
  `ChunkInv`: `ReadyHasChunks`, `CitationsResolve` (citations are of chunks that exist) and
  `DeletionInv`, a run deletes only what it found. `EarlyCitationsAreKept` is a step property: a citation
  that no run had looked for (`Looked`) is found by every run that comes to it later
  (`LooksLater`), which then fails in its flush, and a deletion that becomes visible is that of a run
  that had looked. `CitationsResolve` alone would be weaker: the cascade keeps it up by removing
  citations. `ReadyHasChunks` survives because `CommitReady` adds the
  batch it publishes in the step that removes the others.
- `ChunkSetsAreBounded`, for a finite set of workers. `Owners(u)` are the injections from the sets
  of chunks of `u` to the workers that published them: a worker that works on `u` again has found
  its own set (`replacing`) or deletes it (`embedding`), so that its next publication takes the
  place of its last one. The library's theorem on injections into finite sets gives the bound.
- `NoTaskIsLost`, under `TasksAreKept`: Celery neither acknowledges nor re-sends running work and
  sessions do not fail. (The broker may refuse messages: weaker than the faults of the liveness
  run.) `NoLostTask` is not inductive, since a delivery that read "failed" before another one
  wrote "processing" writes nothing at its end. `CarriedInv` asks for a task that waits, or for a
  delivery that is `Pending`: one whose next commit writes the status whatever the row says then.

- `TasksAreFinite`, a step property: a worker's step, also one that fails, lowers what is left to
  its task (`Left`), takes over a task that costs more than it has left then, or sends a retry that
  costs less than the step saves (`Spends`). Every measure is a natural number and `Cost` bounds a task by
  13 steps for each of its `MaxRetries + 1` deliveries. Work is only added by the
  dispatch of an upload, by `Crash` and by `Redeliver`. That is the half of `AcceptedSettles` that needs no fairness: nothing goes round in circles.

`SingleCopyProofs` adds the assumption `NoCopies` (no crash of a whole worker, no re-delivery, no
unconfirmed dispatch) and proves `StatusColumnsAgree`, `AttemptsAreBounded` and
`PipelineKeepsPromise`, the refinement of `IngestionPromise`. The invariant `SingleInv` says that
a document has at most one task, waiting or running, and that a running delivery knows the rows as
they are, so that the columns the unit of work leaves out have the assigned value already. For
each commit one lemma (`ProcessingEffect`, `ReadyEffect`, `FailedEffect`) says what it makes of
the rows; the step of the promise that it implements follows from that. Two more theorems:

- `NothingIsTakenBack`: a document that is ready stays ready with the chunks it has. It is a
  property of the promise (`PromiseIsFinal`) and comes through the refinement.
- `DuplicatesNeedOverlapOrRetry` explains the run `violation_duplicates`: in behaviours where no two requests for one
  file stand between check and INSERT together (`Serial`), two live documents with one content are a failed document
  that came back with a retry and the one that its failure let in. `TwinInv` adds that a request that
  has passed the check has no live twin but such a one, and that a document that failed in a worker has an
  attempt behind it.

`QueryProofs` proves, in addition from `QueryAssumption`:

- `QueryPathRefinesIngestion`: every step of `QueryPath` is a step of `Ingestion` or a
  stutter; the only visible one is `Record`, which is `Cite` of chunks that are committed at
  that moment. `RecordedCitationsAreKept` draws the first conclusion.
- `CachedAnswersAreComplete`, `CurrentHitsAreCitable` and `QueryTypeCorrect` from `CacheInv`: what was
  computed for a key is complete and citable *if the key is current* (`Sound`), for
  entries and for answers still on their way into the cache, and no key is ahead of its
  knowledge base. The step is `KeyFrame`: as long as `updated_at` stays, nothing becomes
  searchable and no chunk disappears. Its two halves come from `NextChunks` and `ChunksFrame`.
- `StaleAnswersAreUnsettled`, under every fault, from `StaleInv`, which says of every current key, in
  the cache or in a request, that its documents are ready, in processing, or marked failed by their own
  request (`Unsettled`). A document leaves these states only by the commit of a failure, which
  touches (`ServedFrame`). `StaleAnswersHaveATask`, under `TasksAreKept`, joins this with `NoTaskIsLost`: what is
  served without being selected has a task that waits or runs.

- `ErrorsNeedAPublication` from `AnswerInv`: an answer under the current key, from the cache or
  not, cites chunks that exist; so `RecordFails` needs a touch between the reading of the key and the recording.
- `AnswersAreFresh`, of `HistorySpec`: `QuerySpec` with the history variable `lasting`, which holds for each request
  the chunks that were searchable in every state since it read the key. A hit misses none
  of them, although the entry may be older than the request. `LastingInv` must speak of entries
  that are not there yet: what another request with the same key has found may be stored and served
  before this one looks (`ServesLasting`).

`GroundingProofs` proves from `GroundingAssumption`, for any threshold, scale, rounding step, `top_k`,
quoted text and payload, `GroundedAnswersAreBacked`, `RejectionsAreExplained`,
`ConfidenceNeverExceedsEvidence` and `GroundingTypesCorrect`. The
invariant adds that the model is only asked when the evidence is not `Weak` and that the confidence is a
rounded one (`Measured`); `WeightedBound` is the
arithmetic of the weights (they sum to one, scores descend), `RoundedBound` that of the rounding: half a
step at most, and nothing for what is rounded already (`StepsApart`), so that rounding the smaller of
two never exceeds the larger. `NormalizedFields` and `QuotedFields` say what leaves the two providers.
`QuestionsAreFinite` is the half of `QuestionSettles` that needs no fairness: every step lowers `Budget`, a
number that begins at `2 * ModelAttempts + 1` and is zero exactly when the question is settled.

`RateLimitProofs` proves from `RateLimitAssumption` `WindowsAreLimited`, `RefusalsAreEarned`,
`LiveWindowsKeepTheirEnd`, `MinutesAreLimited` and `RateTypesCorrect`. `WindowLimit` is not inductive: `WindowOK` ties the admissions of a window to
its counter and says that later windows have admitted nothing, which holds because a new window
always ends later than the one it replaces (`IncrementedBucket`), stale readings included.
`MinutesAreLimited` needs no sum over windows. `RollInv` bounds the admissions in the measured stretch by the end and the
counter of the window at hand: the end tells how many windows can have preceded it in the stretch
(`RedisRoll`: one, `MemoryRoll`: two, because a stale reading opens a window that is nearly over),
and the first of them has admitted a request before the stretch. The bound in memory is one of each
life of the process, and all five assume the guard of `Tick`.

`ChunkerProofs` proves from `ChunkerAssumption` `NoWordIsLost`, `ChunksAdvance`,
`OverlapIsConfigured` and `ChunksAreWindows`. `WindowsInv` says that all chunks of the page at hand are full windows that ended
before the page, and that the last one began a stride before the loop variable. `ChunksAreReference`
compares the result with a definition without the loop: `WindowsOf(p)` are the multiples of the
stride that begin a window of page `p`, and the chunks are exactly these windows. `ReferenceInv` says that the
loop variable is such a multiple and that all smaller ones were emitted.

`ListingProofs` proves from `ListAssumption`, for any finite set of rows and any page sizes,
`PagesLeaveNoGap`, `WalkIsComplete` and `TotalIsShown`. Two facts about `Front` carry the first: a
row among the first `n` has fewer than `n` rows above it (`InFront`), and a row with a stamp of its
own that is not among them has at least `n` above it (`BehindFront`).
What lies above a row only grows, so a row that was behind the pages read stays behind them.
`LastPageInv` relates the last total to the rows that can still be missing.

`HttpProofs` proves, in addition from `ContactAssumption` and `HttpAssumption`:
`NobodyIsMisinformed` (`TakenInv`: what was taken is what was sent, in order, and possibly the
message at hand) and `CopiesAreResubmissions` (`CopiesInv`: the copies are those of failed
submissions and of the current one) of `ContactSpec`; `LayerRefinesComponents`,
`CounterMissesOnlyServerErrors` (what the counter of requests shows but for the run `violation_metrics`),
`StatusesAreTrue` and `HttpTypesCorrect` of `HttpSpec`. `StatusesAreTrue` rests on `OutcomeInv`,
which relates an outcome to what the endpoint has done, one conjunct per endpoint. Through the
refinement the theorems about `Listing` and `Contact` hold behind the HTTP layer.

Only model-checked: the liveness properties `AcceptedSettles`, `ReadableBecomesReady` and
`QuestionSettles`. Fairness and ENABLED are outside the prover's reach; what remains of them without
fairness is `TasksAreFinite` and `QuestionsAreFinite`. Every other property of a passing run is a theorem for
every value of the constants.

## 5. Abstractions and what is not modelled

- A commit that fails after the server has applied it (an unknown outcome) and a database
  that is down for good.
- The moment between the flush of a deletion and a citation inserted by a session that
  already holds its snapshot is the row lock only; PostgreSQL's lock manager is assumed.
- Chunk-level detail: a batch is all chunks of a run. The flush selects the citations of one chunk
  after the other; here it looks once, and deletes once. `extra_meta` counters are left out.
- Times and delays: retries happen in some order, back-off and jitter only slow them down.
- Celery's result backend, prefetching and the worker's warm shutdown.
- In `Grounding`: embeddings of zeros (their cosine distance is no number), brackets nested deeper
  than once, references of more digits than Python's `int()` reads, prompts, follow-up questions. Ties of
  the rounding go either way.
- In `RateLimit`: a thread that waits a window or longer between the clock and the lock, a bound on what
  the memory backend admits across a restart (there is none), a wall clock that is set back, a Redis that loses its data, several API
  processes (each has windows of its own in memory).
- In `Chunker`: a window size below 1, which the settings do not exclude.
- In `Listing`: clocks of several processes that differ, or are set back. GET by id is one SELECT of
  one row and is left out.
- In `Contact`: the death of the process in mid-session, after which a copy could follow without an
  answer; the texts of the messages and the rules of single fields; `Validate` leaves open
  which is refused.
- In `HttpApi`: answers that are lost on their way to the client, CORS, the lifespan, rate limit
  headers, the other counters and histograms (those of ingestion are kept by the worker's process,
  whose registry no endpoint shows), health and readiness. Rate limiting is a free choice there;
  `RateLimit` says when it refuses. Uploads and questions are not repeated behind `HttpApi`:
  `Ingestion`, `QueryPath` and `Grounding` model them without the middleware.
- Provider switches between ingestion and query (vectors of another model): configuration,
  constant in a deployment.
- Deletion of documents or knowledge bases: the API has none.

## 6. Plan

Order, with the most important behaviour first. All of it is done.

1. `Ingestion` + `IngestionPromise`: pipeline, faults, refinement, liveness.
2. `IngestionProofs`: types, tasks, chunks, citations, cache key, sets of chunks, no lost task.
3. `QueryPath` + `QueryProofs`: cache and history, composed with `Ingestion`.
4. `Grounding` + `GroundingProofs`: what leaves the API for any payload of the model.
5. `RateLimit` + `RateLimitProofs`: windows, stale clock readings, choice of backend.
6. `Chunker` + `ChunkerProofs`: coverage, order and overlap of windows.
7. `SingleCopyProofs`: agreement of the rows, attempts, and the refinement of the promise.
8. `Listing`, `Contact`, `HttpApi` + `ListingProofs`, `HttpProofs`: lists, contact form and the
   layer around them.
9. Results beyond the runs' properties: `MinutesAreLimited`; termination (`TasksAreFinite`,
   `QuestionsAreFinite`); freshness of answers (`AnswersAreFresh`, `ErrorsNeedAPublication`); when
   duplicates arise and that ready is final (`SingleCopyProofs`); the chunker's reference.

What could follow: a refinement of `QueryPath`'s answer by `Grounding`'s; uploads and questions
behind `HttpApi`.
