------------------------------ MODULE Ingestion ------------------------------
(***************************************************************************)
(* The document lifecycle: the upload handler of the API, the Celery       *)
(* broker, the worker processes that run IngestionService.run, and the     *)
(* rows of PostgreSQL they share.                                          *)
(*                                                                         *)
(* An upload request u that reaches storage gets a fresh storage key, a    *)
(* fresh document id and a fresh job id, so u stands for all three.        *)
(* Every database transaction that writes is one atomic step (its UPDATEs  *)
(* are sent at commit: autoflush is off), every SELECT is a step of its    *)
(* own, because PostgreSQL runs the sessions at READ COMMITTED.            *)
(***************************************************************************)
EXTENDS Naturals, FiniteSets

CONSTANTS
    Uploads,          \* upload requests
    KnowledgeBases,
    Contents,         \* what checksums tell apart
    KbOf,             \* the knowledge base each request names
    ContentOf,        \* the bytes each request carries
    HasText,          \* the contents the parser and the chunker find words in
    Workers,          \* Celery worker processes
    EnqueueAttempts,  \* settings.enqueue_retry_attempts
    MaxRetries,       \* settings.ingestion_task_max_retries
    Faults,           \* the kinds of fault the environment may inject
    MaxFaults         \* BOUND: how many counted faults a behaviour has

FaultKinds == {"dependency",   \* the parser cannot read the file, the embedding provider fails
               "broker",       \* a broker call fails, nothing was sent
               "unconfirmed",  \* a broker call fails after the broker took the task
               "apicrash",     \* the API process dies inside a request, or a query of it fails
               "crash",        \* a whole worker dies: its unacknowledged task returns
               "childlost",    \* a pool process is killed: Celery acknowledges its task
               "redeliver",    \* the broker re-sends a task that is still running
               "database"}     \* a statement of a worker's session fails

ASSUME IngestionAssumption ==
    /\ KbOf \in [Uploads -> KnowledgeBases]
    /\ ContentOf \in [Uploads -> Contents]
    /\ HasText \subseteq Contents
    /\ EnqueueAttempts \in Nat \ {0}
    /\ MaxRetries \in Nat
    /\ Faults \subseteq FaultKinds
    /\ MaxFaults \in Nat

VARIABLES
    api,        \* control state of each upload request
    tries,      \* calls of delay() a request has made
    files,      \* storage keys present in upload_dir
    status,     \* documents.status
    job,        \* ingestion_jobs rows
    chunks,     \* committed chunk batches of each document (rows and vectors)
    batches,    \* next batch id of each document: chunk ids are fresh UUIDs
    cited,      \* batches with query_citations rows
    version,    \* knowledge_bases.updated_at, as a token fresh at every touch
    queue,      \* broker: how many copies of each task wait
    run,        \* control state and loaded values of each worker
    faults      \* counted faults so far

rows == <<status, job, chunks, batches, cited, version>>
apiVars == <<api, tries, files>>
vars == <<apiVars, rows, queue, run, faults>>

-----------------------------------------------------------------------------
(* Types *)

DocumentStatus == {"absent", "uploaded", "processing", "ready", "failed"}
JobStatus == {"absent", "queued", "processing", "completed", "failed"}

\* error_message and finished_at are abstracted to "is not NULL".
JobRow == [status : JobStatus, attempts : Nat, error : BOOLEAN, finished : BOOLEAN]
NoJob == [status |-> "absent", attempts |-> 0, error |-> FALSE, finished |-> FALSE]

Message == [doc : Uploads, retries : 0..MaxRetries]

ApiDone == {"rejected", "accepted", "unavailable", "crashed"}
ApiPc == {"new", "stored", "checked", "enqueueing", "enqueue_failed"} \cup ApiDone

InRun == {"loading", "loading_job", "starting", "parsing", "replacing", "looked", "embedding",
          "rolled_back", "reloading", "failing"}
BusyPc == InRun \cup {"raised", "acking"}

Idle == [pc |-> "idle"]
BusyRun == [pc : BusyPc, task : Message, restored : BOOLEAN, doc : DocumentStatus,
            job : JobRow, existing : SUBSET Nat, deleting : SUBSET Nat]

TypeOK ==
    /\ api \in [Uploads -> ApiPc]
    /\ tries \in [Uploads -> 0..EnqueueAttempts]
    /\ files \in SUBSET Uploads
    /\ status \in [Uploads -> DocumentStatus]
    /\ job \in [Uploads -> JobRow]
    /\ chunks \in [Uploads -> SUBSET Nat]
    /\ batches \in [Uploads -> Nat]
    /\ cited \in [Uploads -> SUBSET Nat]
    /\ version \in [KnowledgeBases -> Nat]
    /\ queue \in [Message -> Nat]
    /\ run \in [Workers -> {Idle} \cup BusyRun]
    /\ faults \in 0..MaxFaults

-----------------------------------------------------------------------------
(* Helpers *)

Init ==
    /\ api = [u \in Uploads |-> "new"]
    /\ tries = [u \in Uploads |-> 0]
    /\ files = {}
    /\ status = [u \in Uploads |-> "absent"]
    /\ job = [u \in Uploads |-> NoJob]
    /\ chunks = [u \in Uploads |-> {}]
    /\ batches = [u \in Uploads |-> 0]
    /\ cited = [u \in Uploads |-> {}]
    /\ version = [kb \in KnowledgeBases |-> 0]
    /\ queue = [m \in Message |-> 0]
    /\ run = [w \in Workers |-> Idle]
    /\ faults = 0

\* A fault that the bound counts. "broker" and "unconfirmed" are bounded by the
\* attempts and retries they use up.
Fault(kind) == kind \in Faults /\ faults < MaxFaults /\ faults' = faults + 1

Doc(w) == run[w].task.doc

\* Mutant of Touch: the step forgets the knowledge base.
ForgetTouch(u) == UNCHANGED version

\* knowledge_base.updated_at = utcnow(), in the transaction of the step.
Touch(u) == version' = [version EXCEPT ![KbOf[u]] = @ + 1]

Send(m) == queue' = [queue EXCEPT ![m] = @ + 1]

\* The unit of work writes a column only when the assigned value differs from
\* the value the session loaded; otherwise the row keeps what others wrote.
Written(loaded, assigned, stored) == IF assigned = loaded THEN stored ELSE assigned

\* Mutant of FlushedJob: a new attempt keeps the last one's error message.
FlushedJobKeepingError(loaded, assigned, stored) ==
    [status   |-> Written(loaded.status, assigned.status, stored.status),
     attempts |-> Written(loaded.attempts, assigned.attempts, stored.attempts),
     error    |-> stored.error,
     finished |-> Written(loaded.finished, assigned.finished, stored.finished)]

FlushedJob(loaded, assigned, stored) ==
    [status   |-> Written(loaded.status, assigned.status, stored.status),
     attempts |-> Written(loaded.attempts, assigned.attempts, stored.attempts),
     error    |-> Written(loaded.error, assigned.error, stored.error),
     finished |-> Written(loaded.finished, assigned.finished, stored.finished)]

-----------------------------------------------------------------------------
(* The upload request (FastAPI runs each in a thread of its own) *)

ApiStep(u, from, to) == api[u] = from /\ api' = [api EXCEPT ![u] = to]

\* 404 for the knowledge base, 422 from the validator or from save_upload,
\* which removes the file it was writing.
RejectUpload(u) ==
    /\ ApiStep(u, "new", "rejected")
    /\ UNCHANGED <<tries, files, rows, queue, run, faults>>

StoreFile(u) ==
    /\ ApiStep(u, "new", "stored")
    /\ files' = files \cup {u}
    /\ UNCHANGED <<tries, rows, queue, run, faults>>

BlockingStatus == {"uploaded", "processing", "ready"}

Duplicates(u) == {v \in Uploads : /\ KbOf[v] = KbOf[u]
                                  /\ ContentOf[v] = ContentOf[u]
                                  /\ status[v] \in BlockingStatus}

RejectDuplicate(u) ==
    /\ Duplicates(u) # {}
    /\ ApiStep(u, "stored", "rejected")
    /\ files' = files \ {u}
    /\ UNCHANGED <<tries, rows, queue, run, faults>>

\* Mutant of PassDuplicateCheck: the task is sent before the rows are committed.
SendBeforeCommit(u) ==
    /\ ApiStep(u, "stored", "checked")
    /\ Send([doc |-> u, retries |-> 0])
    /\ UNCHANGED <<tries, files, rows, run, faults>>

PassDuplicateCheck(u) ==
    /\ Duplicates(u) = {}
    /\ ApiStep(u, "stored", "checked")
    /\ UNCHANGED <<tries, files, rows, queue, run, faults>>

InsertDocument(u) ==
    /\ ApiStep(u, "checked", "enqueueing")
    /\ status' = [status EXCEPT ![u] = "uploaded"]
    /\ job' = [job EXCEPT ![u] = [NoJob EXCEPT !.status = "queued"]]
    /\ Touch(u)
    /\ UNCHANGED <<tries, files, chunks, batches, cited, queue, run, faults>>

FirstTask(u) == [doc |-> u, retries |-> 0]

Dispatch(u) ==
    /\ ApiStep(u, "enqueueing", "accepted")
    /\ Send(FirstTask(u))
    /\ UNCHANGED <<tries, files, rows, run, faults>>

\* Mutant of LastTry: one attempt too many.
LastTryOffByOne(u) == tries[u] >= EnqueueAttempts

LastTry(u) == tries[u] + 1 >= EnqueueAttempts

\* RetryService.run: an exception of delay() is retried up to the policy's attempts.
DispatchRaises(u) ==
    /\ ApiStep(u, "enqueueing",
               IF LastTry(u) THEN "enqueue_failed" ELSE "enqueueing")
    /\ tries' = [tries EXCEPT ![u] = @ + 1]
    /\ \/ "broker" \in Faults /\ UNCHANGED queue
       \/ "unconfirmed" \in Faults /\ Send(FirstTask(u))
    /\ UNCHANGED <<files, rows, run, faults>>

\* The session still holds the row it inserted ("uploaded", "queued"), so every
\* assignment is written whatever the rows say now. The knowledge base is not
\* touched and finished_at is not set.
MarkEnqueueFailed(u) ==
    /\ ApiStep(u, "enqueue_failed", "unavailable")
    /\ status' = [status EXCEPT ![u] = "failed"]
    /\ job' = [job EXCEPT ![u].status = "failed", ![u].error = TRUE]
    /\ UNCHANGED <<tries, files, chunks, batches, cited, version, queue, run, faults>>

ApiCrash(u) ==
    /\ Fault("apicrash")
    /\ api[u] \in {"stored", "checked", "enqueueing", "enqueue_failed"}
    /\ api' = [api EXCEPT ![u] = "crashed"]
    /\ UNCHANGED <<tries, files, rows, queue, run>>

Handle(u) ==
    \/ RejectUpload(u) \/ StoreFile(u)
    \/ RejectDuplicate(u) \/ PassDuplicateCheck(u) \/ InsertDocument(u)
    \/ Dispatch(u) \/ DispatchRaises(u) \/ MarkEnqueueFailed(u)

-----------------------------------------------------------------------------
(* The worker: one delivery of ingest_document_task *)

At(w, pc) == run[w].pc = pc

\* The delivery's outcome is still open.
Engaged(w) == run[w].pc \in InRun \cup {"raised"}

\* A rollback expires every loaded row, the end of the session discards them.
Forget(w, pc) ==
    run' = [run EXCEPT ![w] = [pc |-> pc, task |-> @.task, restored |-> @.restored,
                               doc |-> "absent", job |-> NoJob,
                               existing |-> {}, deleting |-> {}]]

Deliver(w, m) ==
    /\ At(w, "idle")
    /\ queue[m] > 0
    /\ queue' = [queue EXCEPT ![m] = @ - 1]
    /\ run' = [run EXCEPT ![w] = [pc |-> "loading", task |-> m, restored |-> FALSE,
                                  doc |-> "absent", job |-> NoJob,
                                  existing |-> {}, deleting |-> {}]]
    /\ UNCHANGED <<apiVars, rows, faults>>

LoadDocument(w) ==
    /\ At(w, "loading")
    /\ run' = [run EXCEPT ![w].pc = "loading_job", ![w].doc = status[Doc(w)]]
    /\ UNCHANGED <<apiVars, rows, queue, faults>>

\* Mutant of LoadJob: a job that reads "processing" is left to its other run.
SkipRunningJob(w) ==
    /\ At(w, "loading_job")
    /\ IF job[Doc(w)].status = "processing"
         THEN Forget(w, "acking")
         ELSE run' = [run EXCEPT ![w].pc = "starting", ![w].job = job[Doc(w)]]
    /\ UNCHANGED <<apiVars, rows, queue, faults>>

\* session.get(IngestionJob) and the NotFoundError of a missing row.
LoadJob(w) ==
    /\ At(w, "loading_job")
    /\ IF "absent" \in {run[w].doc, job[Doc(w)].status}
         THEN Forget(w, "raised")
         ELSE run' = [run EXCEPT ![w].pc = "starting", ![w].job = job[Doc(w)]]
    /\ UNCHANGED <<apiVars, rows, queue, faults>>

\* run's first commit. expire_on_commit is off: the session keeps what it assigned.
CommitProcessing(w) ==
    LET d == Doc(w)
        assigned == [status |-> "processing", attempts |-> run[w].job.attempts + 1,
                     error |-> FALSE, finished |-> FALSE]
    IN  /\ At(w, "starting")
        /\ status' = [status EXCEPT ![d] = Written(run[w].doc, "processing", @)]
        /\ job' = [job EXCEPT ![d] = FlushedJob(run[w].job, assigned, @)]
        /\ run' = [run EXCEPT ![w].pc = "parsing", ![w].doc = "processing",
                              ![w].job = assigned]
        /\ UNCHANGED <<apiVars, chunks, batches, cited, version, queue, faults>>

\* The file is parsed, then the document's chunks are selected.
SelectChunks(w) ==
    /\ At(w, "parsing")
    /\ Doc(w) \in files
    /\ run' = [run EXCEPT ![w].pc = "replacing", ![w].existing = chunks[Doc(w)]]
    /\ UNCHANGED <<apiVars, rows, queue, faults>>

\* The row locks of another transaction's DELETE hold this one up until it ends.
Locked(w) == \E v \in Workers \ {w} : /\ ~At(v, "idle")
                                      /\ Doc(v) = Doc(w)
                                      /\ run[v].deleting \cap run[w].existing # {}

\* Mutant of CitedExisting: citations are not looked at.
IgnoreCitations(w) == {}

\* The citations of the chunks that the flush of session.delete(chunk) selects.
CitedExisting(w) == run[w].existing \cap cited[Doc(w)]

\* DocumentChunk.citations has no delete cascade: the flush would set
\* query_citations.chunk_id of what it found to NULL, which the column refuses.
DeleteCitedChunks(w) ==
    /\ At(w, "replacing")
    /\ CitedExisting(w) # {}
    /\ Forget(w, "rolled_back")
    /\ UNCHANGED <<apiVars, rows, queue, faults>>

\* It found none, and deletes the chunks in a statement of its own.
SelectCitations(w) ==
    /\ At(w, "replacing")
    /\ CitedExisting(w) = {}
    /\ run' = [run EXCEPT ![w].pc = "looked"]
    /\ UNCHANGED <<apiVars, rows, queue, faults>>

\* Mutant of DeleteChunks: the deletions are committed at once.
CommitDeletions(w) ==
    /\ At(w, "looked")
    /\ run' = [run EXCEPT ![w].pc = "embedding"]
    /\ chunks' = [chunks EXCEPT ![Doc(w)] = @ \ run[w].existing]
    /\ cited' = [cited EXCEPT ![Doc(w)] = @ \ run[w].existing]
    /\ UNCHANGED <<apiVars, status, job, batches, version, queue, faults>>

\* Mutant of DeleteChunks: the existing chunks are left alone.
KeepChunks(w) ==
    /\ At(w, "looked")
    /\ run' = [run EXCEPT ![w].pc = "embedding"]
    /\ UNCHANGED <<apiVars, rows, queue, faults>>

\* Rows another transaction deleted meanwhile only make the session warn.
DeleteChunks(w) ==
    /\ At(w, "looked")
    /\ ~Locked(w)
    /\ run' = [run EXCEPT ![w].pc = "embedding",
                          ![w].deleting = run[w].existing \cap chunks[Doc(w)]]
    /\ UNCHANGED <<apiVars, rows, queue, faults>>

\* The parser raises, no chunk has text, or the embedding provider fails.
Fail(w) ==
    /\ run[w].pc \in {"parsing", "embedding"}
    /\ \/ ~(ContentOf[Doc(w)] \in HasText /\ Doc(w) \in files)
          /\ UNCHANGED faults
       \/ Fault("dependency")
    /\ Forget(w, "rolled_back")
    /\ UNCHANGED <<apiVars, rows, queue>>

\* The chunks and vectors are inserted and the second commit publishes them. With
\* the deleted chunks go, by ON DELETE CASCADE, the citations that were recorded
\* after the flush had looked for some.
CommitReady(w) ==
    LET d == Doc(w)
        assigned == [run[w].job EXCEPT !.status = "completed", !.finished = TRUE]
    IN  /\ At(w, "embedding")
        /\ ContentOf[d] \in HasText
        /\ status' = [status EXCEPT ![d] = Written(run[w].doc, "ready", @)]
        /\ job' = [job EXCEPT ![d] = FlushedJob(run[w].job, assigned, @)]
        /\ chunks' = [chunks EXCEPT ![d] = (@ \ run[w].deleting) \cup {batches[d]}]
        /\ batches' = [batches EXCEPT ![d] = @ + 1]
        /\ cited' = [cited EXCEPT ![d] = @ \ run[w].deleting]
        /\ Touch(d)
        /\ Forget(w, "acking")
        /\ UNCHANGED <<apiVars, queue, faults>>

\* The except path reads both rows again: the rollback expired them.
ReloadDocument(w) ==
    /\ At(w, "rolled_back")
    /\ run' = [run EXCEPT ![w].pc = "reloading", ![w].doc = status[Doc(w)]]
    /\ UNCHANGED <<apiVars, rows, queue, faults>>

ReloadJob(w) ==
    /\ At(w, "reloading")
    /\ run' = [run EXCEPT ![w].pc = "failing", ![w].job = job[Doc(w)]]
    /\ UNCHANGED <<apiVars, rows, queue, faults>>

\* finished_at is a new timestamp and always written; error_message is left out
\* of the UPDATE when the text is the one that was loaded.
CommitFailed(w) ==
    LET d == Doc(w)
        kept == [job[d] EXCEPT !.status = Written(run[w].job.status, "failed", @),
                               !.finished = TRUE]
    IN  /\ At(w, "failing")
        /\ status' = [status EXCEPT ![d] = Written(run[w].doc, "failed", @)]
        /\ \/ job' = [job EXCEPT ![d] = [kept EXCEPT !.error = TRUE]]
           \/ run[w].job.error /\ job' = [job EXCEPT ![d] = kept]
        /\ Touch(d)
        /\ Forget(w, "raised")
        /\ UNCHANGED <<apiVars, chunks, batches, cited, queue, faults>>

\* Mutant of RetryTask: the retry counter of the message is not advanced.
SameTask(m) == m

RetryTask(m) == [m EXCEPT !.retries = @ + 1]

\* autoretry_for: the next attempt is a message of its own, sent before the
\* delivery is acknowledged.
PublishRetry(w) ==
    /\ At(w, "raised")
    /\ run[w].task.retries < MaxRetries
    /\ Send(RetryTask(run[w].task))
    /\ run' = [run EXCEPT ![w].pc = "acking"]
    /\ UNCHANGED <<apiVars, rows, faults>>

\* Retries exhausted, or the publication failed and the task is rejected
\* without requeueing.
GiveUp(w) ==
    /\ At(w, "raised")
    /\ run[w].task.retries = MaxRetries \/ "broker" \in Faults
    /\ run' = [run EXCEPT ![w].pc = "acking"]
    /\ UNCHANGED <<apiVars, rows, queue, faults>>

\* Mutant of Ack: the broker is told to put the delivery back.
Requeue(w) ==
    /\ At(w, "acking")
    /\ Send(run[w].task)
    /\ run' = [run EXCEPT ![w] = Idle]
    /\ UNCHANGED <<apiVars, rows, faults>>

Ack(w) ==
    /\ At(w, "acking")
    /\ run' = [run EXCEPT ![w] = Idle]
    /\ UNCHANGED <<apiVars, rows, queue, faults>>

Work(w) ==
    \/ \E m \in Message : Deliver(w, m)
    \/ LoadDocument(w) \/ LoadJob(w) \/ CommitProcessing(w)
    \/ SelectChunks(w) \/ DeleteCitedChunks(w) \/ SelectCitations(w) \/ DeleteChunks(w)
    \/ Fail(w) \/ CommitReady(w)
    \/ ReloadDocument(w) \/ ReloadJob(w) \/ CommitFailed(w)
    \/ PublishRetry(w) \/ GiveUp(w) \/ Ack(w)

-----------------------------------------------------------------------------
(* Faults of the workers, the database and the broker *)

\* Inside the try block a failed statement or commit reaches the except path.
StatementFails(w) ==
    /\ Fault("database")
    /\ run[w].pc \in {"parsing", "replacing", "looked", "embedding"}
    /\ Forget(w, "rolled_back")
    /\ UNCHANGED <<apiVars, rows, queue>>

\* Outside it, and in the except path itself, it leaves run as it is.
SessionFails(w) ==
    /\ Fault("database")
    /\ run[w].pc \in {"loading", "loading_job", "starting",
                      "rolled_back", "reloading", "failing"}
    /\ Forget(w, "raised")
    /\ UNCHANGED <<apiVars, rows, queue>>

\* Mutant of Crash: deliveries are acknowledged when they are received.
CrashAckedEarly(w) ==
    /\ Fault("crash")
    /\ ~At(w, "idle")
    /\ run' = [run EXCEPT ![w] = Idle]
    /\ UNCHANGED <<apiVars, rows, queue>>

\* acks_late: the unacknowledged delivery of a dead worker goes back to the queue.
Crash(w) ==
    /\ Fault("crash")
    /\ ~At(w, "idle")
    /\ IF run[w].restored THEN UNCHANGED queue ELSE Send(run[w].task)
    /\ run' = [run EXCEPT ![w] = Idle]
    /\ UNCHANGED <<apiVars, rows>>

\* A killed pool process is a WorkerLostError, which Celery acknowledges
\* (task_reject_on_worker_lost is off).
ChildLost(w) ==
    /\ Fault("childlost")
    /\ Engaged(w)
    /\ run' = [run EXCEPT ![w] = Idle]
    /\ UNCHANGED <<apiVars, rows, queue>>

\* A lost connection or the visibility timeout.
Redeliver(w) ==
    /\ Fault("redeliver")
    /\ ~At(w, "idle")
    /\ ~run[w].restored
    /\ Send(run[w].task)
    /\ run' = [run EXCEPT ![w].restored = TRUE]
    /\ UNCHANGED <<apiVars, rows>>

Disturb(w) ==
    StatementFails(w) \/ SessionFails(w) \/ Crash(w) \/ ChildLost(w) \/ Redeliver(w)

-----------------------------------------------------------------------------
(* The specification *)

\* <<u, b>>: batch b of document u.
CommittedChunks == UNION {{u} \X chunks[u] : u \in Uploads}

BeingDeleted(u, b) ==
    \E w \in Workers : ~At(w, "idle") /\ Doc(w) = u /\ b \in run[w].deleting

\* The history entry of a query and its citations are one transaction. The INSERT
\* of a citation waits for a transaction that is deleting the chunk, and fails
\* with the whole entry once the chunk is gone.
Cite(S) ==
    /\ \A c \in S : ~BeingDeleted(c[1], c[2])
    /\ cited' = [u \in Uploads |-> cited[u] \cup {b \in chunks[u] : <<u, b>> \in S}]
    /\ UNCHANGED <<apiVars, status, job, chunks, batches, version, queue, run, faults>>

\* Nothing is left to do.
Rest ==
    /\ \A u \in Uploads : api[u] \in ApiDone
    /\ \A m \in Message : queue[m] = 0
    /\ \A w \in Workers : At(w, "idle")
    /\ UNCHANGED vars

Pipeline ==
    \/ \E u \in Uploads : Handle(u) \/ ApiCrash(u)
    \/ \E w \in Workers : Work(w) \/ Disturb(w)
    \/ Rest

Next == Pipeline \/ \E S \in SUBSET CommittedChunks : Cite(S)

Spec == Init /\ [][Next]_vars

\* Threads and workers that can take a step do; nobody has to crash, to fail
\* or to ask a question.
Fairness ==
    /\ \A u \in Uploads : WF_vars(Handle(u))
    /\ \A w \in Workers : WF_vars(Work(w))

FairSpec == Spec /\ Fairness

-----------------------------------------------------------------------------
(* Properties under every fault *)

\* What retrieval selects by status alone is there to be found: a document that
\* reads "ready" has committed chunks and bytes the parser found text in, in
\* whatever order deliveries of its task overlap (PgVectorSearchRepository).
ReadyHasChunks ==
    \A u \in Uploads : status[u] = "ready" => chunks[u] # {} /\ ContentOf[u] \in HasText

\* A task names rows and a file that exist, so run's NotFoundError never fires
\* and the parser never misses its file; a file without a row belongs to a
\* request that is under way or died (storage and database are not one transaction).
TasksHaveRowsAndFiles ==
    /\ \A m \in Message : queue[m] > 0 => status[m.doc] # "absent"
    /\ \A w \in Workers : ~At(w, "idle") => status[Doc(w)] # "absent"
    /\ \A u \in Uploads : /\ status[u] # "absent" => u \in files /\ job[u].status # "absent"
                          /\ u \in files /\ status[u] = "absent"
                                => api[u] \in {"stored", "checked", "crashed"}

\* A run that deletes batch b of document u had looked for citations of it before.
Looked(u, b) ==
    \E w \in Workers : /\ run[w].pc \in {"looked", "embedding"}
                       /\ Doc(w) = u /\ b \in run[w].existing

\* A citation in the query history, and the chunk it resolves to, stay for ever if
\* no run had looked for citations of the chunk when it was recorded: every later
\* run finds it and fails. One that is recorded between the flush's SELECT and the
\* commit of its DELETE goes with the chunk (query_log.py, ON DELETE CASCADE).
CitationsAreKept ==
    [][\A u \in Uploads : \A b \in cited[u] :
          ~Looked(u, b) => b \in cited'[u] /\ b \in chunks'[u] /\ ~Looked(u, b)']_vars

\* Overlapping deliveries of one task may each publish a set of chunks for a
\* document, but every later run deletes what it finds: there are never more
\* sets than worker processes, and with one process there is one.
ChunkSetsBounded ==
    \A u \in Uploads : Cardinality(chunks[u]) <= Cardinality(Workers)

\* The cache key holds updated_at: a step that makes a document ready, or
\* changes the chunks of a ready one, changes the key of its knowledge base.
NewContentInvalidatesCache ==
    [][\A u \in Uploads :
          status'[u] = "ready" /\ (status[u] # "ready" \/ chunks'[u] # chunks[u])
            => version'[KbOf[u]] # version[KbOf[u]]]_vars

-----------------------------------------------------------------------------
(* Properties while no running work is lost, or none is copied *)

LiveTask(u) ==
    \/ \E m \in Message : m.doc = u /\ queue[m] > 0
    \/ \E w \in Workers : Engaged(w) /\ Doc(w) = u

\* Late acknowledgement pays off: with crashes of workers, failed and repeated
\* dispatches, a document the API accepted that is not settled still has a task.
NoLostTask ==
    \A u \in Uploads :
        status[u] = "processing" \/ (status[u] = "uploaded" /\ api[u] = "accepted")
            => LiveTask(u)

\* The two status columns the API shows, of the document and of its job, tell
\* the same story at every commit, and a failure comes with an error message.
StatusAgreement ==
    \A u \in Uploads :
        /\ <<status[u], job[u].status>> \in
              {<<"absent", "absent">>, <<"uploaded", "queued">>, <<"processing", "processing">>,
               <<"ready", "completed">>, <<"failed", "failed">>}
        /\ job[u].error <=> status[u] = "failed"

\* attempts counts the deliveries that started: it is bounded by the retry
\* limit, and a run under way is at most one ahead of its message's retries.
AttemptsBounded ==
    /\ \A u \in Uploads : job[u].attempts <= MaxRetries + 1
    /\ \A w \in Workers : Engaged(w) => job[Doc(w)].attempts <= run[w].task.retries + 1

\* Without re-sent, repeated or crashed-and-restored tasks the pipeline keeps
\* the promise of IngestionPromise, step by step.
Promise == INSTANCE IngestionPromise WITH
    phase <- status,
    attempts <- [u \in Uploads |-> job[u].attempts],
    sets <- chunks

KeepsPromise == Promise!Spec

-----------------------------------------------------------------------------
(* Liveness *)

\* Every accepted upload comes to rest as ready or failed: retries end.
AcceptedSettles ==
    \A u \in Uploads : api[u] = "accepted" ~> [](status[u] \in {"ready", "failed"})

\* Whatever workers die, and however many copies of its task are about: as long as
\* an accepted document with text has a task that waits or runs, it becomes ready,
\* or the last attempt that a task is entitled to fails.
ReadableBecomesReady ==
    \A u \in Uploads :
        api[u] = "accepted" /\ ContentOf[u] \in HasText /\ LiveTask(u)
            ~> \/ status[u] = "ready"
               \/ \E w \in Workers : /\ At(w, "raised") /\ Doc(w) = u
                                     /\ run[w].task.retries = MaxRetries

-----------------------------------------------------------------------------
(* What the documentation says and the code does not do *)

\* README: "Celery retries transient worker failures": the retry of a document
\* with text ends in "ready", also when the death of a worker re-runs a document
\* that was ready and that a query has cited meanwhile.
ReadableEndsReady ==
    \A u \in Uploads :
        api[u] = "accepted" /\ ContentOf[u] \in HasText ~> [](status[u] = "ready")

\* README: "rejects duplicate checksums within the same knowledge base".
NoDuplicateDocuments ==
    \A u, v \in Uploads :
        u # v /\ KbOf[u] = KbOf[v] /\ ContentOf[u] = ContentOf[v]
            => {status[u], status[v]} \cap {"absent", "failed"} # {}

\* README: "Celery retries transient worker failures": a document does not stay
\* in "processing".
ProcessingEnds ==
    \A u \in Uploads : status[u] = "processing" ~> status[u] \in {"ready", "failed"}
=============================================================================
