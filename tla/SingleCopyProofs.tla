--------------------------- MODULE SingleCopyProofs ---------------------------
(***************************************************************************)
(* Proofs about Ingestion while nothing copies a task: no dispatch is       *)
(* repeated after it was sent, no worker dies as a whole and no delivery    *)
(* is sent again. Everything else may fail: requests and pool processes     *)
(* die, statements and broker calls fail, sessions end anywhere. For any    *)
(* number of uploads, workers and retries the pipeline then implements      *)
(* IngestionPromise.                                                        *)
(***************************************************************************)
EXTENDS IngestionProofs

NoCopies == Faults \cap {"crash", "redeliver", "unconfirmed"} = {}

-----------------------------------------------------------------------------
(* The invariant: one task per document, and its owner's view is the truth *)

Open == {"uploaded", "processing", "failed"}
Before == {"loading", "loading_job", "starting"}
During == {"parsing", "replacing", "looked", "embedding", "rolled_back", "reloading", "failing"}
KnowsDoc == {"loading_job", "starting", "parsing", "replacing", "looked", "embedding", "reloading",
             "failing"}
KnowsJob == {"starting", "parsing", "replacing", "looked", "embedding", "failing"}

\* What a run r may rely on of its document's status s and its job j.
Progress(r, s, j) ==
    /\ r.pc \in Before => s \in Open /\ j.attempts <= r.task.retries
    /\ r.pc \in During => s = "processing" /\ j.attempts <= r.task.retries + 1
    /\ r.pc = "raised" => s \in Open /\ j.attempts <= r.task.retries + 1
    /\ r.pc \in KnowsDoc => r.doc = s
    /\ r.pc \in KnowsJob => r.job = j

Agree(s, j) ==
    /\ <<s, j.status>> \in
          {<<"absent", "absent">>, <<"uploaded", "queued">>, <<"processing", "processing">>,
           <<"ready", "completed">>, <<"failed", "failed">>}
    /\ j.error <=> s = "failed"

RowsOK(u) ==
    /\ Agree(status[u], job[u])
    /\ job[u].attempts <= MaxRetries + 1
    /\ status[u] \in {"absent", "uploaded"} => job[u].attempts = 0
    /\ status[u] # "ready" => chunks[u] = {} /\ batches[u] = 0

UploadOK(u) ==
    /\ RowsOK(u)
    /\ api[u] \in {"enqueueing", "enqueue_failed"} => status[u] = "uploaded"

QueuedOK(m) ==
    /\ queue[m] = 1
    /\ api[m.doc] = "accepted"
    /\ status[m.doc] \in Open /\ job[m.doc].attempts <= m.retries
    /\ \A n \in Message : n.doc = m.doc /\ n # m => queue[n] = 0
    /\ \A w \in Workers : Engaged(w) => Doc(w) # m.doc

RunOK(w) ==
    /\ api[Doc(w)] = "accepted"
    /\ Progress(run[w], status[Doc(w)], job[Doc(w)])
    /\ \A v \in Workers \ {w} : Engaged(v) => Doc(v) # Doc(w)

SingleInv ==
    /\ TaskInv
    /\ \A u \in Uploads : UploadOK(u)
    /\ \A m \in Message : queue[m] > 0 => QueuedOK(m)
    /\ \A w \in Workers : Engaged(w) => RunOK(w)
LEMMA InitSingle == Init => SingleInv
    <1>. SUFFICES ASSUME Init PROVE SingleInv
        OBVIOUS
    <1>1. \A u \in Uploads : UploadOK(u)
        BY IngestionAssumption DEF Init, UploadOK, RowsOK, Agree, NoJob, IngestionAssumption
    <1>2. \A m \in Message : ~(queue[m] > 0)
        BY DEF Init
    <1>3. \A w \in Workers : ~Engaged(w)
        BY DEF Init, Engaged, Idle, InRun
    <1>. QED
        BY <1>1, <1>2, <1>3, InitTasks DEF SingleInv

\* A session that read the row as it is writes what it assigned.
LEMMA FlushFresh ==
    ASSUME NEW stored \in JobRow, NEW assigned \in JobRow
    PROVE  FlushedJob(stored, assigned, stored) = assigned
    <1>1. \A a, b : Written(b, a, b) = a
        BY DEF Written
    <1>2. FlushedJob(stored, assigned, stored) =
              [status |-> assigned.status, attempts |-> assigned.attempts,
               error |-> assigned.error, finished |-> assigned.finished]
        BY <1>1 DEF FlushedJob
    <1>. QED
        BY <1>2 DEF JobRow

RowsKept(u) ==
    /\ status'[u] = status[u] /\ job'[u] = job[u]
    /\ chunks'[u] = chunks[u] /\ batches'[u] = batches[u]

\* A step of a worker that leaves the queue alone and writes at most the rows of
\* the document it is engaged with.
LEMMA WorkerStep ==
    ASSUME SingleInv, TaskInv', NEW w \in Workers, UNCHANGED <<api, queue>>,
           \A v \in Workers \ {w} : run'[v] = run[v],
           Engaged(w)' => /\ Engaged(w) /\ run'[w].task = run[w].task
                          /\ Progress(run'[w], status'[Doc(w)], job'[Doc(w)]),
           \A u \in Uploads : RowsKept(u) \/ (Engaged(w) /\ u = Doc(w) /\ RowsOK(u)')
    PROVE  SingleInv'
    <1>0. \A v \in Workers : Engaged(v) => Doc(v) \in Uploads
        BY BusyRunFields DEF SingleInv, TaskInv, TypeInv, Engaged, InRun
    <1>1. \A v \in Workers : Engaged(v)' => Engaged(v) /\ Doc(v)' = Doc(v)
        BY DEF Engaged, Doc
    <1>2. \A v \in Workers \ {w} : Engaged(v) /\ Engaged(w) => Doc(v) # Doc(w)
        BY DEF SingleInv, RunOK
    <1>3. \A u \in Uploads : UploadOK(u)'
        <2>. SUFFICES ASSUME NEW u \in Uploads PROVE UploadOK(u)'
            OBVIOUS
        <2>1. UploadOK(u)
            BY DEF SingleInv
        <2>2. CASE RowsKept(u)
            BY <2>1, <2>2 DEF RowsKept, UploadOK, RowsOK
        <2>3. CASE Engaged(w) /\ u = Doc(w) /\ RowsOK(u)'
            <3>1. api[u] = "accepted"
                BY <2>3 DEF SingleInv, RunOK
            <3>. QED
                BY <2>3, <3>1 DEF UploadOK
        <2>. QED
            BY <2>2, <2>3
    <1>4. ASSUME NEW m \in Message, queue'[m] > 0
          PROVE  QueuedOK(m)'
        <2>1. QueuedOK(m) /\ m.doc \in Uploads
            BY <1>4 DEF SingleInv, Message
        <2>2. RowsKept(m.doc)
            BY <2>1 DEF QueuedOK
        <2>3. /\ queue'[m] = 1 /\ api'[m.doc] = "accepted"
              /\ status'[m.doc] \in Open /\ job'[m.doc].attempts <= m.retries
              /\ \A n \in Message : n.doc = m.doc /\ n # m => queue'[n] = 0
            BY <2>1, <2>2 DEF QueuedOK, RowsKept
        <2>4. \A v \in Workers : Engaged(v)' => Doc(v)' # m.doc
            BY <1>1, <2>1 DEF QueuedOK
        <2>. QED
            BY <2>3, <2>4 DEF QueuedOK
    <1>5. ASSUME NEW v \in Workers, Engaged(v)'
          PROVE  RunOK(v)'
        <2>1. RunOK(v) /\ Engaged(v) /\ Doc(v)' = Doc(v) /\ Doc(v) \in Uploads
            BY <1>0, <1>1, <1>5 DEF SingleInv
        <2>2. \A x \in Workers \ {v} : Engaged(x)' => Doc(x)' # Doc(v)'
            BY <1>1, <2>1 DEF RunOK
        <2>3. api'[Doc(v)'] = "accepted"
            BY <2>1 DEF RunOK
        <2>4. Progress(run'[v], status'[Doc(v)'], job'[Doc(v)'])
            <3>1. CASE v = w
                BY <1>5, <2>1, <3>1
            <3>2. CASE v # w
                <4>1. RowsKept(Doc(v))
                    BY <1>2, <2>1, <3>2
                <4>. QED
                    BY <2>1, <3>2, <4>1 DEF RunOK, RowsKept
            <3>. QED
                BY <3>1, <3>2
        <2>. QED
            BY <2>2, <2>3, <2>4 DEF RunOK
    <1>. QED
        BY <1>3, <1>4, <1>5 DEF SingleInv

LEMMA BusyWorker ==
    ASSUME SingleInv, NEW w \in Workers, run[w].pc # "idle"
    PROVE  /\ DOMAIN run = Workers
           /\ DOMAIN run[w] = {"pc", "task", "restored", "doc", "job", "existing", "deleting"}
           /\ Doc(w) \in Uploads /\ run[w].task \in Message
           /\ run[w].task.retries \in 0..MaxRetries
           /\ run[w].doc \in DocumentStatus /\ run[w].job \in JobRow
           /\ status[Doc(w)] \in DocumentStatus /\ job[Doc(w)] \in JobRow
    <1>1. TypeOK
        BY DEF SingleInv, TaskInv, TypeInv
    <1>. QED
        BY <1>1, BusyRunFields DEF TypeOK, BusyRun, Message

\* Only the pc, and what the session holds, changes in a step that reads.
LEMMA ReadProgress ==
    ASSUME SingleInv, NEW w \in Workers, Reads(w), Engaged(w)'
    PROVE  /\ Engaged(w)
           /\ Progress(run'[w], status[Doc(w)], job[Doc(w)])
    <1>0. run[w].pc # "idle" /\ Engaged(w) /\ run'[w].pc \in InRun \cup {"raised"}
        <2>1. CASE GiveUp(w)
            <3>1. run[w].pc # "idle"
                BY <2>1 DEF GiveUp, At
            <3>2. run'[w].pc = "acking"
                BY <2>1, <3>1, BusyWorker DEF GiveUp
            <3>. QED
                BY <3>2 DEF Engaged, InRun
        <2>2. CASE ~GiveUp(w)
            BY <2>2 DEF Reads, LoadDocument, LoadJob, SelectChunks, SelectCitations, DeleteChunks,
                DeleteCitedChunks, Fail, ReloadDocument, ReloadJob, StatementFails,
                SessionFails, At, Engaged, InRun
        <2>. QED
            BY <2>1, <2>2
    <1>1. /\ DOMAIN run = Workers
          /\ DOMAIN run[w] = {"pc", "task", "restored", "doc", "job", "existing", "deleting"}
          /\ run[w].task.retries \in Nat /\ job[Doc(w)].attempts \in Nat
        BY <1>0, BusyWorker, IngestionAssumption DEF JobRow, IngestionAssumption
    <1>2. Progress(run[w], status[Doc(w)], job[Doc(w)])
        BY <1>0 DEF SingleInv, RunOK
    <1>. USE DEF Progress, Before, During, KnowsDoc, KnowsJob, Open
    <1>3. ASSUME NEW pc, Forget(w, pc)
          PROVE  run'[w].pc = pc /\ run'[w].task = run[w].task
        BY <1>1, <1>3 DEF Forget
    <1>4. CASE LoadDocument(w)
        <2>1. /\ run[w].pc = "loading" /\ run'[w].pc = "loading_job"
              /\ run'[w].task = run[w].task /\ run'[w].doc = status[Doc(w)]
            BY <1>1, <1>4 DEF LoadDocument, At
        <2>. QED
            BY <1>0, <1>2, <2>1
    <1>5. CASE LoadJob(w)
        <2>1. run[w].pc = "loading_job"
            BY <1>5 DEF LoadJob, At
        <2>2. CASE Forget(w, "raised")
            BY <1>0, <1>1, <1>2, <1>3, <2>1, <2>2
        <2>3. CASE run' = [run EXCEPT ![w].pc = "starting", ![w].job = job[Doc(w)]]
            <3>1. /\ run'[w].pc = "starting" /\ run'[w].task = run[w].task
                  /\ run'[w].doc = run[w].doc /\ run'[w].job = job[Doc(w)]
                BY <1>1, <2>3
            <3>. QED
                BY <1>0, <1>2, <2>1, <3>1
        <2>. QED
            BY <1>5, <2>2, <2>3 DEF LoadJob
    <1>6. CASE SelectChunks(w) \/ SelectCitations(w) \/ DeleteChunks(w)
        <2>1. /\ run[w].pc \in {"parsing", "replacing", "looked"}
              /\ run'[w].pc \in {"replacing", "looked", "embedding"}
              /\ run'[w].task = run[w].task
              /\ run'[w].doc = run[w].doc /\ run'[w].job = run[w].job
            BY <1>1, <1>6 DEF SelectChunks, SelectCitations, DeleteChunks, At
        <2>. QED
            BY <1>0, <1>2, <2>1
    <1>7. CASE DeleteCitedChunks(w) \/ Fail(w) \/ StatementFails(w)
        <2>1. /\ run[w].pc \in {"parsing", "replacing", "looked", "embedding"}
              /\ Forget(w, "rolled_back")
            BY <1>7 DEF DeleteCitedChunks, Fail, StatementFails, At
        <2>. QED
            BY <1>0, <1>2, <1>3, <2>1
    <1>8. CASE ReloadDocument(w)
        <2>1. /\ run[w].pc = "rolled_back" /\ run'[w].pc = "reloading"
              /\ run'[w].task = run[w].task /\ run'[w].doc = status[Doc(w)]
            BY <1>1, <1>8 DEF ReloadDocument, At
        <2>. QED
            BY <1>0, <1>2, <2>1
    <1>9. CASE ReloadJob(w)
        <2>1. /\ run[w].pc = "reloading" /\ run'[w].pc = "failing"
              /\ run'[w].task = run[w].task
              /\ run'[w].doc = run[w].doc /\ run'[w].job = job[Doc(w)]
            BY <1>1, <1>9 DEF ReloadJob, At
        <2>. QED
            BY <1>0, <1>2, <2>1
    <1>10. CASE SessionFails(w)
        <2>1. /\ run[w].pc \in {"loading", "loading_job", "starting",
                                "rolled_back", "reloading", "failing"}
              /\ Forget(w, "raised")
            BY <1>10 DEF SessionFails
        <2>. QED
            BY <1>0, <1>1, <1>2, <1>3, <2>1
    <1>11. CASE GiveUp(w)
        BY <1>0, <1>1, <1>11 DEF GiveUp, InRun
    <1>. QED
        BY <1>0, <1>4, <1>5, <1>6, <1>7, <1>8, <1>9, <1>10, <1>11 DEF Reads

LEMMA ReadsSingle ==
    ASSUME SingleInv, NEW w \in Workers, Reads(w) \/ Ack(w) \/ ChildLost(w)
    PROVE  SingleInv'
    <1>1. Work(w) \/ Disturb(w)
        BY DEF Reads, Work, Disturb
    <1>2. UNCHANGED <<apiVars, rows, queue>>
        BY DEF Reads, LoadDocument, LoadJob, SelectChunks, SelectCitations, DeleteChunks, DeleteCitedChunks,
            Fail, ReloadDocument, ReloadJob, GiveUp, StatementFails, SessionFails, Ack, ChildLost
    <1>3. TaskInv' /\ TypeInv
        BY <1>1, WorkTasks DEF SingleInv, TaskInv
    <1>4. /\ \A v \in Workers \ {w} : run'[v] = run[v]
          /\ run'[w].pc # "idle" =>
                 \/ run[w].pc # "idle" /\ run'[w].task = run[w].task
                 \/ \E m \in Message : queue[m] > 0 /\ run'[w].task = m
        BY <1>1, <1>3, RunFrame
    <1>5. ASSUME Engaged(w)'
          PROVE  /\ Engaged(w) /\ run'[w].task = run[w].task
                 /\ Progress(run'[w], status'[Doc(w)], job'[Doc(w)])
        <2>1. CASE Ack(w) \/ ChildLost(w)
            BY <1>3, <1>5, <2>1 DEF Ack, ChildLost, Idle, Engaged, InRun, TypeInv, TypeOK
        <2>2. CASE Reads(w)
            <3>1. Engaged(w) /\ Progress(run'[w], status[Doc(w)], job[Doc(w)])
                BY <1>5, <2>2, ReadProgress
            <3>2. run[w].pc # "idle"
                BY <3>1 DEF Engaged, InRun
            <3>3. run'[w].task = run[w].task
                <4>1. /\ DOMAIN run = Workers
                      /\ DOMAIN run[w] = {"pc", "task", "restored", "doc", "job", "existing",
                                          "deleting"}
                    BY <3>2, BusyWorker
                <4>. QED
                    BY <2>2, <4>1 DEF Reads, LoadDocument, LoadJob, SelectChunks, SelectCitations, DeleteChunks,
                        DeleteCitedChunks, Fail, ReloadDocument, ReloadJob, GiveUp,
                        StatementFails, SessionFails, Forget
            <3>. QED
                BY <1>2, <3>1, <3>3 DEF rows
        <2>. QED
            BY <2>1, <2>2
    <1>6. UNCHANGED <<api, queue>> /\ \A u \in Uploads : RowsKept(u)
        BY <1>2 DEF apiVars, rows, RowsKept
    <1>. QED
        BY <1>3, <1>4, <1>5, <1>6, WorkerStep

-----------------------------------------------------------------------------
(* The three commits of a run *)

LEMMA EngagedFacts ==
    ASSUME SingleInv, NEW w \in Workers, Engaged(w)
    PROVE  /\ Doc(w) \in Uploads
           /\ Progress(run[w], status[Doc(w)], job[Doc(w)])
           /\ RowsOK(Doc(w))
           /\ job[Doc(w)] \in JobRow
           /\ run[w].task.retries \in Nat /\ run[w].task.retries <= MaxRetries
    <1>1. run[w].pc # "idle"
        BY DEF Engaged, InRun
    <1>. QED
        BY <1>1, BusyWorker, IngestionAssumption
        DEF SingleInv, RunOK, UploadOK, IngestionAssumption

LEMMA ProcessingEffect ==
    ASSUME SingleInv, NEW w \in Workers, CommitProcessing(w)
    PROVE  /\ Engaged(w) /\ status[Doc(w)] \in Open
           /\ job[Doc(w)].attempts <= run[w].task.retries
           /\ status' = [status EXCEPT ![Doc(w)] = "processing"]
           /\ job' = [job EXCEPT ![Doc(w)] =
                         [status |-> "processing", attempts |-> job[Doc(w)].attempts + 1,
                          error |-> FALSE, finished |-> FALSE]]
           /\ UNCHANGED <<apiVars, chunks, batches, cited, version, queue>>
           /\ run'[w].pc = "parsing" /\ run'[w].doc = "processing"
           /\ run'[w].job = job'[Doc(w)]
    <1>. DEFINE assigned == [status |-> "processing", attempts |-> job[Doc(w)].attempts + 1,
                             error |-> FALSE, finished |-> FALSE]
    <1>1. run[w].pc = "starting" /\ Engaged(w)
        BY DEF CommitProcessing, At, Engaged, InRun
    <1>2. /\ status[Doc(w)] \in Open /\ job[Doc(w)].attempts <= run[w].task.retries
          /\ run[w].doc = status[Doc(w)] /\ run[w].job = job[Doc(w)]
          /\ job[Doc(w)] \in JobRow /\ Doc(w) \in Uploads
        BY <1>1, EngagedFacts DEF Progress, Before, KnowsDoc, KnowsJob
    <1>3. Written(run[w].doc, "processing", status[Doc(w)]) = "processing"
        BY <1>2 DEF Written
    <1>4. assigned \in JobRow
        BY <1>2 DEF JobRow, JobStatus
    <1>5. FlushedJob(run[w].job, assigned, job[Doc(w)]) = assigned
        BY <1>2, <1>4, FlushFresh
    <1>6. /\ status' = [status EXCEPT ![Doc(w)] = "processing"]
          /\ job' = [job EXCEPT ![Doc(w)] = assigned]
        BY <1>2, <1>3, <1>5 DEF CommitProcessing
    <1>7. /\ DOMAIN run = Workers /\ job \in [Uploads -> JobRow]
          /\ DOMAIN run[w] = {"pc", "task", "restored", "doc", "job", "existing", "deleting"}
        BY <1>1, BusyWorker DEF SingleInv, TaskInv, TypeInv, TypeOK
    <1>8. /\ run' = [run EXCEPT ![w].pc = "parsing", ![w].doc = "processing", ![w].job = assigned]
          /\ UNCHANGED <<apiVars, chunks, batches, cited, version, queue>>
        BY <1>2 DEF CommitProcessing
    <1>9. job'[Doc(w)] = assigned
        BY <1>2, <1>6, <1>7
    <1>. QED
        BY <1>1, <1>2, <1>6, <1>7, <1>8, <1>9

LEMMA ReadyEffect ==
    ASSUME SingleInv, NEW w \in Workers, CommitReady(w)
    PROVE  /\ Engaged(w) /\ status[Doc(w)] = "processing" /\ chunks[Doc(w)] = {}
           /\ status' = [status EXCEPT ![Doc(w)] = "ready"]
           /\ job' = [job EXCEPT ![Doc(w)] =
                         [job[Doc(w)] EXCEPT !.status = "completed", !.finished = TRUE]]
           /\ chunks' = [chunks EXCEPT ![Doc(w)] = {0}]
           /\ \A u \in Uploads \ {Doc(w)} : batches'[u] = batches[u]
           /\ Touch(Doc(w)) /\ UNCHANGED <<apiVars, queue>>
           /\ run'[w].pc = "acking"
    <1>. DEFINE assigned == [job[Doc(w)] EXCEPT !.status = "completed", !.finished = TRUE]
    <1>1. run[w].pc = "embedding" /\ Engaged(w)
        BY DEF CommitReady, At, Engaged, InRun
    <1>2. /\ status[Doc(w)] = "processing"
          /\ run[w].doc = status[Doc(w)] /\ run[w].job = job[Doc(w)]
          /\ job[Doc(w)] \in JobRow /\ Doc(w) \in Uploads
        BY <1>1, EngagedFacts DEF Progress, During, KnowsDoc, KnowsJob
    <1>3. chunks[Doc(w)] = {} /\ batches[Doc(w)] = 0
        BY <1>1, <1>2, EngagedFacts DEF RowsOK
    <1>4. Written(run[w].doc, "ready", status[Doc(w)]) = "ready"
        BY <1>2 DEF Written
    <1>5. FlushedJob(run[w].job, assigned, job[Doc(w)]) = assigned
        <2>1. assigned \in JobRow
            BY <1>2 DEF JobRow, JobStatus
        <2>. QED
            BY <1>2, <2>1, FlushFresh
    <1>6. /\ status' = [status EXCEPT ![Doc(w)] = "ready"]
          /\ job' = [job EXCEPT ![Doc(w)] = assigned]
        BY <1>2, <1>4, <1>5 DEF CommitReady
    <1>7. /\ chunks \in [Uploads -> SUBSET Nat] /\ batches \in [Uploads -> Nat]
          /\ DOMAIN run = Workers
        BY DEF SingleInv, TaskInv, TypeInv, TypeOK
    <1>8. chunks' = [chunks EXCEPT ![Doc(w)] = {0}]
        <2>1. chunks' = [chunks EXCEPT ![Doc(w)] =
                             (chunks[Doc(w)] \ run[w].deleting) \cup {batches[Doc(w)]}]
            BY <1>2, <1>7 DEF CommitReady
        <2>2. (chunks[Doc(w)] \ run[w].deleting) \cup {batches[Doc(w)]} = {0}
            BY <1>3
        <2>. QED
            BY <2>1, <2>2
    <1>9. /\ \A u \in Uploads \ {Doc(w)} : batches'[u] = batches[u]
          /\ Touch(Doc(w)) /\ UNCHANGED <<apiVars, queue>>
        BY <1>7 DEF CommitReady
    <1>10. run'[w].pc = "acking"
        BY <1>7 DEF CommitReady, Forget
    <1>. QED
        BY <1>1, <1>2, <1>3, <1>6, <1>8, <1>9, <1>10

LEMMA FailedEffect ==
    ASSUME SingleInv, NEW w \in Workers, CommitFailed(w)
    PROVE  /\ Engaged(w) /\ status[Doc(w)] = "processing"
           /\ status' = [status EXCEPT ![Doc(w)] = "failed"]
           /\ job' = [job EXCEPT ![Doc(w)] =
                         [job[Doc(w)] EXCEPT !.status = "failed", !.finished = TRUE,
                                             !.error = TRUE]]
           /\ Touch(Doc(w)) /\ UNCHANGED <<apiVars, chunks, batches, cited, queue>>
           /\ run'[w].pc = "raised" /\ run'[w].task = run[w].task
    <1>1. run[w].pc = "failing" /\ Engaged(w)
        BY DEF CommitFailed, At, Engaged, InRun
    <1>2. /\ status[Doc(w)] = "processing"
          /\ run[w].doc = status[Doc(w)] /\ run[w].job = job[Doc(w)]
          /\ job[Doc(w)] \in JobRow /\ Doc(w) \in Uploads
        BY <1>1, EngagedFacts DEF Progress, During, KnowsDoc, KnowsJob
    <1>3. ~run[w].job.error /\ job[Doc(w)].status = "processing"
        BY <1>1, <1>2, EngagedFacts DEF RowsOK, Agree
    <1>4. Written(run[w].doc, "failed", status[Doc(w)]) = "failed"
        BY <1>2 DEF Written
    <1>5. status' = [status EXCEPT ![Doc(w)] = "failed"]
        BY <1>2, <1>4 DEF CommitFailed
    <1>6. Written(run[w].job.status, "failed", job[Doc(w)].status) = "failed"
        BY <1>2 DEF Written
    <1>7. job' = [job EXCEPT ![Doc(w)] =
                     [[job[Doc(w)] EXCEPT !.status = "failed", !.finished = TRUE]
                         EXCEPT !.error = TRUE]]
        BY <1>2, <1>3, <1>6 DEF CommitFailed, JobRow
    <1>8. [[job[Doc(w)] EXCEPT !.status = "failed", !.finished = TRUE] EXCEPT !.error = TRUE]
             = [job[Doc(w)] EXCEPT !.status = "failed", !.finished = TRUE, !.error = TRUE]
        BY <1>2 DEF JobRow
    <1>9. DOMAIN run = Workers
        BY DEF SingleInv, TaskInv, TypeInv, TypeOK
    <1>10. run'[w].pc = "raised" /\ run'[w].task = run[w].task
        BY <1>9 DEF CommitFailed, Forget
    <1>11. Touch(Doc(w)) /\ UNCHANGED <<apiVars, chunks, batches, cited, queue>>
        BY DEF CommitFailed
    <1>. QED
        BY <1>1, <1>2, <1>5, <1>7, <1>8, <1>10, <1>11

\* What a commit leaves of its document's rows.
LEMMA CommitRows ==
    ASSUME SingleInv, NEW w \in Workers,
           CommitProcessing(w) \/ CommitReady(w) \/ CommitFailed(w),
           NEW u \in Uploads
    PROVE  RowsKept(u) \/ (Engaged(w) /\ u = Doc(w) /\ RowsOK(u)')
    <1>0. Engaged(w)
        BY ProcessingEffect, ReadyEffect, FailedEffect
    <1>1. /\ Doc(w) \in Uploads
          /\ run[w].task.retries \in Nat /\ run[w].task.retries <= MaxRetries
          /\ MaxRetries \in Nat
        BY <1>0, EngagedFacts, IngestionAssumption DEF IngestionAssumption
    <1>2. /\ status \in [Uploads -> DocumentStatus] /\ job \in [Uploads -> JobRow]
          /\ chunks \in [Uploads -> SUBSET Nat] /\ batches \in [Uploads -> Nat]
        BY DEF SingleInv, TaskInv, TypeInv, TypeOK
    <1>3. RowsOK(u) /\ job[u].attempts \in Nat
        BY <1>2 DEF SingleInv, UploadOK, JobRow
    <1>4. CASE u # Doc(w)
        <2>1. CASE CommitProcessing(w)
            BY <1>1, <1>2, <1>4, <2>1, ProcessingEffect DEF RowsKept
        <2>2. CASE CommitReady(w)
            BY <1>1, <1>2, <1>4, <2>2, ReadyEffect DEF RowsKept
        <2>3. CASE CommitFailed(w)
            BY <1>1, <1>2, <1>4, <2>3, FailedEffect DEF RowsKept
        <2>. QED
            BY <2>1, <2>2, <2>3
    <1>5. CASE u = Doc(w) /\ CommitProcessing(w)
        <2>1. /\ status'[u] = "processing"
              /\ job'[u] = [status |-> "processing", attempts |-> job[u].attempts + 1,
                            error |-> FALSE, finished |-> FALSE]
              /\ chunks'[u] = chunks[u] /\ batches'[u] = batches[u]
              /\ status[u] \in Open /\ job[u].attempts <= run[w].task.retries
            BY <1>1, <1>2, <1>5, ProcessingEffect
        <2>2. chunks[u] = {} /\ batches[u] = 0
            BY <1>3, <2>1 DEF RowsOK, Open
        <2>3. job'[u].attempts <= MaxRetries + 1
            BY <1>1, <1>3, <2>1
        <2>4. Agree(status'[u], job'[u])
            BY <2>1 DEF Agree
        <2>. QED
            BY <1>0, <1>5, <2>1, <2>2, <2>3, <2>4 DEF RowsOK
    <1>6. CASE u = Doc(w) /\ CommitReady(w)
        <2>1. /\ status'[u] = "ready" /\ status[u] = "processing"
              /\ job'[u] = [job[u] EXCEPT !.status = "completed", !.finished = TRUE]
            BY <1>1, <1>2, <1>6, ReadyEffect
        <2>2. /\ job'[u].status = "completed" /\ job'[u].attempts = job[u].attempts
              /\ job'[u].error = job[u].error
            BY <1>2, <2>1 DEF JobRow
        <2>3. Agree(status'[u], job'[u])
            BY <1>3, <2>1, <2>2 DEF Agree, RowsOK
        <2>. QED
            BY <1>0, <1>3, <1>6, <2>1, <2>2, <2>3 DEF RowsOK
    <1>7. CASE u = Doc(w) /\ CommitFailed(w)
        <2>1. /\ status'[u] = "failed" /\ status[u] = "processing"
              /\ job'[u] = [job[u] EXCEPT !.status = "failed", !.finished = TRUE, !.error = TRUE]
              /\ chunks'[u] = chunks[u] /\ batches'[u] = batches[u]
            BY <1>1, <1>2, <1>7, FailedEffect
        <2>2. /\ job'[u].status = "failed" /\ job'[u].attempts = job[u].attempts
              /\ job'[u].error
            BY <1>2, <2>1 DEF JobRow
        <2>3. Agree(status'[u], job'[u])
            BY <2>1, <2>2 DEF Agree
        <2>. QED
            BY <1>0, <1>3, <1>7, <2>1, <2>2, <2>3 DEF RowsOK
    <1>. QED
        BY <1>4, <1>5, <1>6, <1>7

LEMMA CommitSingle ==
    ASSUME SingleInv, NEW w \in Workers,
           CommitProcessing(w) \/ CommitReady(w) \/ CommitFailed(w)
    PROVE  SingleInv'
    <1>0. Engaged(w)
        BY ProcessingEffect, ReadyEffect, FailedEffect
    <1>1. /\ Doc(w) \in Uploads
          /\ run[w].task.retries \in Nat /\ job[Doc(w)] \in JobRow
          /\ Progress(run[w], status[Doc(w)], job[Doc(w)])
        BY <1>0, EngagedFacts
    <1>2. TaskInv' /\ TypeInv /\ job \in [Uploads -> JobRow] /\ status \in [Uploads -> DocumentStatus]
        BY WorkTasks DEF Work, SingleInv, TaskInv, TypeInv, TypeOK
    <1>3. /\ \A v \in Workers \ {w} : run'[v] = run[v]
          /\ DOMAIN run = Workers
          /\ DOMAIN run[w] = {"pc", "task", "restored", "doc", "job", "existing", "deleting"}
        <2>1. run[w].pc # "idle"
            BY <1>0 DEF Engaged, InRun
        <2>. QED
            BY <1>2, <2>1, BusyWorker, RunFrame DEF Work
    <1>4. UNCHANGED <<api, queue>>
        BY ProcessingEffect, ReadyEffect, FailedEffect DEF apiVars
    <1>5. run'[w].task = run[w].task
        BY <1>3 DEF CommitProcessing, CommitReady, CommitFailed, Forget
    <1>6. Engaged(w)' => Progress(run'[w], status'[Doc(w)], job'[Doc(w)])
        <2>1. CASE CommitProcessing(w)
            <3>1. /\ run'[w].pc = "parsing" /\ run'[w].doc = "processing"
                  /\ run'[w].job = job'[Doc(w)] /\ status'[Doc(w)] = "processing"
                  /\ job'[Doc(w)].attempts = job[Doc(w)].attempts + 1
                  /\ job[Doc(w)].attempts <= run[w].task.retries
                BY <1>1, <1>2, <2>1, ProcessingEffect
            <3>2. job[Doc(w)].attempts \in Nat
                BY <1>1 DEF JobRow
            <3>. QED
                BY <1>1, <1>5, <3>1, <3>2 DEF Progress, Before, During, KnowsDoc, KnowsJob
        <2>2. CASE CommitReady(w)
            BY <2>2, ReadyEffect DEF Engaged, InRun
        <2>3. CASE CommitFailed(w)
            <3>1. run'[w].pc = "raised" /\ status'[Doc(w)] = "failed"
                BY <1>1, <1>2, <2>3, FailedEffect
            <3>2. job'[Doc(w)].attempts = job[Doc(w)].attempts
                <4>1. job'[Doc(w)] = [job[Doc(w)] EXCEPT !.status = "failed", !.finished = TRUE,
                                                         !.error = TRUE]
                    BY <1>1, <1>2, <2>3, FailedEffect
                <4>. QED
                    BY <1>1, <4>1 DEF JobRow
            <3>3. job[Doc(w)].attempts <= run[w].task.retries + 1
                BY <1>1, <2>3 DEF CommitFailed, At, Progress, During
            <3>4. /\ run'[w].pc \notin Before \cup During \cup KnowsDoc \cup KnowsJob
                  /\ status'[Doc(w)] \in Open
                  /\ job'[Doc(w)].attempts <= run'[w].task.retries + 1
                BY <1>5, <3>1, <3>2, <3>3 DEF Before, During, KnowsDoc, KnowsJob, Open
            <3>. QED
                BY <3>4 DEF Progress
        <2>. QED
            BY <2>1, <2>2, <2>3
    <1>. QED
        BY <1>0, <1>2, <1>3, <1>4, <1>5, <1>6, CommitRows, WorkerStep

-----------------------------------------------------------------------------
(* Tasks change hands *)

LEMMA DeliverSingle ==
    ASSUME SingleInv, NEW w \in Workers, NEW m \in Message, Deliver(w, m)
    PROVE  SingleInv'
    <1>0. Work(w) /\ TypeInv
        BY DEF Work, SingleInv, TaskInv
    <1>1. TaskInv' /\ DOMAIN run = Workers /\ queue \in [Message -> Nat]
        BY <1>0, WorkTasks DEF SingleInv, TypeInv, TypeOK
    <1>2. /\ queue[m] > 0 /\ run[w].pc = "idle"
          /\ queue' = [queue EXCEPT ![m] = queue[m] - 1]
          /\ run'[w].pc = "loading" /\ run'[w].task = m
          /\ \A v \in Workers \ {w} : run'[v] = run[v]
          /\ UNCHANGED <<apiVars, rows>>
        BY <1>1 DEF Deliver, At
    <1>3. QueuedOK(m) /\ m.doc \in Uploads
        BY <1>2 DEF SingleInv, Message
    <1>4. /\ queue'[m] = 0
          /\ \A n \in Message : n # m => queue'[n] = queue[n]
          /\ \A n \in Message : n.doc = m.doc => queue'[n] = 0
        BY <1>1, <1>2, <1>3 DEF QueuedOK
    <1>5. /\ \A v \in Workers \ {w} : Engaged(v)' <=> Engaged(v)
          /\ \A v \in Workers \ {w} : Doc(v)' = Doc(v)
          /\ Doc(w)' = m.doc /\ ~Engaged(w)
        BY <1>2 DEF Engaged, Doc, InRun
    <1>6. \A u \in Uploads : UploadOK(u)'
        BY <1>2 DEF SingleInv, UploadOK, RowsOK, rows, apiVars
    <1>7. ASSUME NEW n \in Message, queue'[n] > 0
          PROVE  QueuedOK(n)'
        <2>1. n # m /\ n.doc # m.doc /\ queue[n] > 0
            BY <1>4, <1>7
        <2>2. QueuedOK(n)
            BY <2>1 DEF SingleInv
        <2>3. \A v \in Workers : Engaged(v)' => Doc(v)' # n.doc
            BY <1>5, <2>1, <2>2 DEF QueuedOK
        <2>4. \A x \in Message : x.doc = n.doc /\ x # n => queue'[x] = 0
            BY <1>4, <2>1, <2>2 DEF QueuedOK
        <2>. QED
            BY <1>2, <1>4, <2>1, <2>2, <2>3, <2>4 DEF QueuedOK, rows, apiVars
    <1>8. ASSUME NEW v \in Workers, Engaged(v)'
          PROVE  RunOK(v)'
        <2>1. CASE v = w
            <3>1. Progress(run'[w], status[m.doc], job[m.doc])
                BY <1>2, <1>3
                DEF QueuedOK, Progress, Before, During, KnowsDoc, KnowsJob
            <3>2. \A x \in Workers \ {w} : Engaged(x)' => Doc(x)' # m.doc
                BY <1>3, <1>5 DEF QueuedOK
            <3>3. api[m.doc] = "accepted"
                BY <1>3 DEF QueuedOK
            <3>. QED
                BY <1>2, <1>5, <2>1, <3>1, <3>2, <3>3 DEF RunOK, rows, apiVars
        <2>2. CASE v # w
            <3>1. Engaged(v) /\ RunOK(v) /\ Doc(v)' = Doc(v) /\ run'[v] = run[v]
                BY <1>2, <1>5, <1>8, <2>2 DEF SingleInv
            <3>2. Doc(v) # m.doc
                BY <1>3, <3>1 DEF QueuedOK
            <3>3. \A x \in Workers \ {v} : Engaged(x)' => Doc(x)' # Doc(v)
                BY <1>5, <3>1, <3>2 DEF RunOK
            <3>. QED
                BY <1>2, <3>1, <3>3 DEF RunOK, rows, apiVars
        <2>. QED
            BY <2>1, <2>2
    <1>. QED
        BY <1>1, <1>6, <1>7, <1>8 DEF SingleInv

LEMMA RetrySingle ==
    ASSUME SingleInv, NEW w \in Workers, PublishRetry(w)
    PROVE  SingleInv'
    <1>. DEFINE m == RetryTask(run[w].task)
    <1>0. Work(w) /\ TypeInv /\ Engaged(w) /\ run[w].pc = "raised"
        BY DEF Work, SingleInv, TaskInv, PublishRetry, At, Engaged
    <1>1. TaskInv' /\ DOMAIN run = Workers /\ queue \in [Message -> Nat]
        BY <1>0, WorkTasks DEF SingleInv, TypeInv, TypeOK
    <1>2. RunOK(w) /\ Doc(w) \in Uploads
        BY <1>0, EngagedFacts DEF SingleInv
    <1>3. /\ m \in Message /\ m.doc = Doc(w) /\ m.retries = run[w].task.retries + 1
        <2>1. run[w].task \in Message /\ run[w].task.retries < MaxRetries
            BY <1>0, BusyWorker DEF PublishRetry
        <2>. QED
            BY <2>1, IngestionAssumption DEF RetryTask, Message, Doc, IngestionAssumption
    <1>. HIDE DEF m
    <1>4. /\ queue' = [queue EXCEPT ![m] = queue[m] + 1]
          /\ run'[w].pc = "acking"
          /\ \A v \in Workers \ {w} : run'[v] = run[v]
          /\ UNCHANGED <<apiVars, rows>>
        <2>1. DOMAIN run[w] = {"pc", "task", "restored", "doc", "job", "existing", "deleting"}
            BY <1>0, BusyWorker
        <2>. QED
            BY <1>1, <2>1 DEF PublishRetry, Send, m
    <1>5. \A n \in Message : n.doc = Doc(w) => queue[n] = 0
        <2>. SUFFICES ASSUME NEW n \in Message, n.doc = Doc(w), queue[n] > 0 PROVE FALSE
            BY <1>1
        <2>. QED
            BY <1>0 DEF SingleInv, QueuedOK
    <1>6. /\ queue'[m] = 1 /\ \A n \in Message : n # m => queue'[n] = queue[n]
        BY <1>1, <1>3, <1>4, <1>5
    <1>7. /\ \A v \in Workers \ {w} : (Engaged(v)' <=> Engaged(v)) /\ Doc(v)' = Doc(v)
          /\ ~Engaged(w)'
        BY <1>4 DEF Engaged, Doc, InRun
    <1>8. \A u \in Uploads : UploadOK(u)'
        BY <1>4 DEF SingleInv, UploadOK, RowsOK, rows, apiVars
    <1>9. ASSUME NEW n \in Message, queue'[n] > 0
          PROVE  QueuedOK(n)'
        <2>1. CASE n = m
            <3>1. /\ status[Doc(w)] \in Open /\ job[Doc(w)].attempts <= m.retries
                  /\ api[Doc(w)] = "accepted"
                BY <1>0, <1>2, <1>3 DEF RunOK, Progress
            <3>2. \A v \in Workers : Engaged(v)' => Doc(v)' # m.doc
                BY <1>2, <1>3, <1>7 DEF RunOK
            <3>3. \A x \in Message : x.doc = m.doc /\ x # m => queue'[x] = 0
                BY <1>3, <1>5, <1>6
            <3>. QED
                BY <1>3, <1>4, <1>6, <2>1, <3>1, <3>2, <3>3 DEF QueuedOK, rows, apiVars
        <2>2. CASE n # m
            <3>1. queue[n] > 0 /\ QueuedOK(n)
                BY <1>6, <1>9, <2>2 DEF SingleInv
            <3>2. n.doc # m.doc
                BY <1>3, <1>5, <3>1
            <3>3. \A v \in Workers : Engaged(v)' => Doc(v)' # n.doc
                BY <1>7, <3>1 DEF QueuedOK
            <3>4. \A x \in Message : x.doc = n.doc /\ x # n => queue'[x] = 0
                BY <1>6, <3>1, <3>2 DEF QueuedOK
            <3>. QED
                BY <1>4, <1>6, <2>2, <3>1, <3>3, <3>4 DEF QueuedOK, rows, apiVars
        <2>. QED
            BY <2>1, <2>2
    <1>10. ASSUME NEW v \in Workers, Engaged(v)'
           PROVE  RunOK(v)'
        <2>1. v # w /\ Engaged(v) /\ RunOK(v) /\ Doc(v)' = Doc(v) /\ run'[v] = run[v]
            BY <1>4, <1>7, <1>10 DEF SingleInv
        <2>2. \A x \in Workers \ {v} : Engaged(x)' => Doc(x)' # Doc(v)
            BY <1>7, <2>1 DEF RunOK
        <2>. QED
            BY <1>4, <2>1, <2>2 DEF RunOK, rows, apiVars
    <1>. QED
        BY <1>1, <1>8, <1>9, <1>10 DEF SingleInv

LEMMA WorkSingle ==
    ASSUME NoCopies, SingleInv, NEW w \in Workers, Work(w) \/ Disturb(w)
    PROVE  SingleInv'
    <1>1. ~Crash(w) /\ ~Redeliver(w)
        BY DEF NoCopies, Crash, Redeliver, Fault
    <1>2. \/ Reads(w) \/ Ack(w) \/ ChildLost(w)
          \/ CommitProcessing(w) \/ CommitReady(w) \/ CommitFailed(w)
          \/ PublishRetry(w) \/ \E m \in Message : Deliver(w, m)
        BY <1>1 DEF Work, Disturb, Reads
    <1>. QED
        BY <1>2, ReadsSingle, CommitSingle, DeliverSingle, RetrySingle

-----------------------------------------------------------------------------
(* The upload requests *)

\* A step of a request whose task was not sent yet touches nobody's run.
LEMMA RequestStep ==
    ASSUME SingleInv, TaskInv', NEW u \in Uploads, UNCHANGED <<run, queue>>,
           api[u] # "accepted", UploadOK(u)',
           \A v \in Uploads \ {u} : api'[v] = api[v] /\ RowsKept(v)
    PROVE  SingleInv'
    <1>1. \A v \in Uploads : UploadOK(v)'
        <2>. SUFFICES ASSUME NEW v \in Uploads, v # u PROVE UploadOK(v)'
            OBVIOUS
        <2>1. UploadOK(v)
            BY DEF SingleInv
        <2>. QED
            BY <2>1 DEF UploadOK, RowsOK, RowsKept
    <1>2. \A w \in Workers : (Engaged(w)' <=> Engaged(w)) /\ Doc(w)' = Doc(w)
        BY DEF Engaged, Doc
    <1>3. ASSUME NEW m \in Message, queue'[m] > 0
          PROVE  QueuedOK(m)'
        <2>1. QueuedOK(m) /\ m.doc \in Uploads
            BY <1>3 DEF SingleInv, Message
        <2>2. m.doc # u
            BY <2>1 DEF QueuedOK
        <2>3. \A w \in Workers : Engaged(w)' => Doc(w)' # m.doc
            BY <1>2, <2>1 DEF QueuedOK
        <2>. QED
            BY <2>1, <2>2, <2>3 DEF QueuedOK, RowsKept
    <1>4. ASSUME NEW w \in Workers, Engaged(w)'
          PROVE  RunOK(w)'
        <2>1. Engaged(w) /\ RunOK(w) /\ Doc(w)' = Doc(w)
            BY <1>2, <1>4 DEF SingleInv
        <2>2. Doc(w) \in Uploads /\ Doc(w) # u
            BY <2>1, EngagedFacts DEF RunOK
        <2>3. \A x \in Workers \ {w} : Engaged(x)' => Doc(x)' # Doc(w)
            BY <1>2, <2>1 DEF RunOK
        <2>. QED
            BY <2>1, <2>2, <2>3 DEF RunOK, RowsKept
    <1>. QED
        BY <1>1, <1>3, <1>4 DEF SingleInv

LEMMA DispatchSingle ==
    ASSUME SingleInv, NEW u \in Uploads, Dispatch(u)
    PROVE  SingleInv'
    <1>. DEFINE m == FirstTask(u)
    <1>0. TaskInv' /\ TypeInv /\ api[u] = "enqueueing"
        BY HandleTasks DEF SingleInv, TaskInv, Handle, Dispatch, ApiStep
    <1>1. /\ api \in [Uploads -> ApiPc] /\ queue \in [Message -> Nat]
          /\ m \in Message /\ m.doc = u /\ m.retries = 0
        BY <1>0, IngestionAssumption
        DEF TypeInv, TypeOK, FirstTask, Message, IngestionAssumption
    <1>2. status[u] = "uploaded" /\ job[u].attempts = 0
        BY <1>0 DEF SingleInv, UploadOK, RowsOK
    <1>3. \A n \in Message : n.doc = u => queue[n] = 0
        <2>. SUFFICES ASSUME NEW n \in Message, n.doc = u, queue[n] > 0 PROVE FALSE
            BY <1>1
        <2>. QED
            BY <1>0 DEF SingleInv, QueuedOK
    <1>4. \A w \in Workers : Engaged(w) => Doc(w) # u
        BY <1>0 DEF SingleInv, RunOK
    <1>. HIDE DEF m
    <1>5. /\ queue' = [queue EXCEPT ![m] = queue[m] + 1]
          /\ api' = [api EXCEPT ![u] = "accepted"]
          /\ UNCHANGED <<tries, files, rows, run>>
        BY DEF Dispatch, ApiStep, Send, m
    <1>6. /\ queue'[m] = 1 /\ \A n \in Message : n # m => queue'[n] = queue[n]
          /\ api'[u] = "accepted" /\ \A v \in Uploads : v # u => api'[v] = api[v]
        BY <1>1, <1>3, <1>5
    <1>7. \A w \in Workers : (Engaged(w)' <=> Engaged(w)) /\ Doc(w)' = Doc(w)
        BY <1>5 DEF Engaged, Doc
    <1>8. \A v \in Uploads : UploadOK(v)'
        BY <1>5, <1>6 DEF SingleInv, UploadOK, RowsOK, rows
    <1>9. ASSUME NEW n \in Message, queue'[n] > 0
          PROVE  QueuedOK(n)'
        <2>1. CASE n = m
            <3>1. \A w \in Workers : Engaged(w)' => Doc(w)' # n.doc
                BY <1>1, <1>4, <1>7, <2>1
            <3>2. \A x \in Message : x.doc = n.doc /\ x # n => queue'[x] = 0
                BY <1>1, <1>3, <1>6, <2>1
            <3>. QED
                BY <1>1, <1>2, <1>5, <1>6, <2>1, <3>1, <3>2 DEF QueuedOK, rows, Open
        <2>2. CASE n # m
            <3>1. queue[n] > 0 /\ QueuedOK(n) /\ n.doc # u /\ n.doc \in Uploads
                BY <1>3, <1>6, <1>9, <2>2 DEF SingleInv, Message
            <3>2. \A w \in Workers : Engaged(w)' => Doc(w)' # n.doc
                BY <1>7, <3>1 DEF QueuedOK
            <3>3. \A x \in Message : x.doc = n.doc /\ x # n => queue'[x] = 0
                BY <1>1, <1>6, <3>1 DEF QueuedOK
            <3>. QED
                BY <1>5, <1>6, <2>2, <3>1, <3>2, <3>3 DEF QueuedOK, rows
        <2>. QED
            BY <2>1, <2>2
    <1>10. ASSUME NEW w \in Workers, Engaged(w)'
           PROVE  RunOK(w)'
        <2>1. Engaged(w) /\ RunOK(w) /\ Doc(w)' = Doc(w)
            BY <1>7, <1>10 DEF SingleInv
        <2>2. Doc(w) \in Uploads /\ Doc(w) # u
            BY <1>4, <2>1, EngagedFacts
        <2>3. \A x \in Workers \ {w} : Engaged(x)' => Doc(x)' # Doc(w)
            BY <1>7, <2>1 DEF RunOK
        <2>. QED
            BY <1>5, <1>6, <2>1, <2>2, <2>3 DEF RunOK, rows
    <1>. QED
        BY <1>0, <1>8, <1>9, <1>10 DEF SingleInv

LEMMA HandleSingle ==
    ASSUME NoCopies, SingleInv, NEW u \in Uploads, Handle(u) \/ ApiCrash(u)
    PROVE  SingleInv'
    <1>0. TaskInv' /\ TypeInv /\ RequestInv /\ UploadOK(u)
        BY HandleTasks DEF SingleInv, TaskInv
    <1>1. /\ api \in [Uploads -> ApiPc] /\ status \in [Uploads -> DocumentStatus]
          /\ job \in [Uploads -> JobRow]
        BY <1>0 DEF TypeInv, TypeOK
    <1>2. ASSUME NEW to, api' = [api EXCEPT ![u] = to], UNCHANGED <<rows, run, queue>>,
                 api[u] # "accepted",
                 to \in {"enqueueing", "enqueue_failed"} =>
                     api[u] \in {"enqueueing", "enqueue_failed"}
          PROVE  SingleInv'
        <2>1. /\ \A v \in Uploads : RowsKept(v)
              /\ \A v \in Uploads \ {u} : api'[v] = api[v]
              /\ api'[u] = to
            BY <1>1, <1>2 DEF rows, RowsKept
        <2>2. UploadOK(u)'
            BY <1>0, <1>2, <2>1 DEF UploadOK, RowsOK, rows
        <2>. QED
            BY <1>0, <1>2, <2>1, <2>2, RequestStep
    <1>3. CASE RejectUpload(u) \/ StoreFile(u) \/ RejectDuplicate(u) \/ PassDuplicateCheck(u)
        BY <1>2, <1>3 DEF RejectUpload, StoreFile, RejectDuplicate, PassDuplicateCheck, ApiStep
    <1>4. CASE DispatchRaises(u)
        <2>1. UNCHANGED queue
            BY <1>4 DEF DispatchRaises, NoCopies
        <2>. QED
            BY <1>2, <1>4, <2>1 DEF DispatchRaises, ApiStep
    <1>5. CASE ApiCrash(u)
        BY <1>2, <1>5 DEF ApiCrash
    <1>6. CASE InsertDocument(u)
        <2>1. /\ api[u] = "checked" /\ api'[u] = "enqueueing"
              /\ \A v \in Uploads \ {u} : api'[v] = api[v]
              /\ status'[u] = "uploaded"
              /\ job'[u] = [NoJob EXCEPT !.status = "queued"]
              /\ \A v \in Uploads \ {u} : status'[v] = status[v] /\ job'[v] = job[v]
              /\ UNCHANGED <<chunks, batches, run, queue>>
            BY <1>1, <1>6 DEF InsertDocument, ApiStep
        <2>2. status[u] = "absent"
            BY <1>0, <2>1 DEF RequestInv
        <2>3. UploadOK(u)'
            BY <1>0, <2>1, <2>2, IngestionAssumption
            DEF UploadOK, RowsOK, Agree, NoJob, IngestionAssumption
        <2>. QED
            BY <1>0, <2>1, <2>3, RequestStep DEF RowsKept
    <1>7. CASE Dispatch(u)
        BY <1>7, DispatchSingle
    <1>8. CASE MarkEnqueueFailed(u)
        <2>1. /\ api[u] = "enqueue_failed" /\ api'[u] = "unavailable"
              /\ \A v \in Uploads \ {u} : api'[v] = api[v]
              /\ status'[u] = "failed"
              /\ job'[u].status = "failed" /\ job'[u].error
              /\ job'[u].attempts = job[u].attempts
              /\ \A v \in Uploads \ {u} : status'[v] = status[v] /\ job'[v] = job[v]
              /\ UNCHANGED <<chunks, batches, run, queue>>
            BY <1>1, <1>8 DEF MarkEnqueueFailed, ApiStep, JobRow
        <2>2. status[u] = "uploaded"
            BY <1>0, <2>1 DEF UploadOK
        <2>3. UploadOK(u)'
            BY <1>0, <2>1, <2>2 DEF UploadOK, RowsOK, Agree
        <2>. QED
            BY <1>0, <2>1, <2>3, RequestStep DEF RowsKept
    <1>. QED
        BY <1>3, <1>4, <1>5, <1>6, <1>7, <1>8 DEF Handle

LEMMA IdleSingle ==
    ASSUME SingleInv, TaskInv', UNCHANGED <<api, status, job, chunks, batches, queue, run>>
    PROVE  SingleInv'
    <1>1. /\ \A u \in Uploads : UploadOK(u)' <=> UploadOK(u)
          /\ \A w \in Workers : (Engaged(w)' <=> Engaged(w)) /\ Doc(w)' = Doc(w)
        BY DEF UploadOK, RowsOK, Engaged, Doc
    <1>2. /\ \A m \in Message : QueuedOK(m)' <=> QueuedOK(m)
          /\ \A w \in Workers : RunOK(w)' <=> RunOK(w)
        BY <1>1 DEF QueuedOK, RunOK
    <1>. QED
        BY <1>1, <1>2 DEF SingleInv

LEMMA NextSingle ==
    ASSUME NoCopies, SingleInv, [Next]_vars
    PROVE  SingleInv'
    <1>0. TaskInv'
        BY NextTasks DEF SingleInv
    <1>1. CASE UNCHANGED vars
        BY <1>0, <1>1, IdleSingle DEF vars, apiVars, rows
    <1>2. ASSUME NEW S, Cite(S)
          PROVE  SingleInv'
        BY <1>0, <1>2, IdleSingle DEF Cite, apiVars
    <1>. QED
        BY <1>1, <1>2, HandleSingle, WorkSingle DEF Next, Pipeline, Rest

LEMMA SingleInvariance ==
    ASSUME NoCopies
    PROVE  Spec => []SingleInv
    <1>1. SingleInv /\ [Next]_vars => SingleInv'
        BY NextSingle
    <1>. QED
        BY <1>1, InitSingle, PTL DEF Spec

-----------------------------------------------------------------------------
(* What follows *)

\* Without copies of tasks the two status columns agree after every commit of
\* every session, and an error message is there exactly when the document failed.
THEOREM StatusColumnsAgree ==
    ASSUME NoCopies
    PROVE  Spec => []StatusAgreement
    <1>1. SingleInv => StatusAgreement
        BY DEF SingleInv, UploadOK, RowsOK, Agree, StatusAgreement
    <1>. QED
        BY <1>1, SingleInvariance, PTL

\* Without copies of tasks no job is attempted more often than its retries allow.
THEOREM AttemptsAreBounded ==
    ASSUME NoCopies
    PROVE  Spec => []AttemptsBounded
    <1>1. SingleInv => AttemptsBounded
        <2>. SUFFICES ASSUME SingleInv PROVE AttemptsBounded
            OBVIOUS
        <2>1. \A u \in Uploads : job[u].attempts <= MaxRetries + 1
            BY DEF SingleInv, UploadOK, RowsOK
        <2>2. ASSUME NEW w \in Workers, Engaged(w)
              PROVE  job[Doc(w)].attempts <= run[w].task.retries + 1
            <3>1. /\ Progress(run[w], status[Doc(w)], job[Doc(w)])
                  /\ job[Doc(w)].attempts \in Nat /\ run[w].task.retries \in Nat
                BY <2>2, EngagedFacts DEF JobRow
            <3>2. run[w].pc \in Before \cup During \cup {"raised"}
                BY <2>2 DEF Engaged, InRun, Before, During
            <3>. QED
                BY <3>1, <3>2 DEF Progress
        <2>. QED
            BY <2>1, <2>2 DEF AttemptsBounded
    <1>. QED
        BY <1>1, SingleInvariance, PTL

-----------------------------------------------------------------------------
(* The pipeline implements IngestionPromise *)

LEMMA InitPromise == Init => Promise!Init
    <1>. SUFFICES ASSUME Init PROVE Promise!Init
        OBVIOUS
    <1>1. [u \in Uploads |-> job[u].attempts] = [u \in Uploads |-> 0]
        BY DEF Init, NoJob
    <1>. QED
        BY <1>1 DEF Init, Promise!Init

\* A step that leaves the rows a client can see alone.
LEMMA PromiseStutter ==
    ASSUME UNCHANGED <<status, job, chunks, version>>
    PROVE  UNCHANGED Promise!vars
    BY DEF Promise!vars

LEMMA CommitPromise ==
    ASSUME SingleInv, NEW w \in Workers,
           CommitProcessing(w) \/ CommitReady(w) \/ CommitFailed(w)
    PROVE  Promise!Next
    <1>0. Engaged(w)
        BY ProcessingEffect, ReadyEffect, FailedEffect
    <1>1. /\ Doc(w) \in Uploads /\ RowsOK(Doc(w))
          /\ run[w].task.retries \in Nat /\ run[w].task.retries <= MaxRetries
          /\ MaxRetries \in Nat
        BY <1>0, EngagedFacts, IngestionAssumption DEF IngestionAssumption
    <1>2. /\ status \in [Uploads -> DocumentStatus] /\ job \in [Uploads -> JobRow]
          /\ chunks \in [Uploads -> SUBSET Nat]
        BY DEF SingleInv, TaskInv, TypeInv, TypeOK
    <1>3. \A u \in Uploads : job[u].attempts \in Nat
        BY <1>2 DEF JobRow
    <1>. DEFINE tried == [u \in Uploads |-> job[u].attempts]
    <1>4. CASE CommitProcessing(w)
        <2>1. /\ status[Doc(w)] \in Open /\ job[Doc(w)].attempts <= MaxRetries
              /\ status' = [status EXCEPT ![Doc(w)] = "processing"]
              /\ UNCHANGED <<chunks, version>>
            BY <1>1, <1>3, <1>4, ProcessingEffect
        <2>2. tried' = [tried EXCEPT ![Doc(w)] = @ + 1]
            <3>1. /\ job'[Doc(w)].attempts = job[Doc(w)].attempts + 1
                  /\ \A u \in Uploads : u # Doc(w) => job'[u].attempts = job[u].attempts
                BY <1>1, <1>2, <1>4, ProcessingEffect
            <3>. QED
                BY <1>1, <3>1
        <2>3. Promise!Attempt(Doc(w))
            BY <1>1, <2>1, <2>2 DEF Promise!Attempt, Promise!Move, Open
        <2>4. \A u : u = Doc(w) /\ Promise!Attempt(Doc(w)) => Promise!Attempt(u)
            BY DEF Promise!Attempt, Promise!Move
        <2>. QED
            BY <1>1, <2>3, <2>4 DEF Promise!Next
    <1>5. CASE CommitReady(w)
        <2>1. tried' = tried
            <3>1. /\ \A u \in Uploads : u # Doc(w) => job'[u].attempts = job[u].attempts
                  /\ job'[Doc(w)] = [job[Doc(w)] EXCEPT !.status = "completed", !.finished = TRUE]
                BY <1>1, <1>2, <1>5, ReadyEffect
            <3>2. job'[Doc(w)].attempts = job[Doc(w)].attempts
                BY <1>1, <1>2, <3>1 DEF JobRow
            <3>. QED
                BY <3>1, <3>2
        <2>2. Promise!Publish(Doc(w))
            BY <1>5, <2>1, ReadyEffect
            DEF Promise!Publish, Promise!Move, Promise!Touch, Touch
        <2>. QED
            BY <1>1, <2>2 DEF Promise!Next
    <1>6. CASE CommitFailed(w)
        <2>1. tried' = tried
            <3>1. /\ \A u \in Uploads : u # Doc(w) => job'[u].attempts = job[u].attempts
                  /\ job'[Doc(w)] = [job[Doc(w)] EXCEPT !.status = "failed", !.finished = TRUE,
                                                        !.error = TRUE]
                BY <1>1, <1>2, <1>6, FailedEffect
            <3>2. job'[Doc(w)].attempts = job[Doc(w)].attempts
                BY <1>1, <1>2, <3>1 DEF JobRow
            <3>. QED
                BY <3>1, <3>2
        <2>2. Promise!Fail(Doc(w))
            BY <1>6, <2>1, FailedEffect DEF Promise!Fail, Promise!Move, Promise!Touch, Touch
        <2>. QED
            BY <1>1, <2>2 DEF Promise!Next
    <1>. QED
        BY <1>4, <1>5, <1>6

LEMMA HandlePromise ==
    ASSUME SingleInv, NEW u \in Uploads, Handle(u) \/ ApiCrash(u)
    PROVE  Promise!Next \/ UNCHANGED Promise!vars
    <1>1. /\ job \in [Uploads -> JobRow] /\ UploadOK(u) /\ RequestInv
        BY DEF SingleInv, TaskInv, TypeInv, TypeOK
    <1>. DEFINE tried == [v \in Uploads |-> job[v].attempts]
    <1>2. CASE InsertDocument(u)
        <2>1. status[u] = "absent" /\ job[u].attempts = 0
            BY <1>1, <1>2 DEF InsertDocument, ApiStep, RequestInv, UploadOK, RowsOK
        <2>2. tried' = tried
            <3>1. /\ job'[u] = [NoJob EXCEPT !.status = "queued"]
                  /\ \A v \in Uploads : v # u => job'[v] = job[v]
                BY <1>1, <1>2 DEF InsertDocument
            <3>2. job'[u].attempts = 0
                BY <3>1 DEF NoJob
            <3>. QED
                BY <2>1, <3>1, <3>2
        <2>3. Promise!Submit(u)
            BY <1>2, <2>1, <2>2
            DEF InsertDocument, Promise!Submit, Promise!Move, Promise!Touch, Touch
        <2>. QED
            BY <2>3 DEF Promise!Next
    <1>3. CASE MarkEnqueueFailed(u)
        <2>1. status[u] = "uploaded"
            BY <1>1, <1>3 DEF MarkEnqueueFailed, ApiStep, UploadOK
        <2>2. tried' = tried
            <3>1. /\ job'[u].attempts = job[u].attempts
                  /\ \A v \in Uploads : v # u => job'[v] = job[v]
                BY <1>1, <1>3 DEF MarkEnqueueFailed, JobRow
            <3>. QED
                BY <3>1
        <2>3. Promise!Abandon(u)
            BY <1>3, <2>1, <2>2 DEF MarkEnqueueFailed, Promise!Abandon, Promise!Move
        <2>. QED
            BY <2>3 DEF Promise!Next
    <1>4. CASE \/ RejectUpload(u) \/ StoreFile(u) \/ RejectDuplicate(u) \/ PassDuplicateCheck(u)
               \/ Dispatch(u) \/ DispatchRaises(u) \/ ApiCrash(u)
        <2>1. UNCHANGED rows
            BY <1>4 DEF RejectUpload, StoreFile, RejectDuplicate, PassDuplicateCheck, Dispatch,
                DispatchRaises, ApiCrash
        <2>. QED
            BY <2>1, PromiseStutter DEF rows
    <1>. QED
        BY <1>2, <1>3, <1>4 DEF Handle

LEMMA NextPromise ==
    ASSUME SingleInv, [Next]_vars
    PROVE  [Promise!Next]_(Promise!vars)
    <1>1. CASE UNCHANGED vars
        BY <1>1, PromiseStutter DEF vars, rows
    <1>2. ASSUME NEW S, Cite(S)
          PROVE  UNCHANGED Promise!vars
        BY <1>2, PromiseStutter DEF Cite
    <1>3. ASSUME NEW w \in Workers, Work(w) \/ Disturb(w)
          PROVE  Promise!Next \/ UNCHANGED Promise!vars
        BY <1>3, RowsFrame, CommitPromise, PromiseStutter DEF rows
    <1>. QED
        BY <1>1, <1>2, <1>3, HandlePromise DEF Next, Pipeline, Rest

\* Without copies of tasks the queue, the sessions, the retries and every other
\* fault are invisible to a client: what it can observe is a behaviour of
\* IngestionPromise, for any number of uploads, workers and retries.
THEOREM PipelineKeepsPromise ==
    ASSUME NoCopies
    PROVE  Spec => KeepsPromise
    BY InitPromise, NextPromise, SingleInvariance, PTL DEF Spec, KeepsPromise, Promise!Spec

\* What every behaviour of the promise has: a publication is final.
LEMMA PromiseIsFinal ==
    ASSUME [Promise!Next]_(Promise!vars), NEW u \in Uploads, status[u] = "ready",
           status \in [Uploads -> DocumentStatus], chunks \in [Uploads -> SUBSET Nat]
    PROVE  status'[u] = "ready" /\ chunks'[u] = chunks[u]
    <1>1. CASE UNCHANGED Promise!vars
        BY <1>1 DEF Promise!vars
    <1>2. ASSUME NEW v \in Uploads,
                 \/ Promise!Submit(v) \/ Promise!Abandon(v) \/ Promise!Attempt(v)
                 \/ Promise!Publish(v) \/ Promise!Fail(v)
          PROVE  status'[u] = "ready" /\ chunks'[u] = chunks[u]
        <2>1. v # u
            BY <1>2 DEF Promise!Submit, Promise!Abandon, Promise!Attempt, Promise!Publish,
                Promise!Fail, Promise!Move
        <2>. QED
            BY <1>2, <2>1 DEF Promise!Submit, Promise!Abandon, Promise!Attempt, Promise!Publish,
                Promise!Fail, Promise!Move
    <1>. QED
        BY <1>1, <1>2 DEF Promise!Next

\* No later transaction of a worker touches a ready document or its chunks.
ReadyIsFinal ==
    [][\A u \in Uploads :
          status[u] = "ready" => status'[u] = "ready" /\ chunks'[u] = chunks[u]]_vars

\* Without copies of tasks no retry, fault or other upload takes back a document
\* that a client has seen ready, or exchanges the chunks its citations point to.
THEOREM NothingIsTakenBack ==
    ASSUME NoCopies
    PROVE  Spec => ReadyIsFinal
    <1>1. SingleInv /\ [Next]_vars =>
              [\A u \in Uploads :
                  status[u] = "ready" => status'[u] = "ready" /\ chunks'[u] = chunks[u]]_vars
        <2>. SUFFICES ASSUME SingleInv, [Next]_vars, NEW u \in Uploads, status[u] = "ready"
                      PROVE  status'[u] = "ready" /\ chunks'[u] = chunks[u]
            OBVIOUS
        <2>1. status \in [Uploads -> DocumentStatus] /\ chunks \in [Uploads -> SUBSET Nat]
            BY DEF SingleInv, TaskInv, TypeInv, TypeOK
        <2>. QED
            BY <2>1, NextPromise, PromiseIsFinal
    <1>. QED
        BY <1>1, SingleInvariance, PTL DEF Spec, ReadyIsFinal

-----------------------------------------------------------------------------
(* When the duplicate check keeps its word *)

Twins(u, v) == u # v /\ KbOf[u] = KbOf[v] /\ ContentOf[u] = ContentOf[v]

\* No request stands between its duplicate check and its INSERT while another
\* with the same file does.
Serial == \A u, v \in Uploads : Twins(u, v) => ~(api[u] = "checked" /\ api[v] = "checked")

Retried(u) == job[u].attempts >= 2

\* Of two live documents with the same bytes in one knowledge base, one had
\* failed, which made room for the other, and came back with a retry.
TwinsAreRetries ==
    \A u, v \in Uploads :
        Twins(u, v) /\ status[u] \in BlockingStatus /\ status[v] \in BlockingStatus
            => Retried(u) \/ Retried(v)

\* A run that ended made an attempt; a request that passed the check is alone
\* with its bytes, but for a document that is retried.
TwinInv ==
    /\ \A u \in Uploads :
          status[u] = "processing" \/ (status[u] = "failed" /\ api[u] = "accepted")
              => job[u].attempts >= 1
    /\ \A u, v \in Uploads :
          Twins(u, v) /\ api[u] = "checked" /\ status[v] \in BlockingStatus => Retried(v)
    /\ TwinsAreRetries

\* A step that moves no request into "checked" and makes no document live.
LEMMA QuietTwins ==
    ASSUME TwinInv,
           \A u \in Uploads :
              /\ api'[u] = "checked" => api[u] = "checked"
              /\ status'[u] \in BlockingStatus => status[u] \in BlockingStatus \/ Retried(u)'
              /\ job[u].attempts \in Nat /\ job'[u].attempts \in Nat
              /\ job[u].attempts <= job'[u].attempts
              /\ status'[u] = "processing" \/ (status'[u] = "failed" /\ api'[u] = "accepted")
                     => job'[u].attempts >= 1
    PROVE  TwinInv'
    <1>1. \A u \in Uploads : Retried(u) => Retried(u)'
        BY DEF Retried
    <1>. QED
        BY <1>1 DEF TwinInv, TwinsAreRetries, Twins

LEMMA InitTwins == Init => TwinInv
    BY DEF Init, TwinInv, TwinsAreRetries, BlockingStatus

LEMMA WorkTwins ==
    ASSUME SingleInv, TwinInv, NEW w \in Workers, Work(w) \/ Disturb(w)
    PROVE  TwinInv'
    <1>1. /\ job \in [Uploads -> JobRow] /\ status \in [Uploads -> DocumentStatus]
          /\ \A u \in Uploads : job[u].attempts \in Nat
        BY DEF SingleInv, TaskInv, TypeInv, TypeOK, JobRow
    <1>2. CASE UNCHANGED <<apiVars, rows>>
        BY <1>1, <1>2, QuietTwins DEF apiVars, rows, TwinInv
    <1>3. CASE CommitProcessing(w) \/ CommitReady(w) \/ CommitFailed(w)
        <2>0. PICK d \in Uploads : d = Doc(w) /\ Engaged(w) /\ api[d] = "accepted" /\ UNCHANGED api
            BY <1>3, ProcessingEffect, ReadyEffect, FailedEffect, EngagedFacts
            DEF SingleInv, RunOK, apiVars
        <2>1. \A u \in Uploads \ {d} : status'[u] = status[u] /\ job'[u] = job[u]
            BY <1>3, <2>0, CommitRows DEF RowsKept
        <2>2. CASE CommitProcessing(w)
            <3>1. /\ status[d] \in Open /\ status'[d] = "processing"
                  /\ job'[d].attempts = job[d].attempts + 1
                BY <1>1, <2>0, <2>2, ProcessingEffect
            <3>2. status[d] \in BlockingStatus \/ job[d].attempts >= 1
                BY <2>0, <3>1 DEF TwinInv, Open, BlockingStatus
            <3>3. status[d] \in BlockingStatus \/ Retried(d)'
                BY <1>1, <2>0, <3>1, <3>2 DEF Retried
            <3>4. /\ job'[d].attempts \in Nat /\ job'[d].attempts >= 1
                  /\ job[d].attempts <= job'[d].attempts
                BY <1>1, <3>1
            <3>. QED
                BY <1>1, <2>0, <2>1, <3>1, <3>3, <3>4, QuietTwins DEF TwinInv
        <2>3. CASE CommitReady(w) \/ CommitFailed(w)
            <3>1. status[d] = "processing" /\ status'[d] \in {"ready", "failed"}
                BY <1>1, <2>0, <2>3, ReadyEffect, FailedEffect
            <3>2. job'[d].attempts = job[d].attempts
                <4>1. \/ job'[d] = [job[d] EXCEPT !.status = "completed", !.finished = TRUE]
                      \/ job'[d] = [job[d] EXCEPT !.status = "failed", !.finished = TRUE, !.error = TRUE]
                    BY <1>1, <2>0, <2>3, ReadyEffect, FailedEffect
                <4>. QED
                    BY <1>1, <4>1 DEF JobRow
            <3>. QED
                BY <1>1, <2>0, <2>1, <3>1, <3>2, QuietTwins DEF TwinInv, BlockingStatus
        <2>. QED
            BY <1>3, <2>2, <2>3
    <1>. QED
        BY <1>2, <1>3, RowsFrame

LEMMA HandleTwins ==
    ASSUME SingleInv, Serial, TwinInv, NEW u \in Uploads, Handle(u) \/ ApiCrash(u)
    PROVE  TwinInv'
    <1>1. /\ api \in [Uploads -> ApiPc]
          /\ job \in [Uploads -> JobRow] /\ status \in [Uploads -> DocumentStatus]
          /\ \A v \in Uploads : job[v].attempts \in Nat
          /\ UploadOK(u) /\ RequestInv
        BY DEF SingleInv, TaskInv, TypeInv, TypeOK, JobRow
    <1>2. CASE PassDuplicateCheck(u)
        <2>1. \A v \in Uploads : Twins(u, v) => status[v] \notin BlockingStatus
            BY <1>2 DEF PassDuplicateCheck, Duplicates, Twins
        <2>2. /\ UNCHANGED <<status, job>> /\ api'[u] = "checked"
              /\ \A v \in Uploads \ {u} : api'[v] = api[v]
            BY <1>1, <1>2 DEF PassDuplicateCheck, ApiStep, rows
        <2>. QED
            BY <2>1, <2>2 DEF TwinInv, TwinsAreRetries, Twins, Retried
    <1>3. CASE InsertDocument(u)
        <2>1. /\ api[u] = "checked" /\ api'[u] = "enqueueing"
              /\ status'[u] = "uploaded"
              /\ \A v \in Uploads \ {u} :
                    api'[v] = api[v] /\ status'[v] = status[v] /\ job'[v] = job[v]
            BY <1>1, <1>3 DEF InsertDocument, ApiStep
        <2>2. \A v \in Uploads : Twins(u, v) \/ Twins(v, u) =>
                  /\ v # u /\ api[v] # "checked"
                  /\ status[v] \in BlockingStatus => Retried(v)
            BY <2>1 DEF TwinInv, Serial, Twins
        <2>3. \A v \in Uploads \ {u} : Retried(v)' <=> Retried(v)
            BY <2>1 DEF Retried
        <2>. QED
            BY <2>1, <2>2, <2>3 DEF TwinInv, TwinsAreRetries, Twins, BlockingStatus
    <1>4. CASE MarkEnqueueFailed(u)
        <2>1. /\ api'[u] = "unavailable" /\ status'[u] = "failed"
              /\ job'[u].attempts = job[u].attempts
              /\ \A v \in Uploads \ {u} :
                    api'[v] = api[v] /\ status'[v] = status[v] /\ job'[v] = job[v]
            BY <1>1, <1>4 DEF MarkEnqueueFailed, ApiStep, JobRow
        <2>. QED
            BY <1>1, <2>1, QuietTwins DEF TwinInv, BlockingStatus
    <1>5. CASE \/ RejectUpload(u) \/ StoreFile(u) \/ RejectDuplicate(u)
               \/ Dispatch(u) \/ DispatchRaises(u) \/ ApiCrash(u)
        <2>1. /\ UNCHANGED <<status, job>>
              /\ \A v \in Uploads \ {u} : api'[v] = api[v]
              /\ api'[u] # "checked"
              /\ api'[u] = "accepted" => status[u] = "uploaded"
            BY <1>1, <1>5 DEF RejectUpload, StoreFile, RejectDuplicate, Dispatch, DispatchRaises,
                ApiCrash, ApiStep, rows, UploadOK
        <2>. QED
            BY <1>1, <2>1, QuietTwins DEF TwinInv
    <1>. QED
        BY <1>2, <1>3, <1>4, <1>5 DEF Handle

LEMMA NextTwins ==
    ASSUME SingleInv, Serial, TwinInv, [Next]_vars
    PROVE  TwinInv'
    <1>1. ASSUME UNCHANGED <<api, status, job>>
          PROVE  TwinInv'
        BY <1>1 DEF TwinInv, TwinsAreRetries, Retried
    <1>. QED
        BY <1>1, WorkTwins, HandleTwins DEF Next, Pipeline, Rest, Cite, vars, rows, apiVars

\* "Rejects duplicate checksums within the same knowledge base" (README) is broken
\* in two ways only: by two requests that overlap between check and INSERT, and by
\* the retry of a document whose failure let its duplicate in.
THEOREM DuplicatesNeedOverlapOrRetry ==
    ASSUME NoCopies
    PROVE  Spec /\ []Serial => []TwinsAreRetries
    <1>1. TwinInv => TwinsAreRetries
        BY DEF TwinInv
    <1>. QED
        BY <1>1, InitTwins, NextTwins, SingleInvariance, PTL DEF Spec
=============================================================================
