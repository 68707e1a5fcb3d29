--------------------------- MODULE IngestionProofs ---------------------------
(* Proofs about Ingestion for every set of uploads, workers and faults.      *)
EXTENDS Ingestion, FiniteSetTheorems, TLAPS

-----------------------------------------------------------------------------
(* Type correctness *)

\* What a busy worker's record is made of.
LEMMA BusyRunFields ==
    ASSUME TypeOK, NEW w \in Workers, run[w].pc # "idle"
    PROVE  /\ run[w] \in BusyRun
           /\ run[w].pc \in BusyPc
           /\ run[w].task \in Message
           /\ Doc(w) \in Uploads
           /\ run[w].restored \in BOOLEAN
           /\ run[w].doc \in DocumentStatus
           /\ run[w].job \in JobRow
           /\ run[w].existing \in SUBSET Nat
           /\ run[w].deleting \in SUBSET Nat
    <1>1. run[w] \in {Idle} \cup BusyRun
        BY DEF TypeOK
    <1>2. run[w] \in BusyRun
        BY <1>1 DEF Idle
    <1>. QED
        BY <1>2 DEF BusyRun, Message, Doc

\* The unit of work's row is a row.
LEMMA FlushedJobType ==
    ASSUME NEW loaded \in JobRow, NEW assigned \in JobRow, NEW stored \in JobRow
    PROVE  FlushedJob(loaded, assigned, stored) \in JobRow
    BY DEF FlushedJob, Written, JobRow

\* Forgetting keeps the worker a worker.
LEMMA ForgetType ==
    ASSUME TypeOK, NEW w \in Workers, run[w].pc # "idle", NEW pc \in BusyPc, Forget(w, pc)
    PROVE  run' \in [Workers -> {Idle} \cup BusyRun]
    <1>1. /\ run[w].task \in Message
          /\ run[w].restored \in BOOLEAN
        BY BusyRunFields
    <1>2. NoJob \in JobRow /\ "absent" \in DocumentStatus
        BY DEF NoJob, JobRow, JobStatus, DocumentStatus
    <1>3. [pc |-> pc, task |-> run[w].task, restored |-> run[w].restored,
           doc |-> "absent", job |-> NoJob, existing |-> {}, deleting |-> {}] \in BusyRun
        BY <1>1, <1>2 DEF BusyRun
    <1>. QED
        BY <1>3 DEF Forget, TypeOK

LEMMA NoJobType == NoJob \in JobRow
    BY DEF NoJob, JobRow, JobStatus

LEMMA SendType ==
    ASSUME TypeOK, NEW m \in Message, Send(m)
    PROVE  queue' \in [Message -> Nat]
    BY DEF TypeOK, Send

LEMMA TouchType ==
    ASSUME TypeOK, NEW u \in Uploads, Touch(u)
    PROVE  version' \in [KnowledgeBases -> Nat]
    BY IngestionAssumption DEF TypeOK, Touch, IngestionAssumption

\* A request that still tries to reach the broker has an attempt left: what
\* keeps the number of attempts within its bound.
TypeInv ==
    /\ TypeOK
    /\ \A u \in Uploads : /\ api[u] \in {"new", "stored", "checked"} => tries[u] = 0
                          /\ api[u] = "enqueueing" => tries[u] < EnqueueAttempts

LEMMA InitType == Init => TypeInv
    BY IngestionAssumption
    DEF Init, TypeInv, TypeOK, ApiPc, DocumentStatus, JobRow, JobStatus, NoJob, IngestionAssumption

\* The request's steps: they never touch a worker.
LEMMA HandleType ==
    ASSUME TypeInv, NEW u \in Uploads, Handle(u) \/ ApiCrash(u)
    PROVE  TypeInv'
    <1>. USE DEF TypeInv, TypeOK, ApiStep, apiVars, rows
    <1>0. FirstTask(u) \in Message
        BY IngestionAssumption DEF FirstTask, Message, IngestionAssumption
    <1>1. CASE RejectUpload(u)
        BY <1>1 DEF RejectUpload, ApiPc, ApiDone
    <1>2. CASE StoreFile(u)
        BY <1>2 DEF StoreFile, ApiPc
    <1>3. CASE RejectDuplicate(u)
        BY <1>3 DEF RejectDuplicate, ApiPc, ApiDone
    <1>4. CASE PassDuplicateCheck(u)
        BY <1>4 DEF PassDuplicateCheck, ApiPc
    <1>5. CASE InsertDocument(u)
        <2>1. [NoJob EXCEPT !.status = "queued"] \in JobRow
            BY NoJobType DEF JobRow, JobStatus
        <2>2. job' \in [Uploads -> JobRow]
            BY <1>5, <2>1 DEF InsertDocument
        <2>3. version' \in [KnowledgeBases -> Nat]
            BY <1>5, TouchType DEF InsertDocument
        <2>. QED
            BY <1>5, <2>2, <2>3, IngestionAssumption
            DEF InsertDocument, ApiPc, DocumentStatus, IngestionAssumption
    <1>6. CASE Dispatch(u)
        BY <1>0, <1>6, SendType DEF Dispatch, ApiPc, ApiDone
    <1>7. CASE DispatchRaises(u)
        <2>1. queue' \in [Message -> Nat]
            BY <1>0, <1>7, SendType DEF DispatchRaises
        <2>2. /\ api[u] = "enqueueing" /\ tries[u] \in Nat /\ tries[u] < EnqueueAttempts
              /\ api' = [api EXCEPT ![u] = IF LastTry(u) THEN "enqueue_failed" ELSE "enqueueing"]
              /\ tries' = [tries EXCEPT ![u] = tries[u] + 1]
            BY <1>7 DEF DispatchRaises
        <2>3. tries' \in [Uploads -> 0..EnqueueAttempts]
            BY <2>2, IngestionAssumption DEF IngestionAssumption
        <2>4. api' \in [Uploads -> ApiPc]
            BY <2>2 DEF ApiPc
        <2>5. \A v \in Uploads :
                /\ api'[v] \in {"new", "stored", "checked"} => tries'[v] = 0
                /\ api'[v] = "enqueueing" => tries'[v] < EnqueueAttempts
            BY <2>2, IngestionAssumption DEF LastTry, IngestionAssumption
        <2>. QED
            BY <1>7, <2>1, <2>3, <2>4, <2>5 DEF DispatchRaises
    <1>8. CASE MarkEnqueueFailed(u)
        <2>1. [job[u] EXCEPT !.status = "failed", !.error = TRUE] \in JobRow
            BY DEF JobRow, JobStatus
        <2>2. job' \in [Uploads -> JobRow]
            BY <1>8, <2>1 DEF MarkEnqueueFailed
        <2>. QED
            BY <1>8, <2>2 DEF MarkEnqueueFailed, ApiPc, ApiDone, DocumentStatus
    <1>9. CASE ApiCrash(u)
        BY <1>9, IngestionAssumption DEF ApiCrash, Fault, ApiPc, ApiDone, IngestionAssumption
    <1>. QED
        BY <1>1, <1>2, <1>3, <1>4, <1>5, <1>6, <1>7, <1>8, <1>9 DEF Handle

\* The steps of a delivery, and what disturbs it: they never touch a request.
LEMMA WorkType ==
    ASSUME TypeInv, NEW w \in Workers, Work(w) \/ Disturb(w)
    PROVE  TypeInv'
    <1>. USE DEF TypeInv, apiVars, rows
    <1>. DEFINE d == Doc(w)
                NewRun(r) == run' = [run EXCEPT ![w] = r]
    <1>0. TypeOK
        OBVIOUS
    <1>a. ASSUME NEW r \in {Idle} \cup BusyRun, NewRun(r)
          PROVE  run' \in [Workers -> {Idle} \cup BusyRun]
        BY <1>a DEF TypeOK
    <1>b. ASSUME run[w].pc # "idle"
          PROVE  /\ d \in Uploads /\ run[w] \in BusyRun /\ run[w].task \in Message
                 /\ status[d] \in DocumentStatus /\ job[d] \in JobRow /\ chunks[d] \in SUBSET Nat
        BY <1>b, BusyRunFields DEF TypeOK
    <1>c. ASSUME UNCHANGED <<apiVars, rows, queue, faults>>,
                 run' \in [Workers -> {Idle} \cup BusyRun]
          PROVE  TypeInv'
        BY <1>c DEF TypeOK
    <1>d. ASSUME NEW kind, Fault(kind)
          PROVE  faults' \in 0..MaxFaults
        BY <1>d, IngestionAssumption DEF Fault, TypeOK, IngestionAssumption
    <1>1. ASSUME NEW m \in Message, Deliver(w, m)
          PROVE  TypeInv'
        <2>1. [pc |-> "loading", task |-> m, restored |-> FALSE, doc |-> "absent",
               job |-> NoJob, existing |-> {}, deleting |-> {}] \in BusyRun
            BY NoJobType DEF BusyRun, BusyPc, InRun, DocumentStatus
        <2>2. run' \in [Workers -> {Idle} \cup BusyRun]
            BY <1>1, <1>a, <2>1 DEF Deliver
        <2>3. queue' \in [Message -> Nat]
            BY <1>1 DEF Deliver, TypeOK
        <2>. QED
            BY <1>1, <2>2, <2>3 DEF Deliver, TypeOK
    <1>2. CASE LoadDocument(w)
        <2>1. NewRun([run[w] EXCEPT !.pc = "loading_job", !.doc = status[d]]) /\ run[w].pc # "idle"
            BY <1>2 DEF LoadDocument, At, TypeOK
        <2>2. [run[w] EXCEPT !.pc = "loading_job", !.doc = status[d]] \in BusyRun
            BY <1>b, <2>1 DEF BusyRun, BusyPc, InRun
        <2>. QED
            BY <1>2, <1>a, <1>c, <2>1, <2>2 DEF LoadDocument
    <1>3. CASE LoadJob(w)
        <2>0. run[w].pc # "idle"
            BY <1>3 DEF LoadJob, At
        <2>1. CASE Forget(w, "raised")
            BY <1>0, <1>3, <1>c, <2>0, <2>1, ForgetType DEF LoadJob, BusyPc
        <2>2. CASE run' = [run EXCEPT ![w].pc = "starting", ![w].job = job[d]]
            <3>1. [run[w] EXCEPT !.pc = "starting", !.job = job[d]] \in BusyRun
                BY <1>b, <2>0 DEF BusyRun, BusyPc, InRun
            <3>. QED
                BY <1>3, <1>a, <1>c, <2>2, <3>1 DEF LoadJob, TypeOK
        <2>. QED
            BY <1>3, <2>1, <2>2 DEF LoadJob
    <1>4. CASE CommitProcessing(w)
        <2>. DEFINE assigned == [status |-> "processing", attempts |-> run[w].job.attempts + 1,
                                 error |-> FALSE, finished |-> FALSE]
        <2>0. run[w].pc # "idle"
            BY <1>4 DEF CommitProcessing, At
        <2>1. run[w].job \in JobRow /\ assigned \in JobRow
            BY <2>0, <1>0, BusyRunFields DEF JobRow, JobStatus
        <2>2. [run[w] EXCEPT !.pc = "parsing", !.doc = "processing", !.job = assigned] \in BusyRun
            BY <1>b, <2>0, <2>1 DEF BusyRun, BusyPc, InRun, DocumentStatus
        <2>3. run' \in [Workers -> {Idle} \cup BusyRun]
            BY <1>4, <1>a, <2>2 DEF CommitProcessing, TypeOK
        <2>4. FlushedJob(run[w].job, assigned, job[d]) \in JobRow
            BY <1>b, <2>0, <2>1, FlushedJobType
        <2>5. job' \in [Uploads -> JobRow]
            BY <1>4, <2>4 DEF CommitProcessing, TypeOK
        <2>6. status' \in [Uploads -> DocumentStatus]
            BY <1>4, <1>b, <2>0 DEF CommitProcessing, TypeOK, Written, DocumentStatus
        <2>. QED
            BY <1>4, <2>3, <2>5, <2>6 DEF CommitProcessing, TypeOK
    <1>5. CASE SelectChunks(w)
        <2>1. NewRun([run[w] EXCEPT !.pc = "replacing", !.existing = chunks[d]]) /\ run[w].pc # "idle"
            BY <1>5 DEF SelectChunks, At, TypeOK
        <2>2. [run[w] EXCEPT !.pc = "replacing", !.existing = chunks[d]] \in BusyRun
            BY <1>b, <2>1 DEF BusyRun, BusyPc, InRun
        <2>. QED
            BY <1>5, <1>a, <1>c, <2>1, <2>2 DEF SelectChunks
    <1>6. CASE DeleteChunks(w)
        <2>. DEFINE r == [run[w] EXCEPT !.pc = "embedding", !.deleting = run[w].existing \cap chunks[d]]
        <2>1. NewRun(r) /\ run[w].pc # "idle"
            BY <1>6 DEF DeleteChunks, At, TypeOK
        <2>2. r \in BusyRun
            BY <1>b, <2>1 DEF BusyRun, BusyPc, InRun
        <2>. QED
            BY <1>6, <1>a, <1>c, <2>1, <2>2 DEF DeleteChunks
    <1>7. CASE DeleteCitedChunks(w) \/ Fail(w) \/ StatementFails(w)
        <2>1. Forget(w, "rolled_back") /\ run[w].pc # "idle"
            BY <1>7 DEF DeleteCitedChunks, Fail, StatementFails, At
        <2>2. run' \in [Workers -> {Idle} \cup BusyRun]
            BY <1>0, <2>1, ForgetType DEF BusyPc, InRun
        <2>. QED
            BY <1>7, <1>d, <2>2 DEF DeleteCitedChunks, Fail, StatementFails, TypeOK
    <1>8. CASE CommitReady(w)
        <2>. DEFINE assigned == [run[w].job EXCEPT !.status = "completed", !.finished = TRUE]
        <2>0. run[w].pc # "idle"
            BY <1>8 DEF CommitReady, At
        <2>1. run[w].job \in JobRow /\ assigned \in JobRow
            BY <2>0, <1>0, BusyRunFields DEF JobRow, JobStatus
        <2>2. run' \in [Workers -> {Idle} \cup BusyRun]
            BY <1>0, <1>8, <2>0, ForgetType DEF CommitReady, BusyPc
        <2>3. FlushedJob(run[w].job, assigned, job[d]) \in JobRow
            BY <1>b, <2>0, <2>1, FlushedJobType
        <2>4. job' \in [Uploads -> JobRow]
            BY <1>8, <2>3 DEF CommitReady, TypeOK
        <2>5. status' \in [Uploads -> DocumentStatus]
            BY <1>8, <1>b, <2>0 DEF CommitReady, TypeOK, Written, DocumentStatus
        <2>6. version' \in [KnowledgeBases -> Nat]
            BY <1>0, <1>8, <1>b, <2>0, TouchType DEF CommitReady
        <2>7. /\ chunks' \in [Uploads -> SUBSET Nat] /\ batches' \in [Uploads -> Nat]
              /\ cited' \in [Uploads -> SUBSET Nat]
            BY <1>8, <1>b, <2>0 DEF CommitReady, TypeOK
        <2>. QED
            BY <1>8, <2>2, <2>4, <2>5, <2>6, <2>7 DEF CommitReady, TypeOK
    <1>9. CASE ReloadDocument(w)
        <2>1. NewRun([run[w] EXCEPT !.pc = "reloading", !.doc = status[d]]) /\ run[w].pc # "idle"
            BY <1>9 DEF ReloadDocument, At, TypeOK
        <2>2. [run[w] EXCEPT !.pc = "reloading", !.doc = status[d]] \in BusyRun
            BY <1>b, <2>1 DEF BusyRun, BusyPc, InRun
        <2>. QED
            BY <1>9, <1>a, <1>c, <2>1, <2>2 DEF ReloadDocument
    <1>10. CASE ReloadJob(w)
        <2>1. NewRun([run[w] EXCEPT !.pc = "failing", !.job = job[d]]) /\ run[w].pc # "idle"
            BY <1>10 DEF ReloadJob, At, TypeOK
        <2>2. [run[w] EXCEPT !.pc = "failing", !.job = job[d]] \in BusyRun
            BY <1>b, <2>1 DEF BusyRun, BusyPc, InRun
        <2>. QED
            BY <1>10, <1>a, <1>c, <2>1, <2>2 DEF ReloadJob
    <1>11. CASE CommitFailed(w)
        <2>. DEFINE kept == [job[d] EXCEPT !.status = Written(run[w].job.status, "failed", @),
                                           !.finished = TRUE]
        <2>0. run[w].pc # "idle"
            BY <1>11 DEF CommitFailed, At
        <2>1. kept \in JobRow /\ [kept EXCEPT !.error = TRUE] \in JobRow
            BY <1>b, <2>0 DEF Written, JobRow, JobStatus
        <2>2. job' \in [Uploads -> JobRow]
            BY <1>11, <2>1 DEF CommitFailed, TypeOK
        <2>3. status' \in [Uploads -> DocumentStatus]
            BY <1>11, <1>b, <2>0 DEF CommitFailed, TypeOK, Written, DocumentStatus
        <2>4. version' \in [KnowledgeBases -> Nat]
            BY <1>0, <1>11, <1>b, <2>0, TouchType DEF CommitFailed
        <2>5. run' \in [Workers -> {Idle} \cup BusyRun]
            BY <1>0, <1>11, <2>0, ForgetType DEF CommitFailed, BusyPc
        <2>. QED
            BY <1>11, <2>2, <2>3, <2>4, <2>5 DEF CommitFailed, TypeOK
    <1>12. CASE PublishRetry(w)
        <2>0. run[w].pc # "idle"
            BY <1>12 DEF PublishRetry, At
        <2>1. RetryTask(run[w].task) \in Message
            BY <1>12, <1>b, <2>0, IngestionAssumption
            DEF PublishRetry, RetryTask, Message, IngestionAssumption
        <2>2. queue' \in [Message -> Nat]
            BY <1>0, <1>12, <2>1, SendType DEF PublishRetry
        <2>3. [run[w] EXCEPT !.pc = "acking"] \in BusyRun
            BY <1>b, <2>0 DEF BusyRun, BusyPc
        <2>4. run' \in [Workers -> {Idle} \cup BusyRun]
            BY <1>12, <1>a, <2>3 DEF PublishRetry, TypeOK
        <2>. QED
            BY <1>12, <2>2, <2>4 DEF PublishRetry, TypeOK
    <1>13. CASE GiveUp(w)
        <2>1. NewRun([run[w] EXCEPT !.pc = "acking"]) /\ run[w].pc # "idle"
            BY <1>13 DEF GiveUp, At, TypeOK
        <2>2. [run[w] EXCEPT !.pc = "acking"] \in BusyRun
            BY <1>b, <2>1 DEF BusyRun, BusyPc
        <2>. QED
            BY <1>13, <1>a, <1>c, <2>1, <2>2 DEF GiveUp
    <1>14. CASE Ack(w)
        BY <1>14, <1>a, <1>c DEF Ack
    <1>15. CASE SessionFails(w)
        <2>1. run' \in [Workers -> {Idle} \cup BusyRun]
            BY <1>0, <1>15, ForgetType DEF SessionFails, BusyPc
        <2>. QED
            BY <1>15, <1>d, <2>1 DEF SessionFails, TypeOK
    <1>16. CASE Crash(w) \/ ChildLost(w)
        <2>1. run' \in [Workers -> {Idle} \cup BusyRun]
            BY <1>16, <1>a DEF Crash, ChildLost
        <2>2. queue' \in [Message -> Nat]
            BY <1>0, <1>16, <1>b, SendType DEF Crash, ChildLost, At, TypeOK
        <2>. QED
            BY <1>16, <1>d, <2>1, <2>2 DEF Crash, ChildLost, TypeOK
    <1>17. CASE Redeliver(w)
        <2>0. run[w].pc # "idle"
            BY <1>17 DEF Redeliver, At
        <2>1. [run[w] EXCEPT !.restored = TRUE] \in BusyRun
            BY <1>b, <2>0 DEF BusyRun
        <2>2. run' \in [Workers -> {Idle} \cup BusyRun]
            BY <1>17, <1>a, <2>1 DEF Redeliver, TypeOK
        <2>3. queue' \in [Message -> Nat]
            BY <1>0, <1>17, <1>b, <2>0, SendType DEF Redeliver
        <2>. QED
            BY <1>17, <1>d, <2>2, <2>3 DEF Redeliver, TypeOK
    <1>18. CASE SelectCitations(w)
        <2>1. NewRun([run[w] EXCEPT !.pc = "looked"]) /\ run[w].pc # "idle"
            BY <1>18 DEF SelectCitations, At, TypeOK
        <2>2. [run[w] EXCEPT !.pc = "looked"] \in BusyRun
            BY <1>b, <2>1 DEF BusyRun, BusyPc, InRun
        <2>. QED
            BY <1>18, <1>a, <1>c, <2>1, <2>2 DEF SelectCitations
    <1>. QED
        BY <1>1, <1>2, <1>3, <1>4, <1>5, <1>6, <1>7, <1>8, <1>9, <1>10, <1>11, <1>12,
           <1>13, <1>14, <1>15, <1>16, <1>17, <1>18
        DEF Work, Disturb

\* A recorded citation changes nothing but the citations.
LEMMA CiteType ==
    ASSUME TypeInv, NEW S, Cite(S)
    PROVE  TypeInv'
    BY DEF TypeInv, TypeOK, Cite, apiVars

LEMMA NextType ==
    ASSUME TypeInv, [Next]_vars
    PROVE  TypeInv'
    <1>1. CASE UNCHANGED vars
        BY <1>1 DEF TypeInv, TypeOK, vars, apiVars, rows
    <1>2. CASE Next
        BY <1>1, <1>2, HandleType, WorkType, CiteType DEF Next, Pipeline, Rest
    <1>. QED
        BY <1>1, <1>2

\* Every variable keeps its type whatever faults occur; in particular a request
\* never calls the broker more often than the retry policy allows.
THEOREM TypeCorrect == Spec => []TypeOK
    <1>1. Spec => []TypeInv
        BY InitType, NextType, PTL DEF Spec
    <1>2. TypeInv => TypeOK
        BY DEF TypeInv
    <1>. QED
        BY <1>1, <1>2, PTL

-----------------------------------------------------------------------------
(* Frames: what each kind of step leaves alone *)

\* The worker's steps that only read.
Reads(w) ==
    \/ LoadDocument(w) \/ LoadJob(w) \/ SelectChunks(w) \/ SelectCitations(w) \/ DeleteChunks(w)
    \/ DeleteCitedChunks(w) \/ Fail(w) \/ ReloadDocument(w) \/ ReloadJob(w)
    \/ GiveUp(w) \/ StatementFails(w) \/ SessionFails(w)

\* A worker's step moves only its own control state, and the task it works on
\* stays the same until it takes one from the queue.
LEMMA RunFrame ==
    ASSUME TypeInv, NEW w \in Workers, Work(w) \/ Disturb(w)
    PROVE  /\ \A v \in Workers \ {w} : run'[v] = run[v]
           /\ run'[w].pc # "idle" =>
                  \/ run[w].pc # "idle" /\ run'[w].task = run[w].task
                  \/ \E m \in Message : queue[m] > 0 /\ run'[w].task = m
    <1>0. DOMAIN run = Workers /\ TypeOK
        BY DEF TypeInv, TypeOK
    <1>1. ASSUME NEW m \in Message, Deliver(w, m)
          PROVE  /\ \A v \in Workers \ {w} : run'[v] = run[v]
                 /\ queue[m] > 0 /\ run'[w].task = m
        BY <1>0, <1>1 DEF Deliver
    <1>2. CASE \/ Reads(w) \/ CommitProcessing(w) \/ CommitReady(w) \/ CommitFailed(w)
               \/ PublishRetry(w) \/ Redeliver(w)
        <2>1. run[w].pc # "idle"
            BY <1>2 DEF Reads, LoadDocument, LoadJob, SelectChunks, SelectCitations, DeleteChunks, DeleteCitedChunks,
                Fail, ReloadDocument, ReloadJob, GiveUp, StatementFails, SessionFails,
                CommitProcessing, CommitReady, CommitFailed, PublishRetry, Redeliver, At
        <2>2. DOMAIN run[w] = {"pc", "task", "restored", "doc", "job", "existing", "deleting"}
            BY <1>0, <2>1, BusyRunFields DEF BusyRun
        <2>3. ASSUME NEW pc, Forget(w, pc)
              PROVE  (\A v \in Workers \ {w} : run'[v] = run[v]) /\ run'[w].task = run[w].task
            BY <1>0, <2>3 DEF Forget
        <2>. USE <1>0, <2>1, <2>2, <2>3
        <2>4. CASE LoadDocument(w) \/ SelectChunks(w) \/ SelectCitations(w) \/ DeleteChunks(w)
            BY <2>4 DEF LoadDocument, SelectChunks, SelectCitations, DeleteChunks
        <2>5. CASE ReloadDocument(w) \/ ReloadJob(w) \/ GiveUp(w)
            BY <2>5 DEF ReloadDocument, ReloadJob, GiveUp
        <2>6. CASE LoadJob(w)
            BY <2>6 DEF LoadJob
        <2>7. CASE DeleteCitedChunks(w) \/ Fail(w) \/ StatementFails(w) \/ SessionFails(w)
            BY <2>7 DEF DeleteCitedChunks, Fail, StatementFails, SessionFails
        <2>8. CASE CommitProcessing(w)
            BY <2>8 DEF CommitProcessing
        <2>9. CASE CommitReady(w) \/ CommitFailed(w)
            BY <2>9 DEF CommitReady, CommitFailed
        <2>10. CASE PublishRetry(w) \/ Redeliver(w)
            BY <2>10 DEF PublishRetry, Redeliver
        <2>. QED
            BY <1>2, <2>4, <2>5, <2>6, <2>7, <2>8, <2>9, <2>10 DEF Reads
    <1>3. CASE Ack(w) \/ ChildLost(w) \/ Crash(w)
        BY <1>0, <1>3 DEF Ack, ChildLost, Crash, Idle
    <1>. QED
        BY <1>1, <1>2, <1>3 DEF Work, Disturb, Reads

\* A worker puts only copies of its own task, or its retry, on the queue.
LEMMA QueueFrame ==
    ASSUME TypeInv, NEW w \in Workers, Work(w) \/ Disturb(w), NEW m \in Message, queue'[m] > 0
    PROVE  queue[m] > 0 \/ (run[w].pc # "idle" /\ m.doc = Doc(w))
    <1>0. queue \in [Message -> Nat] /\ TypeOK
        BY DEF TypeInv, TypeOK
    <1>1. ASSUME NEW n \in Message, Send(n)
          PROVE  queue[m] > 0 \/ m = n
        BY <1>0, <1>1 DEF Send
    <1>2. ASSUME NEW n \in Message, Deliver(w, n)
          PROVE  queue[m] > 0
        BY <1>0, <1>2 DEF Deliver
    <1>3. CASE PublishRetry(w)
        <2>1. run[w].pc # "idle" /\ run[w].task \in Message
            BY <1>0, <1>3, BusyRunFields DEF PublishRetry, At
        <2>2. RetryTask(run[w].task) \in Message /\ RetryTask(run[w].task).doc = Doc(w)
            BY <1>3, <2>1, IngestionAssumption
            DEF PublishRetry, RetryTask, Message, Doc, IngestionAssumption
        <2>. QED
            BY <1>1, <1>3, <2>1, <2>2 DEF PublishRetry
    <1>4. CASE Crash(w) \/ Redeliver(w)
        <2>1. run[w].pc # "idle" /\ run[w].task \in Message
            BY <1>0, <1>4, BusyRunFields DEF Crash, Redeliver, At
        <2>. QED
            BY <1>1, <1>4, <2>1 DEF Crash, Redeliver, Doc
    <1>5. CASE \/ Reads(w) \/ CommitProcessing(w) \/ CommitReady(w) \/ CommitFailed(w)
               \/ Ack(w) \/ ChildLost(w)
        BY <1>5 DEF Reads, LoadDocument, LoadJob, SelectChunks, SelectCitations, DeleteChunks, DeleteCitedChunks,
            Fail, ReloadDocument, ReloadJob, GiveUp, StatementFails, SessionFails,
            CommitProcessing, CommitReady, CommitFailed, Ack, ChildLost
    <1>. QED
        BY <1>2, <1>3, <1>4, <1>5 DEF Work, Disturb, Reads

\* A worker's step that is not one of the three commits leaves every row alone.
LEMMA RowsFrame ==
    ASSUME NEW w \in Workers, Work(w) \/ Disturb(w)
    PROVE  \/ UNCHANGED <<apiVars, rows>>
           \/ CommitProcessing(w) \/ CommitReady(w) \/ CommitFailed(w)
    BY DEF Work, Disturb, Deliver, LoadDocument, LoadJob, SelectChunks, SelectCitations, DeleteChunks,
        DeleteCitedChunks, Fail, ReloadDocument, ReloadJob, PublishRetry, GiveUp, Ack,
        StatementFails, SessionFails, Crash, ChildLost, Redeliver

\* The commits write the rows of the worker's own document, and the status each
\* assigns lands there or what another session wrote stays.
LEMMA CommitFrame ==
    ASSUME TypeInv, NEW w \in Workers,
           CommitProcessing(w) \/ CommitReady(w) \/ CommitFailed(w)
    PROVE  /\ UNCHANGED <<apiVars, queue, faults>>
           /\ run[w].pc # "idle" /\ Doc(w) \in Uploads
           /\ \A u \in Uploads \ {Doc(w)} : status'[u] = status[u] /\ job'[u] = job[u]
           /\ status'[Doc(w)] \in {status[Doc(w)], "processing", "ready", "failed"}
           /\ job'[Doc(w)].status \in {job[Doc(w)].status, "processing", "completed", "failed"}
    <1>0. run[w].pc # "idle" /\ Doc(w) \in Uploads
        BY BusyRunFields DEF CommitProcessing, CommitReady, CommitFailed, At, TypeInv
    <1>1. /\ status \in [Uploads -> DocumentStatus] /\ job \in [Uploads -> JobRow]
          /\ run[w].job \in JobRow
        BY <1>0, BusyRunFields DEF TypeInv, TypeOK
    <1>2. CASE CommitProcessing(w)
        BY <1>0, <1>1, <1>2 DEF CommitProcessing, Written, FlushedJob
    <1>3. CASE CommitReady(w)
        <2>1. [run[w].job EXCEPT !.status = "completed", !.finished = TRUE].status = "completed"
            BY <1>1 DEF JobRow
        <2>. QED
            BY <1>0, <1>1, <1>3, <2>1 DEF CommitReady, Written, FlushedJob
    <1>4. CASE CommitFailed(w)
        <2>. DEFINE kept == [job[Doc(w)] EXCEPT !.status = Written(run[w].job.status, "failed", @),
                                                !.finished = TRUE]
        <2>1. /\ kept.status \in {job[Doc(w)].status, "failed"}
              /\ [kept EXCEPT !.error = TRUE].status = kept.status
            BY <1>0, <1>1 DEF Written, JobRow
        <2>2. /\ UNCHANGED <<apiVars, queue, faults>>
              /\ status' = [status EXCEPT ![Doc(w)] = Written(run[w].doc, "failed", @)]
              /\ \/ job' = [job EXCEPT ![Doc(w)] = [kept EXCEPT !.error = TRUE]]
                 \/ job' = [job EXCEPT ![Doc(w)] = kept]
            BY <1>4 DEF CommitFailed
        <2>3. job'[Doc(w)].status = kept.status /\ \A u \in Uploads \ {Doc(w)} : job'[u] = job[u]
            BY <1>0, <1>1, <2>1, <2>2
        <2>. QED
            BY <1>0, <1>1, <2>1, <2>2, <2>3 DEF Written
    <1>. QED
        BY <1>0, <1>2, <1>3, <1>4

-----------------------------------------------------------------------------
(* Tasks, rows and files *)

\* The upload handler stores the file, then the rows, then sends the task.
RequestInv ==
    \A u \in Uploads :
        /\ api[u] \in {"new", "stored", "checked", "rejected"} => status[u] = "absent"
        /\ api[u] \in {"enqueueing", "enqueue_failed", "accepted", "unavailable"}
              => status[u] # "absent"
        /\ api[u] \in {"stored", "checked"} => u \in files

TaskInv == TypeInv /\ RequestInv /\ TasksHaveRowsAndFiles

LEMMA InitTasks == Init => TaskInv
    BY InitType
    DEF TaskInv, RequestInv, TasksHaveRowsAndFiles, Init, At, Idle, NoJob, Message

LEMMA HandleTasks ==
    ASSUME TaskInv, NEW u \in Uploads, Handle(u) \/ ApiCrash(u)
    PROVE  TaskInv'
    <1>. USE DEF TaskInv, RequestInv, TasksHaveRowsAndFiles, ApiStep, apiVars, rows
    <1>0. TypeInv' /\ TypeInv
        BY HandleType
    <1>a. /\ api \in [Uploads -> ApiPc] /\ status \in [Uploads -> DocumentStatus]
          /\ job \in [Uploads -> JobRow] /\ queue \in [Message -> Nat]
        BY DEF TypeInv, TypeOK
    <1>b. ASSUME UNCHANGED run
          PROVE  \A w \in Workers : (At(w, "idle") <=> At(w, "idle")') /\ Doc(w)' = Doc(w)
        BY <1>b DEF At, Doc
    <1>c. FirstTask(u) \in Message /\ FirstTask(u).doc = u
        BY IngestionAssumption DEF FirstTask, Message, IngestionAssumption
    <1>1. CASE RejectUpload(u) \/ StoreFile(u)
        BY <1>0, <1>a, <1>b, <1>1 DEF RejectUpload, StoreFile
    <1>2. CASE RejectDuplicate(u) \/ PassDuplicateCheck(u)
        BY <1>0, <1>a, <1>b, <1>2 DEF RejectDuplicate, PassDuplicateCheck
    <1>3. CASE InsertDocument(u)
        <2>1. [NoJob EXCEPT !.status = "queued"].status = "queued"
            BY DEF NoJob
        <2>. QED
            BY <1>0, <1>a, <1>b, <1>3, <2>1 DEF InsertDocument
    <1>4. CASE Dispatch(u) \/ DispatchRaises(u)
        <2>1. \A m \in Message : queue'[m] > 0 => queue[m] > 0 \/ m = FirstTask(u)
            BY <1>a, <1>4 DEF Dispatch, DispatchRaises, Send
        <2>. QED
            BY <1>0, <1>a, <1>b, <1>c, <1>4, <2>1 DEF Dispatch, DispatchRaises
    <1>5. CASE MarkEnqueueFailed(u)
        <2>1. job'[u].status = "failed" /\ \A v \in Uploads \ {u} : job'[v] = job[v]
            BY <1>a, <1>5 DEF MarkEnqueueFailed, JobRow
        <2>. QED
            BY <1>0, <1>a, <1>b, <1>5, <2>1 DEF MarkEnqueueFailed
    <1>6. CASE ApiCrash(u)
        BY <1>0, <1>a, <1>b, <1>6 DEF ApiCrash
    <1>. QED
        BY <1>1, <1>2, <1>3, <1>4, <1>5, <1>6 DEF Handle

LEMMA WorkTasks ==
    ASSUME TaskInv, NEW w \in Workers, Work(w) \/ Disturb(w)
    PROVE  TaskInv'
    <1>0. TypeInv /\ TypeInv'
        BY WorkType DEF TaskInv
    <1>1. run[w].pc # "idle" => Doc(w) \in Uploads /\ status[Doc(w)] # "absent"
        BY <1>0, BusyRunFields DEF TaskInv, TasksHaveRowsAndFiles, TypeInv, At
    <1>2. UNCHANGED apiVars
        BY <1>0, RowsFrame, CommitFrame
    <1>3. \A u \in Uploads : /\ status[u] = "absent" => status'[u] = "absent"
                             /\ status[u] # "absent" => status'[u] # "absent"
                             /\ job[u].status # "absent" => job'[u].status # "absent"
        <2>1. CASE UNCHANGED <<apiVars, rows>>
            BY <2>1 DEF rows
        <2>2. CASE CommitProcessing(w) \/ CommitReady(w) \/ CommitFailed(w)
            BY <1>0, <1>1, <2>2, CommitFrame
        <2>. QED
            BY <2>1, <2>2, RowsFrame
    <1>4. RequestInv'
        BY <1>2, <1>3 DEF TaskInv, RequestInv, apiVars
    <1>5. \A m \in Message : queue'[m] > 0 => status'[m.doc] # "absent"
        <2>. SUFFICES ASSUME NEW m \in Message, queue'[m] > 0
                      PROVE  status'[m.doc] # "absent"
            OBVIOUS
        <2>1. m.doc \in Uploads
            BY DEF Message
        <2>2. queue[m] > 0 \/ (run[w].pc # "idle" /\ m.doc = Doc(w))
            BY <1>0, QueueFrame
        <2>. QED
            BY <1>1, <1>3, <2>1, <2>2 DEF TaskInv, TasksHaveRowsAndFiles
    <1>6. \A v \in Workers : ~At(v, "idle")' => status'[Doc(v)'] # "absent"
        <2>. SUFFICES ASSUME NEW v \in Workers, run'[v].pc # "idle"
                      PROVE  status'[run'[v].task.doc] # "absent"
            BY DEF At, Doc
        <2>1. CASE v # w
            <3>1. run'[v] = run[v]
                BY <1>0, <2>1, RunFrame
            <3>2. Doc(v) \in Uploads /\ status[Doc(v)] # "absent"
                BY <1>0, <3>1, BusyRunFields DEF TaskInv, TasksHaveRowsAndFiles, TypeInv, At
            <3>. QED
                BY <1>3, <3>1, <3>2 DEF Doc
        <2>2. CASE v = w
            <3>1. \/ run[w].pc # "idle" /\ run'[w].task = run[w].task
                  \/ \E m \in Message : queue[m] > 0 /\ run'[w].task = m
                BY <1>0, <2>2, RunFrame
            <3>2. ASSUME NEW m \in Message, queue[m] > 0
                  PROVE  m.doc \in Uploads /\ status[m.doc] # "absent"
                BY <3>2 DEF TaskInv, TasksHaveRowsAndFiles, Message
            <3>. QED
                BY <1>1, <1>3, <2>2, <3>1, <3>2 DEF Doc
        <2>. QED
            BY <2>1, <2>2
    <1>7. \A u \in Uploads : /\ status'[u] # "absent" => u \in files' /\ job'[u].status # "absent"
                             /\ u \in files' /\ status'[u] = "absent"
                                  => api'[u] \in {"stored", "checked", "crashed"}
        BY <1>2, <1>3 DEF TaskInv, TasksHaveRowsAndFiles, apiVars
    <1>. QED
        BY <1>0, <1>4, <1>5, <1>6, <1>7 DEF TaskInv, TasksHaveRowsAndFiles

LEMMA NextTasks ==
    ASSUME TaskInv, [Next]_vars
    PROVE  TaskInv'
    <1>1. CASE UNCHANGED vars
        BY <1>1, NextType
        DEF TaskInv, RequestInv, TasksHaveRowsAndFiles, At, Doc, vars, apiVars, rows
    <1>2. ASSUME NEW S, Cite(S)
          PROVE  TaskInv'
        BY <1>2, CiteType DEF TaskInv, RequestInv, TasksHaveRowsAndFiles, Cite, At, Doc, apiVars
    <1>. QED
        BY <1>1, <1>2, HandleTasks, WorkTasks DEF Next, Pipeline, Rest

\* A task on the queue or with a worker always finds its rows and its file, so
\* NotFoundError never ends one, however tasks are repeated, restored or lost.
THEOREM TasksAreDeliverable == Spec => []TasksHaveRowsAndFiles
    <1>1. TaskInv => TasksHaveRowsAndFiles
        BY DEF TaskInv
    <1>. QED
        BY <1>1, InitTasks, NextTasks, PTL DEF Spec

-----------------------------------------------------------------------------
(* Chunks, citations and the cache key *)

\* A run deletes what it has selected.
DeletionInv ==
    \A w \in Workers : run[w].pc = "embedding" => run[w].deleting \subseteq run[w].existing

\* A citation resolves to a chunk: the INSERT of one finds its chunk, and the
\* DELETE of a chunk takes its citations along.
CitationsResolve == \A u \in Uploads : cited[u] \subseteq chunks[u]

ChunkInv == TypeInv /\ DeletionInv /\ ReadyHasChunks /\ CitationsResolve

LEMMA InitChunks == Init => ChunkInv
    BY InitType DEF ChunkInv, DeletionInv, ReadyHasChunks, CitationsResolve, Init, Idle

\* A run comes to the deletion of its chunks only by looking for their citations.
LEMMA FlushFrame ==
    ASSUME TypeInv, NEW w \in Workers, Work(w) \/ Disturb(w), run'[w].pc \in {"looked", "embedding"}
    PROVE  /\ run'[w].task = run[w].task /\ run'[w].existing = run[w].existing
           /\ \/ run[w].pc \in {"looked", "embedding"}
              \/ run[w].pc = "replacing" /\ CitedExisting(w) = {}
           /\ run'[w].pc = "embedding" =>
                  \/ run[w].pc = "embedding" /\ run'[w].deleting = run[w].deleting
                  \/ run'[w].deleting \subseteq run[w].existing
    <1>0. DOMAIN run = Workers /\ TypeOK
        BY DEF TypeInv, TypeOK
    <1>1. CASE (\E m \in Message : Deliver(w, m)) \/ Ack(w) \/ ChildLost(w) \/ Crash(w)
        BY <1>0, <1>1 DEF Deliver, Ack, ChildLost, Crash, Idle
    <1>2. CASE \/ DeleteCitedChunks(w) \/ Fail(w) \/ StatementFails(w)
               \/ SessionFails(w) \/ CommitReady(w) \/ CommitFailed(w)
        BY <1>0, <1>2
        DEF DeleteCitedChunks, Fail, StatementFails, SessionFails, CommitReady, CommitFailed, Forget
    <1>3. CASE \/ LoadDocument(w) \/ LoadJob(w) \/ SelectChunks(w) \/ SelectCitations(w)
               \/ DeleteChunks(w) \/ ReloadDocument(w) \/ ReloadJob(w) \/ GiveUp(w)
               \/ CommitProcessing(w) \/ PublishRetry(w) \/ Redeliver(w)
        <2>1. run[w].pc # "idle"
            BY <1>3 DEF LoadDocument, LoadJob, SelectChunks, SelectCitations, DeleteChunks,
                ReloadDocument, ReloadJob, GiveUp, CommitProcessing, PublishRetry, Redeliver, At
        <2>2. DOMAIN run[w] = {"pc", "task", "restored", "doc", "job", "existing", "deleting"}
            BY <1>0, <2>1, BusyRunFields DEF BusyRun
        <2>. USE <1>0, <2>1, <2>2
        <2>3. CASE LoadDocument(w) \/ SelectChunks(w) \/ ReloadDocument(w)
            BY <2>3 DEF LoadDocument, SelectChunks, ReloadDocument
        <2>4. CASE ReloadJob(w) \/ GiveUp(w) \/ PublishRetry(w)
            BY <2>4 DEF ReloadJob, GiveUp, PublishRetry
        <2>5. CASE CommitProcessing(w)
            BY <2>5 DEF CommitProcessing
        <2>6. CASE LoadJob(w)
            BY <2>6 DEF LoadJob, Forget
        <2>7. CASE SelectCitations(w)
            BY <2>7 DEF SelectCitations, At
        <2>8. CASE DeleteChunks(w)
            BY <2>8 DEF DeleteChunks, At
        <2>9. CASE Redeliver(w)
            BY <2>9 DEF Redeliver
        <2>. QED
            BY <1>3, <2>3, <2>4, <2>5, <2>6, <2>7, <2>8, <2>9
    <1>. QED
        BY <1>1, <1>2, <1>3 DEF Work, Disturb

\* Publication takes away what the run deleted, citations included, and adds a
\* batch of its own.
LEMMA PublicationFrame ==
    ASSUME TypeInv, NEW w \in Workers, CommitReady(w)
    PROVE  /\ run[w].pc = "embedding" /\ Doc(w) \in Uploads
           /\ ContentOf[Doc(w)] \in HasText
           /\ chunks'[Doc(w)] = (chunks[Doc(w)] \ run[w].deleting) \cup {batches[Doc(w)]}
           /\ cited'[Doc(w)] = cited[Doc(w)] \ run[w].deleting
           /\ \A u \in Uploads \ {Doc(w)} : chunks'[u] = chunks[u] /\ cited'[u] = cited[u]
           /\ KbOf[Doc(w)] \in KnowledgeBases
           /\ version' = [version EXCEPT ![KbOf[Doc(w)]] = @ + 1]
    <1>1. run[w].pc = "embedding" /\ Doc(w) \in Uploads
        BY BusyRunFields DEF CommitReady, At, TypeInv
    <1>. QED
        BY <1>1, IngestionAssumption DEF CommitReady, Touch, TypeInv, TypeOK, IngestionAssumption

\* What a step of the pipeline does to the citations that are there.
Keeps(u, b) == b \in cited'[u] /\ b \in chunks'[u] /\ ~Looked(u, b)'

LEMMA HandleChunks ==
    ASSUME ChunkInv, NEW u \in Uploads, Handle(u) \/ ApiCrash(u)
    PROVE  /\ ChunkInv' /\ UNCHANGED <<chunks, cited, run>>
           /\ \A v \in Uploads : status'[v] = "ready" => status[v] = "ready" /\ chunks'[v] = chunks[v]
    <1>1. TypeInv' /\ TypeInv
        BY HandleType DEF ChunkInv
    <1>2. /\ UNCHANGED <<chunks, cited, run>>
          /\ \/ UNCHANGED status
             \/ status' = [status EXCEPT ![u] = "uploaded"]
             \/ status' = [status EXCEPT ![u] = "failed"]
        BY DEF Handle, RejectUpload, StoreFile, RejectDuplicate, PassDuplicateCheck, InsertDocument,
            Dispatch, DispatchRaises, MarkEnqueueFailed, ApiCrash, rows
    <1>3. \A v \in Uploads : status'[v] = "ready" => status[v] = "ready"
        BY <1>1, <1>2 DEF TypeInv, TypeOK
    <1>. QED
        BY <1>1, <1>2, <1>3 DEF ChunkInv, DeletionInv, ReadyHasChunks, CitationsResolve

\* A run that had not looked for a citation's chunk before finds the citation.
LEMMA LooksLater ==
    ASSUME ChunkInv, NEW w \in Workers, Work(w) \/ Disturb(w),
           NEW u \in Uploads, NEW b \in cited[u], ~Looked(u, b)
    PROVE  ~Looked(u, b)'
    <1>. SUFFICES ASSUME NEW v \in Workers, run'[v].pc \in {"looked", "embedding"},
                         run'[v].task.doc = u, b \in run'[v].existing
                  PROVE  FALSE
        BY DEF Looked, Doc
    <1>0. TypeInv
        BY DEF ChunkInv
    <1>1. CASE v # w
        <2>1. run'[v] = run[v]
            BY <1>0, <1>1, RunFrame
        <2>. QED
            BY <2>1 DEF Looked, Doc
    <1>2. CASE v = w
        <2>1. /\ run'[w].task = run[w].task /\ run'[w].existing = run[w].existing
              /\ \/ run[w].pc \in {"looked", "embedding"}
                 \/ run[w].pc = "replacing" /\ CitedExisting(w) = {}
            BY <1>0, <1>2, FlushFrame
        <2>2. Doc(w) = u /\ b \in run[w].existing
            BY <1>2, <2>1 DEF Doc
        <2>. QED
            BY <2>1, <2>2 DEF Looked, CitedExisting
    <1>. QED
        BY <1>1, <1>2

LEMMA WorkChunks ==
    ASSUME ChunkInv, NEW w \in Workers, Work(w) \/ Disturb(w)
    PROVE  /\ ChunkInv'
           /\ \A u \in Uploads :
                 status'[u] = "ready" /\ (status[u] # "ready" \/ chunks'[u] # chunks[u])
                   => version'[KbOf[u]] # version[KbOf[u]]
           /\ \A u \in Uploads : \A b \in cited[u] : ~Looked(u, b) => Keeps(u, b)
    <1>0. /\ TypeInv /\ TypeInv' /\ CitationsResolve
          /\ chunks \in [Uploads -> SUBSET Nat] /\ status \in [Uploads -> DocumentStatus]
          /\ version \in [KnowledgeBases -> Nat] /\ batches \in [Uploads -> Nat]
        BY WorkType DEF ChunkInv, TypeInv, TypeOK
    <1>2. DeletionInv'
        <2>. SUFFICES ASSUME NEW v \in Workers, run'[v].pc = "embedding"
                      PROVE  run'[v].deleting \subseteq run'[v].existing
            BY DEF DeletionInv
        <2>1. CASE v # w
            BY <1>0, <2>1, RunFrame DEF ChunkInv, DeletionInv
        <2>2. CASE v = w
            BY <1>0, <2>2, FlushFrame DEF ChunkInv, DeletionInv
        <2>. QED
            BY <2>1, <2>2
    <1>3. CASE CommitReady(w)
        <2>1. run[w].pc = "embedding" /\ run[w].deleting \subseteq run[w].existing
            BY <1>0, <1>3, PublicationFrame DEF ChunkInv, DeletionInv
        <2>2. CitationsResolve'
            BY <1>0, <1>3, PublicationFrame DEF CitationsResolve
        <2>3. \A u \in Uploads \ {Doc(w)} : status'[u] = status[u]
            BY <1>0, <1>3, CommitFrame
        <2>4. ReadyHasChunks'
            BY <1>0, <1>3, <2>3, PublicationFrame DEF ChunkInv, ReadyHasChunks
        <2>5. version'[KbOf[Doc(w)]] # version[KbOf[Doc(w)]]
            BY <1>0, <1>3, PublicationFrame
        <2>6. ASSUME NEW u \in Uploads, NEW b \in cited[u], ~Looked(u, b)
              PROVE  Keeps(u, b)
            <3>1. u = Doc(w) => b \notin run[w].deleting
                BY <2>1, <2>6 DEF Looked
            <3>2. b \in cited'[u] /\ b \in chunks'[u]
                BY <1>0, <1>3, <3>1, PublicationFrame DEF CitationsResolve
            <3>. QED
                BY <2>6, <3>2, LooksLater DEF Keeps
        <2>. QED
            BY <1>0, <1>2, <1>3, <2>2, <2>3, <2>4, <2>5, <2>6, PublicationFrame DEF ChunkInv
    <1>4. CASE ~CommitReady(w)
        <2>1. UNCHANGED <<chunks, cited>>
            BY <1>4, RowsFrame DEF CommitProcessing, CommitFailed, rows
        <2>2. \A u \in Uploads : status'[u] = "ready" => status[u] = "ready"
            <3>1. CASE UNCHANGED <<apiVars, rows>>
                BY <3>1 DEF rows
            <3>2. CASE CommitProcessing(w) \/ CommitFailed(w)
                <4>1. Doc(w) \in Uploads
                    BY <1>0, <3>2, CommitFrame
                <4>. QED
                    BY <1>0, <3>2, <4>1 DEF CommitProcessing, CommitFailed, Written
            <3>. QED
                BY <1>4, <3>1, <3>2, RowsFrame
        <2>3. \A u \in Uploads : \A b \in cited[u] : ~Looked(u, b) => Keeps(u, b)
            BY <1>0, <2>1, LooksLater DEF Keeps, CitationsResolve
        <2>. QED
            BY <1>0, <1>2, <2>1, <2>2, <2>3 DEF ChunkInv, ReadyHasChunks, CitationsResolve
    <1>. QED
        BY <1>3, <1>4

LEMMA CiteChunks ==
    ASSUME ChunkInv, NEW S, Cite(S)
    PROVE  /\ ChunkInv' /\ UNCHANGED <<status, chunks, run>>
           /\ \A u \in Uploads : cited[u] \subseteq cited'[u]
    <1>0. TypeInv' /\ cited \in [Uploads -> SUBSET Nat]
        BY CiteType DEF ChunkInv, TypeInv, TypeOK
    <1>1. DeletionInv'
        BY DEF ChunkInv, DeletionInv, Cite
    <1>2. CitationsResolve'
        BY <1>0 DEF ChunkInv, CitationsResolve, Cite
    <1>3. ReadyHasChunks'
        BY DEF ChunkInv, ReadyHasChunks, Cite
    <1>. QED
        BY <1>0, <1>1, <1>2, <1>3 DEF ChunkInv, Cite

\* One step: the invariant again, a new cache key with new content, and every
\* citation kept that no run has passed by.
LEMMA NextChunks ==
    ASSUME ChunkInv, [Next]_vars
    PROVE  /\ ChunkInv'
           /\ \A u \in Uploads :
                 status'[u] = "ready" /\ (status[u] # "ready" \/ chunks'[u] # chunks[u])
                   => version'[KbOf[u]] # version[KbOf[u]]
           /\ \A u \in Uploads : \A b \in cited[u] : ~Looked(u, b) => Keeps(u, b)
    <1>0. CitationsResolve
        BY DEF ChunkInv
    <1>a. ASSUME UNCHANGED <<chunks, run>>, \A u \in Uploads : cited[u] \subseteq cited'[u]
          PROVE  \A u \in Uploads : \A b \in cited[u] : ~Looked(u, b) => Keeps(u, b)
        BY <1>0, <1>a DEF Keeps, Looked, Doc, CitationsResolve
    <1>1. CASE UNCHANGED vars
        <2>1. ChunkInv'
            BY <1>1, NextType DEF ChunkInv, DeletionInv, ReadyHasChunks, CitationsResolve, vars, rows
        <2>. QED
            BY <1>1, <1>a, <2>1 DEF vars, rows
    <1>2. ASSUME NEW u \in Uploads, Handle(u) \/ ApiCrash(u)
          PROVE  /\ ChunkInv' /\ UNCHANGED <<chunks, cited, run>>
                 /\ \A v \in Uploads : status'[v] = "ready" => status[v] = "ready" /\ chunks'[v] = chunks[v]
        BY <1>2, HandleChunks
    <1>3. ASSUME NEW S, Cite(S)
          PROVE  /\ ChunkInv' /\ UNCHANGED <<status, chunks, run>>
                 /\ \A u \in Uploads : cited[u] \subseteq cited'[u]
        BY <1>3, CiteChunks
    <1>. QED
        BY <1>1, <1>2, <1>3, <1>a, WorkChunks DEF Next, Pipeline, Rest

\* Whatever overlaps, a document that reads "ready" has text and chunks.
THEOREM ReadyIsSearchable == Spec => []ReadyHasChunks
    <1>1. ChunkInv => ReadyHasChunks
        BY DEF ChunkInv
    <1>. QED
        BY <1>1, InitChunks, NextChunks, PTL DEF Spec

\* Whatever overlaps, crashes or is re-sent, a citation recorded before any run
\* has looked for citations of its chunk keeps its chunk for ever; no later
\* re-ingestion takes it away.
THEOREM EarlyCitationsAreKept == Spec => CitationsAreKept
    <1>1. ChunkInv /\ [Next]_vars =>
            [\A u \in Uploads : \A b \in cited[u] :
                ~Looked(u, b) => b \in cited'[u] /\ b \in chunks'[u] /\ ~Looked(u, b)']_vars
        BY NextChunks DEF Keeps
    <1>2. ChunkInv /\ [Next]_vars => ChunkInv'
        BY NextChunks
    <1>. QED
        BY <1>1, <1>2, InitChunks, PTL DEF Spec, CitationsAreKept

\* A cached answer cannot hide a publication: its key is out of date.
THEOREM PublicationInvalidatesCache == Spec => NewContentInvalidatesCache
    <1>1. ChunkInv /\ [Next]_vars =>
            [\A u \in Uploads :
                status'[u] = "ready" /\ (status[u] # "ready" \/ chunks'[u] # chunks[u])
                  => version'[KbOf[u]] # version[KbOf[u]]]_vars
        BY NextChunks
    <1>2. ChunkInv /\ [Next]_vars => ChunkInv'
        BY NextChunks
    <1>. QED
        BY <1>1, <1>2, InitChunks, PTL DEF Spec, NewContentInvalidatesCache

-----------------------------------------------------------------------------
(* Sets of chunks *)

\* A worker that owns a batch of the document it works on is about to delete it.
Replaces(w, u, b) ==
    run[w].pc # "idle" /\ Doc(w) = u =>
        /\ run[w].pc \in {"replacing", "looked"} => b \in run[w].existing
        /\ run[w].pc = "embedding" => b \in run[w].deleting

\* Each batch of a document has a worker of its own, the one that published it.
Owners(u) ==
    {f \in [chunks[u] -> Workers] :
        /\ \A b, c \in chunks[u] : f[b] = f[c] => b = c
        /\ \A b \in chunks[u] : Replaces(f[b], u, b)}

OwnedInv == TypeInv /\ \A u \in Uploads : Owners(u) # {}

LEMMA InitOwned == Init => OwnedInv
    <1>. SUFFICES ASSUME Init, NEW u \in Uploads PROVE Owners(u) # {}
        BY InitType DEF OwnedInv
    <1>1. chunks[u] = {} /\ [b \in {} |-> b] \in [chunks[u] -> Workers]
        BY DEF Init
    <1>2. [b \in {} |-> b] \in Owners(u)
        BY <1>1 DEF Owners
    <1>. QED
        BY <1>2

\* A step of a worker that leaves its batches in place keeps what is said of
\* them: SelectChunks finds them, the flush of DeleteChunks takes them.
LEMMA ReplacesStep ==
    ASSUME TypeInv, NEW w \in Workers, Work(w) \/ Disturb(w), ~CommitReady(w),
           NEW v \in Workers, NEW u \in Uploads, NEW b \in chunks[u], Replaces(v, u, b)
    PROVE  Replaces(v, u, b)'
    <1>0. DOMAIN run = Workers /\ TypeOK
        BY DEF TypeInv, TypeOK
    <1>1. CASE v # w
        BY <1>1, RunFrame DEF Replaces, Doc
    <1>2. CASE v = w
        <2>1. ASSUME NEW pc, Forget(w, pc), pc \notin {"replacing", "looked", "embedding"}
              PROVE  run'[w].pc \notin {"replacing", "looked", "embedding"}
            BY <1>0, <2>1 DEF Forget
        <2>2. CASE \/ LoadJob(w) \/ DeleteCitedChunks(w) \/ Fail(w) \/ StatementFails(w)
                   \/ SessionFails(w) \/ CommitFailed(w)
            <3>1. CASE LoadJob(w)
                <4>1. run[w].pc # "idle"
                    BY <3>1 DEF LoadJob, At
                <4>2. DOMAIN run[w] = {"pc", "task", "restored", "doc", "job", "existing", "deleting"}
                    BY <1>0, <4>1, BusyRunFields DEF BusyRun
                <4>3. run'[w].pc \notin {"replacing", "looked", "embedding"}
                    BY <1>0, <2>1, <3>1, <4>1, <4>2 DEF LoadJob
                <4>. QED
                    BY <1>2, <4>3 DEF Replaces
            <3>2. CASE ~LoadJob(w)
                <4>1. run'[w].pc \notin {"replacing", "looked", "embedding"}
                    BY <2>1, <2>2, <3>2
                    DEF DeleteCitedChunks, Fail, StatementFails, SessionFails, CommitFailed
                <4>. QED
                    BY <1>2, <4>1 DEF Replaces
            <3>. QED
                BY <3>1, <3>2
        <2>3. CASE (\E m \in Message : Deliver(w, m)) \/ Ack(w) \/ ChildLost(w) \/ Crash(w)
            <3>1. run'[w].pc \notin {"replacing", "looked", "embedding"}
                BY <1>0, <2>3 DEF Deliver, Ack, ChildLost, Crash, Idle
            <3>. QED
                BY <1>2, <3>1 DEF Replaces
        <2>4. CASE \/ LoadDocument(w) \/ SelectChunks(w) \/ SelectCitations(w) \/ DeleteChunks(w)
                   \/ ReloadDocument(w) \/ ReloadJob(w) \/ GiveUp(w) \/ CommitProcessing(w) \/ PublishRetry(w) \/ Redeliver(w)
            <3>1. run[w].pc # "idle"
                BY <2>4 DEF LoadDocument, SelectChunks, SelectCitations, DeleteChunks, ReloadDocument, ReloadJob, GiveUp,
                    CommitProcessing, PublishRetry, Redeliver, At
            <3>2. DOMAIN run[w] = {"pc", "task", "restored", "doc", "job", "existing", "deleting"}
                BY <1>0, <3>1, BusyRunFields DEF BusyRun
            <3>3. CASE \/ LoadDocument(w) \/ ReloadDocument(w) \/ ReloadJob(w) \/ GiveUp(w)
                       \/ CommitProcessing(w) \/ PublishRetry(w)
                <4>1. run'[w].pc \notin {"replacing", "looked", "embedding"}
                    BY <1>0, <3>1, <3>2, <3>3
                    DEF LoadDocument, ReloadDocument, ReloadJob, GiveUp, CommitProcessing, PublishRetry
                <4>. QED
                    BY <1>2, <4>1 DEF Replaces
            <3>4. CASE SelectChunks(w)
                <4>1. run'[w].pc = "replacing" /\ run'[w].task = run[w].task
                      /\ run'[w].existing = chunks[Doc(w)]
                    BY <1>0, <3>1, <3>2, <3>4 DEF SelectChunks
                <4>. QED
                    BY <1>2, <4>1 DEF Replaces, Doc
            <3>5. CASE DeleteChunks(w)
                <4>1. run'[w].pc = "embedding" /\ run'[w].task = run[w].task
                      /\ run'[w].deleting = run[w].existing \cap chunks[Doc(w)]
                      /\ run[w].pc = "looked"
                    BY <1>0, <3>1, <3>2, <3>5 DEF DeleteChunks, At
                <4>. QED
                    BY <1>2, <3>1, <4>1 DEF Replaces, Doc
            <3>7. CASE SelectCitations(w)
                <4>1. /\ run[w].pc = "replacing" /\ run'[w].pc = "looked"
                      /\ run'[w].task = run[w].task /\ run'[w].existing = run[w].existing
                    BY <1>0, <3>1, <3>2, <3>7 DEF SelectCitations, At
                <4>. QED
                    BY <1>2, <3>1, <4>1 DEF Replaces, Doc
            <3>6. CASE Redeliver(w)
                <4>1. /\ run'[w].pc = run[w].pc /\ run'[w].task = run[w].task
                      /\ run'[w].existing = run[w].existing /\ run'[w].deleting = run[w].deleting
                    BY <1>0, <3>1, <3>2, <3>6 DEF Redeliver
                <4>. QED
                    BY <1>2, <4>1 DEF Replaces, Doc
            <3>. QED
                BY <2>4, <3>3, <3>4, <3>5, <3>6, <3>7
        <2>. QED
            BY <2>2, <2>3, <2>4 DEF Work, Disturb
    <1>. QED
        BY <1>1, <1>2

\* A publication takes the batch its worker owned and gives it the new one.
LEMMA PublicationOwned ==
    ASSUME OwnedInv, NEW w \in Workers, CommitReady(w), NEW u \in Uploads
    PROVE  Owners(u)' # {}
    <1>0. TypeInv /\ TypeOK /\ DOMAIN run = Workers
        BY DEF OwnedInv, TypeInv, TypeOK
    <1>1. PICK f \in [chunks[u] -> Workers] :
              /\ \A b, c \in chunks[u] : f[b] = f[c] => b = c
              /\ \A b \in chunks[u] : Replaces(f[b], u, b)
        BY DEF OwnedInv, Owners
    <1>2. run'[w].pc = "acking" /\ \A v \in Workers \ {w} : run'[v] = run[v]
        BY <1>0 DEF CommitReady, Forget
    <1>3. ASSUME NEW v \in Workers, NEW b, Replaces(v, u, b)
          PROVE  Replaces(v, u, b)'
        BY <1>2, <1>3 DEF Replaces, Doc
    <1>4. CASE u # Doc(w)
        <2>1. chunks'[u] = chunks[u]
            BY <1>0, <1>4, PublicationFrame
        <2>2. f \in Owners(u)'
            BY <1>1, <1>3, <2>1 DEF Owners
        <2>. QED
            BY <2>2
    <1>5. CASE u = Doc(w)
        <2>. DEFINE new == batches[u]
        <2>0. PICK g : g = [b \in chunks'[u] |-> IF b = new THEN w ELSE f[b]]
            OBVIOUS
        <2>1. chunks'[u] = (chunks[u] \ run[w].deleting) \cup {new}
            BY <1>0, <1>5, PublicationFrame
        <2>2. \A b \in chunks'[u] \ {new} : b \in chunks[u] /\ b \notin run[w].deleting
            BY <2>1
        <2>3. \A b \in chunks'[u] \ {new} : f[b] # w
            <3>1. run[w].pc = "embedding" /\ Doc(w) = u
                BY <1>5 DEF CommitReady, At
            <3>2. \A b \in chunks[u] : f[b] = w => b \in run[w].deleting
                <4>. SUFFICES ASSUME NEW b \in chunks[u], f[b] = w PROVE b \in run[w].deleting
                    OBVIOUS
                <4>1. Replaces(w, u, b)
                    BY <1>1
                <4>. QED
                    BY <3>1, <4>1 DEF Replaces
            <3>. QED
                BY <2>2, <3>2
        <2>4. g \in [chunks'[u] -> Workers]
            BY <1>1, <2>0, <2>2
        <2>5. \A b, c \in chunks'[u] : g[b] = g[c] => b = c
            BY <1>1, <2>0, <2>2, <2>3
        <2>6. \A b \in chunks'[u] : Replaces(g[b], u, b)'
            <3>1. ASSUME NEW b \in chunks'[u], b = new
                  PROVE  Replaces(w, u, b)'
                BY <1>2 DEF Replaces
            <3>2. ASSUME NEW b \in chunks'[u], b # new
                  PROVE  Replaces(f[b], u, b)'
                BY <1>1, <1>3, <2>2, <3>2
            <3>. QED
                BY <2>0, <3>1, <3>2
        <2>7. g \in Owners(u)'
            BY <2>4, <2>5, <2>6 DEF Owners
        <2>. QED
            BY <2>7
    <1>. QED
        BY <1>4, <1>5

LEMMA NextOwned == OwnedInv /\ [Next]_vars => OwnedInv'
    <1>. SUFFICES ASSUME OwnedInv, [Next]_vars PROVE OwnedInv'
        OBVIOUS
    <1>0. TypeInv /\ TypeInv'
        BY NextType DEF OwnedInv
    <1>1. CASE UNCHANGED <<chunks, run>>
        BY <1>0, <1>1 DEF OwnedInv, Owners, Replaces, Doc
    <1>2. ASSUME NEW w \in Workers, Work(w) \/ Disturb(w)
          PROVE  OwnedInv'
        <2>1. CASE CommitReady(w)
            BY <1>0, <2>1, PublicationOwned DEF OwnedInv
        <2>2. CASE ~CommitReady(w)
            <3>1. UNCHANGED chunks
                <4>1. UNCHANGED rows \/ CommitProcessing(w) \/ CommitFailed(w)
                    BY <1>2, <2>2, RowsFrame
                <4>. QED
                    BY <4>1 DEF CommitProcessing, CommitFailed, rows
            <3>2. ASSUME NEW u \in Uploads
                  PROVE  Owners(u) \subseteq Owners(u)'
                BY <1>0, <1>2, <2>2, <3>1, ReplacesStep DEF Owners
            <3>. QED
                BY <1>0, <3>2 DEF OwnedInv
        <2>. QED
            BY <2>1, <2>2
    <1>3. ASSUME NEW u \in Uploads, Handle(u) \/ ApiCrash(u)
          PROVE  UNCHANGED <<chunks, run>>
        BY <1>3 DEF Handle, RejectUpload, StoreFile, RejectDuplicate, PassDuplicateCheck,
            InsertDocument, Dispatch, DispatchRaises, MarkEnqueueFailed, ApiCrash, rows
    <1>. QED
        BY <1>1, <1>2, <1>3 DEF Next, Pipeline, Rest, Cite, vars, rows

\* However deliveries of one task overlap, a document never has more sets of
\* chunks than there are worker processes: with one process, it has one.
THEOREM ChunkSetsAreBounded ==
    ASSUME IsFiniteSet(Workers)
    PROVE  Spec => []ChunkSetsBounded
    <1>1. OwnedInv => ChunkSetsBounded
        <2>. SUFFICES ASSUME OwnedInv, NEW u \in Uploads
                      PROVE  Cardinality(chunks[u]) <= Cardinality(Workers)
            BY DEF ChunkSetsBounded
        <2>1. PICK f \in [chunks[u] -> Workers] : \A b, c \in chunks[u] : f[b] = f[c] => b = c
            BY DEF OwnedInv, Owners
        <2>2. f \in Injection(chunks[u], Workers)
            BY <2>1 DEF Injection, IsInjective
        <2>. QED
            BY <2>2, FS_Injection
    <1>. QED
        BY <1>1, InitOwned, NextOwned, PTL DEF Spec

-----------------------------------------------------------------------------
(* No task is lost *)

\* Celery neither acknowledges nor re-sends what runs, and sessions do not fail.
\* The broker may refuse what is sent to it.
TasksAreKept == Faults \cap {"childlost", "redeliver", "database"} = {}

\* What a worker knows of its document.
WorkerOK(w) ==
    run[w].pc # "idle" =>
        /\ ~run[w].restored
        /\ run[w].pc = "loading_job" => run[w].doc # "absent"
        /\ run[w].pc \in {"parsing", "replacing", "looked", "embedding"} => run[w].doc = "processing"

\* The commit that ends this delivery writes the document's status: only an
\* except path that read "failed" leaves it to whoever wrote since.
Pending(w) ==
    \/ run[w].pc \in {"loading", "loading_job", "starting", "parsing", "replacing", "looked",
                      "embedding", "rolled_back"}
    \/ run[w].pc \in {"reloading", "failing"} /\ run[w].doc # "failed"

Carried(u) ==
    \/ \E m \in Message : m.doc = u /\ queue[m] > 0
    \/ \E w \in Workers : Pending(w) /\ Doc(w) = u

Owed(u) == status[u] = "processing" \/ (status[u] = "uploaded" /\ api[u] = "accepted")

CarriedInv ==
    /\ TaskInv
    /\ \A w \in Workers : WorkerOK(w)
    /\ \A u \in Uploads : Owed(u) => Carried(u)

LEMMA InitCarried == Init => CarriedInv
    BY InitTasks DEF CarriedInv, WorkerOK, Owed, Init, Idle

\* A step of a worker, on its own record and on what it carries.
CarriesOn(w) ==
    /\ WorkerOK(w)'
    /\ status'[Doc(w)] \in {"uploaded", "processing"} /\ Pending(w) =>
          \/ Pending(w)' /\ Doc(w)' = Doc(w)
          \/ \E m \in Message : m.doc = Doc(w) /\ queue'[m] > 0

LEMMA BusyCarries ==
    ASSUME TasksAreKept, CarriedInv, NEW w \in Workers, run[w].pc # "idle",
           Work(w) \/ Disturb(w)
    PROVE  CarriesOn(w)
    <1>0. /\ TypeInv /\ TypeOK /\ DOMAIN run = Workers /\ WorkerOK(w)
          /\ run[w].task \in Message /\ Doc(w) \in Uploads /\ run[w].pc \in BusyPc
          /\ DOMAIN run[w] = {"pc", "task", "restored", "doc", "job", "existing", "deleting"}
          /\ queue \in [Message -> Nat] /\ status \in [Uploads -> DocumentStatus]
        BY BusyRunFields DEF CarriedInv, TaskInv, TypeInv, TypeOK, BusyRun
    <1>1. status[Doc(w)] # "absent" /\ job[Doc(w)].status # "absent"
        BY <1>0 DEF CarriedInv, TaskInv, TasksHaveRowsAndFiles, At
    <1>2. ASSUME NEW pc, Forget(w, pc), pc \notin {"loading_job", "parsing", "replacing", "looked", "embedding"}
          PROVE  WorkerOK(w)' /\ run'[w].pc = pc /\ Doc(w)' = Doc(w)
        BY <1>0, <1>2 DEF Forget, WorkerOK, Doc
    <1>3. CASE \/ LoadDocument(w) \/ SelectChunks(w) \/ SelectCitations(w) \/ DeleteChunks(w)
               \/ CommitProcessing(w)
        <2>1. CASE LoadDocument(w)
            BY <1>0, <1>1, <2>1 DEF LoadDocument, At, CarriesOn, WorkerOK, Pending, Doc
        <2>2. CASE SelectChunks(w)
            BY <1>0, <2>2 DEF SelectChunks, At, CarriesOn, WorkerOK, Pending, Doc
        <2>3. CASE DeleteChunks(w)
            BY <1>0, <2>3 DEF DeleteChunks, At, CarriesOn, WorkerOK, Pending, Doc
        <2>5. CASE SelectCitations(w)
            BY <1>0, <2>5 DEF SelectCitations, At, CarriesOn, WorkerOK, Pending, Doc
        <2>4. CASE CommitProcessing(w)
            <3>1. /\ run'[w].pc = "parsing" /\ run'[w].doc = "processing"
                  /\ run'[w].task = run[w].task /\ run'[w].restored = run[w].restored
                BY <1>0, <2>4 DEF CommitProcessing
            <3>. QED
                BY <1>0, <3>1 DEF CarriesOn, WorkerOK, Pending, Doc
        <2>. QED
            BY <1>3, <2>1, <2>2, <2>3, <2>4, <2>5
    <1>4. CASE LoadJob(w)
        <2>1. "absent" \notin {run[w].doc, job[Doc(w)].status}
            BY <1>0, <1>1, <1>4 DEF LoadJob, At, WorkerOK
        <2>. QED
            BY <1>0, <1>4, <2>1 DEF LoadJob, At, CarriesOn, WorkerOK, Pending, Doc
    <1>5. CASE DeleteCitedChunks(w) \/ Fail(w)
        <2>1. Forget(w, "rolled_back")
            BY <1>5 DEF DeleteCitedChunks, Fail
        <2>. QED
            BY <1>2, <2>1 DEF CarriesOn, Pending
    <1>6. CASE ReloadDocument(w)
        <2>1. /\ run'[w].pc = "reloading" /\ run'[w].doc = status[Doc(w)] /\ UNCHANGED status
              /\ run'[w].task = run[w].task /\ run'[w].restored = run[w].restored
            BY <1>0, <1>6 DEF ReloadDocument, rows
        <2>. QED
            BY <1>0, <2>1 DEF CarriesOn, WorkerOK, Pending, Doc
    <1>7. CASE ReloadJob(w)
        <2>1. /\ run[w].pc = "reloading" /\ run'[w].pc = "failing" /\ run'[w].doc = run[w].doc
              /\ run'[w].task = run[w].task /\ run'[w].restored = run[w].restored
            BY <1>0, <1>7 DEF ReloadJob, At
        <2>. QED
            BY <1>0, <2>1 DEF CarriesOn, WorkerOK, Pending, Doc
    <1>8. CASE CommitReady(w)
        <2>1. run[w].doc = "processing"
            BY <1>0, <1>8 DEF CommitReady, At, WorkerOK
        <2>2. status' = [status EXCEPT ![Doc(w)] = Written(run[w].doc, "ready", @)]
              /\ Forget(w, "acking")
            BY <1>8 DEF CommitReady
        <2>3. status'[Doc(w)] = "ready"
            BY <1>0, <2>1, <2>2 DEF Written
        <2>. QED
            BY <1>2, <2>2, <2>3 DEF CarriesOn
    <1>9. CASE CommitFailed(w)
        <2>1. status' = [status EXCEPT ![Doc(w)] = Written(run[w].doc, "failed", @)]
              /\ Forget(w, "raised") /\ run[w].pc = "failing"
            BY <1>9 DEF CommitFailed, At
        <2>2. Pending(w) => status'[Doc(w)] = "failed"
            BY <1>0, <2>1 DEF Written, Pending
        <2>. QED
            BY <1>2, <2>1, <2>2 DEF CarriesOn
    <1>10. CASE GiveUp(w) \/ PublishRetry(w)
        <2>1. /\ run[w].pc = "raised" /\ run'[w].pc = "acking"
              /\ run'[w].restored = run[w].restored
            BY <1>0, <1>10 DEF GiveUp, PublishRetry, At
        <2>. QED
            BY <1>0, <2>1 DEF CarriesOn, WorkerOK, Pending
    <1>11. CASE Ack(w)
        BY <1>0, <1>11 DEF Ack, At, CarriesOn, WorkerOK, Pending, Idle
    <1>12. CASE Crash(w)
        <2>1. run' = [run EXCEPT ![w] = Idle] /\ queue' = [queue EXCEPT ![run[w].task] = @ + 1]
            BY <1>0, <1>12 DEF Crash, WorkerOK, Send
        <2>2. run'[w].pc = "idle" /\ queue'[run[w].task] > 0
            BY <1>0, <2>1 DEF Idle
        <2>. QED
            BY <1>0, <2>2 DEF CarriesOn, WorkerOK, Doc
    <1>. QED
        BY <1>0, <1>3, <1>4, <1>5, <1>6, <1>7, <1>8, <1>9, <1>10, <1>11, <1>12
        DEF Work, Disturb, Deliver, At, StatementFails, SessionFails, ChildLost, Redeliver, Fault,
            TasksAreKept

LEMMA WorkCarried ==
    ASSUME TasksAreKept, CarriedInv, NEW w \in Workers, Work(w) \/ Disturb(w)
    PROVE  CarriedInv'
    <1>0. /\ TypeInv /\ TypeOK /\ TaskInv' /\ DOMAIN run = Workers
          /\ queue \in [Message -> Nat] /\ status \in [Uploads -> DocumentStatus]
        BY WorkTasks DEF CarriedInv, TaskInv, TypeInv, TypeOK
    <1>1. \A v \in Workers \ {w} : run'[v] = run[v]
        BY <1>0, RunFrame
    <1>2. CASE run[w].pc = "idle"
        <2>1. PICK m \in Message : Deliver(w, m)
            BY <1>0, <1>2
            DEF Work, Disturb, LoadDocument, LoadJob, CommitProcessing, SelectChunks, SelectCitations, DeleteChunks,
                DeleteCitedChunks, Fail, CommitReady, ReloadDocument, ReloadJob, CommitFailed,
                PublishRetry, GiveUp, Ack, StatementFails, SessionFails, Crash, ChildLost, Redeliver,
                At, Engaged, InRun
        <2>2. /\ run'[w].pc = "loading" /\ run'[w].task = m /\ ~run'[w].restored
              /\ \A n \in Message \ {m} : queue'[n] = queue[n]
              /\ UNCHANGED <<status, api>>
            BY <1>0, <2>1 DEF Deliver, apiVars, rows
        <2>3. \A u \in Uploads : Carried(u) => Carried(u)'
            BY <1>1, <1>2, <2>2 DEF Carried, Pending, Doc
        <2>4. \A v \in Workers : WorkerOK(v)'
            BY <1>1, <2>2 DEF CarriedInv, WorkerOK
        <2>. QED
            BY <1>0, <2>2, <2>3, <2>4 DEF CarriedInv, Owed
    <1>3. CASE run[w].pc # "idle"
        <2>1. CarriesOn(w) /\ Doc(w) \in Uploads
            BY <1>0, <1>3, BusyCarries, BusyRunFields
        <2>2. \A v \in Workers : WorkerOK(v)'
            BY <1>1, <2>1 DEF CarriesOn, CarriedInv, WorkerOK
        <2>3. \A m \in Message : queue[m] > 0 => queue'[m] > 0
            <3>1. UNCHANGED queue \/ Send(run[w].task) \/ Send(RetryTask(run[w].task))
                BY <1>3
                DEF Work, Disturb, Deliver, LoadDocument, LoadJob, CommitProcessing, SelectChunks, SelectCitations,
                    DeleteChunks, DeleteCitedChunks, Fail, CommitReady, ReloadDocument, ReloadJob,
                    CommitFailed, PublishRetry, GiveUp, Ack, StatementFails, SessionFails, Crash,
                    ChildLost, Redeliver, At
            <3>. QED
                BY <1>0, <3>1 DEF Send
        <2>4. \A u \in Uploads :
                  Carried(u) /\ status'[u] \in {"uploaded", "processing"} => Carried(u)'
            <3>. SUFFICES ASSUME NEW u \in Uploads, Carried(u),
                                 status'[u] \in {"uploaded", "processing"}
                          PROVE  Carried(u)'
                OBVIOUS
            <3>1. CASE \E m \in Message : m.doc = u /\ queue[m] > 0
                BY <2>3, <3>1 DEF Carried
            <3>2. ASSUME NEW v \in Workers, Pending(v), Doc(v) = u
                  PROVE  Carried(u)'
                <4>1. CASE v = w
                    BY <2>1, <3>2, <4>1 DEF CarriesOn, Carried
                <4>2. CASE v # w
                    BY <1>1, <3>2, <4>2 DEF Carried, Pending, Doc
                <4>. QED
                    BY <4>1, <4>2
            <3>. QED
                BY <3>1, <3>2 DEF Carried
        <2>5. \A u \in Uploads : Owed(u)' => Owed(u) \/ Carried(u)'
            <3>1. CASE UNCHANGED <<apiVars, rows>>
                BY <3>1 DEF apiVars, rows, Owed
            <3>2. CASE CommitReady(w) \/ CommitFailed(w)
                BY <1>0, <2>1, <3>2 DEF CommitReady, CommitFailed, Written, apiVars, Owed
            <3>3. CASE CommitProcessing(w)
                <4>1. /\ run'[w].pc = "parsing" /\ Doc(w)' = Doc(w) /\ UNCHANGED api
                      /\ \A u \in Uploads \ {Doc(w)} : status'[u] = status[u]
                    BY <1>0, <1>3, <2>1, <3>3, BusyRunFields
                    DEF CommitProcessing, apiVars, Doc, BusyRun
                <4>. QED
                    BY <4>1 DEF Owed, Carried, Pending
            <3>. QED
                BY <3>1, <3>2, <3>3, RowsFrame
        <2>. QED
            BY <1>0, <2>2, <2>4, <2>5 DEF CarriedInv, Owed
    <1>. QED
        BY <1>2, <1>3

LEMMA HandleCarried ==
    ASSUME TasksAreKept, CarriedInv, NEW u \in Uploads, Handle(u) \/ ApiCrash(u)
    PROVE  CarriedInv'
    <1>0. /\ TypeOK /\ TaskInv' /\ UNCHANGED run
          /\ queue \in [Message -> Nat] /\ status \in [Uploads -> DocumentStatus]
          /\ api \in [Uploads -> ApiPc]
          /\ FirstTask(u) \in Message /\ FirstTask(u).doc = u
        <2>1. FirstTask(u) \in Message /\ FirstTask(u).doc = u
            BY IngestionAssumption DEF FirstTask, Message, IngestionAssumption
        <2>2. UNCHANGED run
            BY DEF Handle, RejectUpload, StoreFile, RejectDuplicate, PassDuplicateCheck,
                InsertDocument, Dispatch, DispatchRaises, MarkEnqueueFailed, ApiCrash
        <2>3. TaskInv /\ TaskInv'
            BY HandleTasks DEF CarriedInv
        <2>. QED
            BY <2>1, <2>2, <2>3 DEF TaskInv, TypeInv, TypeOK
    <1>1. \A m \in Message : queue[m] > 0 => queue'[m] > 0
        <2>1. UNCHANGED queue \/ Send(FirstTask(u))
            BY DEF Handle, RejectUpload, StoreFile, RejectDuplicate, PassDuplicateCheck,
                InsertDocument, Dispatch, DispatchRaises, MarkEnqueueFailed, ApiCrash
        <2>. QED
            BY <1>0, <2>1 DEF Send
    <1>2. \A v \in Uploads : Carried(v) => Carried(v)'
        BY <1>0, <1>1 DEF Carried, Pending, Doc
    <1>3. \A v \in Uploads : Owed(v)' => Owed(v) \/ Carried(v)'
        <2>1. CASE Dispatch(u)
            <3>1. queue'[FirstTask(u)] > 0
                BY <1>0, <2>1 DEF Dispatch, Send
            <3>2. \A v \in Uploads \ {u} : Owed(v)' => Owed(v)
                BY <1>0, <2>1 DEF Dispatch, ApiStep, rows, Owed
            <3>. QED
                BY <1>0, <3>1, <3>2 DEF Carried
        <2>2. CASE ~Dispatch(u)
            <3>1. \/ UNCHANGED status
                  \/ status' = [status EXCEPT ![u] = "failed"]
                  \/ status' = [status EXCEPT ![u] = "uploaded"] /\ api'[u] = "enqueueing"
                BY <1>0, <2>2 DEF Handle, RejectUpload, StoreFile, RejectDuplicate,
                    PassDuplicateCheck, InsertDocument, DispatchRaises, MarkEnqueueFailed, ApiCrash,
                    ApiStep, rows
            <3>2. \E to \in ApiPc \ {"accepted"} : api' = [api EXCEPT ![u] = to]
                <4>1. \E to \in {"rejected", "stored", "checked", "enqueueing", "enqueue_failed",
                                 "unavailable", "crashed"} : api' = [api EXCEPT ![u] = to]
                    BY <2>2 DEF Handle, RejectUpload, StoreFile, RejectDuplicate,
                        PassDuplicateCheck, InsertDocument, DispatchRaises, MarkEnqueueFailed,
                        ApiCrash, ApiStep
                <4>. QED
                    BY <4>1 DEF ApiPc, ApiDone
            <3>. QED
                BY <1>0, <3>1, <3>2 DEF Owed
        <2>. QED
            BY <2>1, <2>2
    <1>4. \A w \in Workers : WorkerOK(w)'
        BY <1>0 DEF CarriedInv, WorkerOK
    <1>. QED
        BY <1>0, <1>2, <1>3, <1>4 DEF CarriedInv

LEMMA NextCarried ==
    ASSUME TasksAreKept, CarriedInv, [Next]_vars
    PROVE  CarriedInv'
    <1>1. ASSUME UNCHANGED <<status, api, queue, run>>
          PROVE  CarriedInv'
        <2>1. TaskInv'
            BY NextTasks DEF CarriedInv
        <2>2. \A u \in Uploads : (Carried(u) <=> Carried(u)') /\ (Owed(u) <=> Owed(u)')
            BY <1>1 DEF Carried, Owed, Pending, Doc
        <2>. QED
            BY <1>1, <2>1, <2>2 DEF CarriedInv, WorkerOK
    <1>. QED
        BY <1>1, WorkCarried, HandleCarried DEF Next, Pipeline, Rest, Cite, vars, rows, apiVars

\* Late acknowledgement pays off for any number of uploads, workers, crashes and
\* repeated dispatches: a document that was accepted and is not settled has a
\* task that waits or runs.
THEOREM NoTaskIsLost ==
    ASSUME TasksAreKept
    PROVE  Spec => []NoLostTask
    <1>1. CarriedInv => NoLostTask
        <2>1. \A w \in Workers : Pending(w) => Engaged(w)
            BY DEF Pending, Engaged, InRun
        <2>2. \A u \in Uploads : Carried(u) => LiveTask(u)
            BY <2>1 DEF Carried, LiveTask
        <2>. QED
            BY <2>2 DEF CarriedInv, Owed, NoLostTask
    <1>2. CarriedInv /\ [Next]_vars => CarriedInv'
        BY NextCarried
    <1>. QED
        BY <1>1, <1>2, InitCarried, PTL DEF Spec

-----------------------------------------------------------------------------
(* Deliveries and retries end *)

\* Steps to the end of a delivery, by where it is.
StepsOf == [idle |-> 0, acking |-> 1, raised |-> 2, failing |-> 3, reloading |-> 4,
            rolled_back |-> 5, embedding |-> 6, looked |-> 7, replacing |-> 8, parsing |-> 9,
            starting |-> 10, loading_job |-> 11, loading |-> 12]

\* What is left to a task with r retries behind it: the deliveries it may still
\* have, of 13 steps each, taking one from the queue included.
Retrying(r) == 13 * (MaxRetries - r)

Left(w) ==
    IF run[w].pc \in {"idle", "acking"} THEN StepsOf[run[w].pc]
    ELSE Retrying(run[w].task.retries) + StepsOf[run[w].pc]

Cost(m) == Retrying(m.retries) + 13

\* The worker uses up what is left to it, or takes over a task that costs more
\* than it has left then, or pays for the retry it sends.
Spends(w) ==
    \/ UNCHANGED queue /\ Left(w)' < Left(w)
    \/ \E m \in Message : /\ queue[m] > 0 /\ queue' = [queue EXCEPT ![m] = @ - 1]
                          /\ Left(w) = 0 /\ Left(w)' < Cost(m)
    \/ \E m \in Message : Send(m) /\ Left(w)' + Cost(m) < Left(w)

\* Every step of a worker, also one that fails, is paid for (workers/ingestion_tasks.py,
\* the except path of IngestionService.run).
DeliveriesEnd ==
    [][\A w \in Workers :
          Work(w) \/ StatementFails(w) \/ SessionFails(w) \/ ChildLost(w) => Spends(w)]_vars

LEMMA LeftType ==
    ASSUME TypeOK
    PROVE  /\ \A m \in Message : Retrying(m.retries) \in Nat /\ Cost(m) \in Nat
           /\ \A w \in Workers : Left(w) \in Nat
    <1>1. \A m \in Message : Retrying(m.retries) \in Nat /\ Cost(m) \in Nat
        BY IngestionAssumption DEF Message, Retrying, Cost, IngestionAssumption
    <1>2. ASSUME NEW w \in Workers
          PROVE  Left(w) \in Nat
        <2>1. run[w].pc \in BusyPc \cup {"idle"} /\ (run[w].pc # "idle" => run[w].task \in Message)
            BY BusyRunFields
        <2>2. StepsOf[run[w].pc] \in Nat
            BY <2>1 DEF StepsOf, BusyPc, InRun
        <2>. QED
            BY <1>1, <2>1, <2>2 DEF Left
    <1>. QED
        BY <1>1, <1>2

\* A step of a delivery to a place nearer to its end.
LEMMA Nearer ==
    ASSUME TypeOK, NEW w \in Workers, run[w].pc # "idle", run[w].pc # "acking", UNCHANGED queue,
           \/ run'[w].pc \in {"idle", "acking"}
           \/ run'[w].pc # "idle" /\ run'[w].task = run[w].task,
           NEW pc, run'[w].pc = pc, pc \in BusyPc \cup {"idle"},
           StepsOf[pc] < StepsOf[run[w].pc]
    PROVE  Spends(w)
    <1>1. PICK n \in Nat : n = Retrying(run[w].task.retries)
        BY BusyRunFields, LeftType
    <1>2. Left(w) = n + StepsOf[run[w].pc]
        BY <1>1 DEF Left
    <1>3. StepsOf[pc] \in Nat /\ StepsOf[run[w].pc] \in Nat
        BY BusyRunFields DEF StepsOf, BusyPc, InRun
    <1>4. Left(w)' = StepsOf[pc] \/ Left(w)' = n + StepsOf[pc]
        BY <1>1 DEF Left, Retrying, StepsOf
    <1>5. Left(w)' < Left(w)
        BY <1>2, <1>3, <1>4
    <1>. QED
        BY <1>5 DEF Spends

LEMMA WorkSpends ==
    ASSUME TypeInv, NEW w \in Workers, Work(w) \/ StatementFails(w) \/ SessionFails(w) \/ ChildLost(w)
    PROVE  Spends(w)
    <1>0. /\ TypeOK /\ DOMAIN run = Workers
          /\ \A m \in Message : Retrying(m.retries) \in Nat /\ Cost(m) \in Nat
        BY LeftType DEF TypeInv, TypeOK
    <1>1. /\ run'[w].pc # "idle" =>
                 \/ run[w].pc # "idle" /\ run'[w].task = run[w].task
                 \/ \E m \in Message : queue[m] > 0 /\ run'[w].task = m
        BY RunFrame DEF Disturb
    <1>2. ASSUME NEW m \in Message, Deliver(w, m)
          PROVE  Spends(w)
        <2>1. /\ queue[m] > 0 /\ queue' = [queue EXCEPT ![m] = @ - 1]
              /\ run[w].pc = "idle" /\ run'[w].pc = "loading" /\ run'[w].task = m
            BY <1>0, <1>2 DEF Deliver, At
        <2>2. Left(w) = 0
            BY <2>1 DEF Left, StepsOf
        <2>3. Left(w)' = Retrying(m.retries) + 12
            BY <2>1 DEF Left, StepsOf, Retrying
        <2>4. Left(w)' < Cost(m)
            BY <1>0, <2>3 DEF Cost
        <2>. QED
            BY <2>1, <2>2, <2>4 DEF Spends
    <1>3. CASE PublishRetry(w)
        <2>1. /\ run[w].pc = "raised" /\ run[w].task \in Message
              /\ run[w].task.retries < MaxRetries
              /\ Send(RetryTask(run[w].task)) /\ run'[w].pc = "acking"
            BY <1>0, <1>3, BusyRunFields DEF PublishRetry, At, BusyRun
        <2>2. PICK m \in Message : m = RetryTask(run[w].task) /\ m.retries = run[w].task.retries + 1
            BY <2>1, IngestionAssumption DEF RetryTask, Message, IngestionAssumption
        <2>3. Left(w) = Retrying(run[w].task.retries) + 2
            BY <2>1 DEF Left, StepsOf
        <2>4. Left(w)' = 1
            BY <2>1 DEF Left, StepsOf
        <2>5. Retrying(run[w].task.retries) = Retrying(m.retries) + 13
            <3>1. run[w].task.retries \in Nat /\ MaxRetries \in Nat
                BY <2>1, IngestionAssumption DEF Message, IngestionAssumption
            <3>. QED
                BY <2>2, <3>1 DEF Retrying
        <2>6. Left(w)' + Cost(m) < Left(w)
            <3>1. Left(w)' + Cost(m) = 1 + Cost(m)
                BY <2>4
            <3>2. 1 + Cost(m) < Left(w)
                BY <1>0, <2>3, <2>5 DEF Cost
            <3>. QED
                BY <3>1, <3>2
        <2>. QED
            BY <2>1, <2>2, <2>6 DEF Spends
    <1>4. CASE Ack(w)
        <2>1. Left(w) = 1 /\ UNCHANGED queue
            BY <1>4 DEF Ack, At, Left, StepsOf
        <2>2. Left(w)' = 0
            BY <1>0, <1>4 DEF Ack, Left, StepsOf, Idle
        <2>. QED
            BY <2>1, <2>2 DEF Spends
    <1>5. CASE ChildLost(w)
        <2>1. /\ run[w].pc \in InRun \cup {"raised"} /\ run'[w].pc = "idle" /\ UNCHANGED queue
            BY <1>0, <1>5 DEF ChildLost, Engaged, Idle
        <2>2. StepsOf["idle"] < StepsOf[run[w].pc]
            BY <2>1 DEF StepsOf, InRun
        <2>. QED
            BY <1>0, <2>1, <2>2, Nearer DEF InRun
    <1>6. CASE Reads(w) \/ CommitProcessing(w) \/ CommitReady(w) \/ CommitFailed(w)
        <2>1. run[w].pc \in InRun \cup {"raised"} /\ UNCHANGED queue
            BY <1>6 DEF Reads, LoadDocument, LoadJob, SelectChunks, SelectCitations, DeleteChunks, DeleteCitedChunks,
                Fail, ReloadDocument, ReloadJob, GiveUp, StatementFails, SessionFails,
                CommitProcessing, CommitReady, CommitFailed, At, InRun
        <2>2. run[w].pc # "idle"
            BY <2>1 DEF InRun
        <2>3. DOMAIN run[w] = {"pc", "task", "restored", "doc", "job", "existing", "deleting"}
            BY <1>0, <2>2, BusyRunFields DEF BusyRun
        <2>4. \A pc : Forget(w, pc) => run'[w].pc = pc /\ run'[w].task = run[w].task
            BY <1>0 DEF Forget
        <2>5. PICK pc \in InRun \cup {"raised", "acking"} : run'[w].pc = pc
                  /\ StepsOf[pc] < StepsOf[run[w].pc] /\ run'[w].task = run[w].task
            <3>. USE <1>0, <2>3, <2>4 DEF StepsOf, InRun, At
            <3>1. CASE LoadDocument(w) \/ SelectChunks(w) \/ SelectCitations(w) \/ DeleteChunks(w)
                BY <3>1 DEF LoadDocument, SelectChunks, SelectCitations, DeleteChunks
            <3>2. CASE ReloadDocument(w) \/ ReloadJob(w) \/ GiveUp(w)
                BY <3>2 DEF ReloadDocument, ReloadJob, GiveUp
            <3>3. CASE LoadJob(w)
                BY <3>3 DEF LoadJob
            <3>4. CASE DeleteCitedChunks(w) \/ Fail(w) \/ StatementFails(w) \/ SessionFails(w)
                BY <3>4 DEF DeleteCitedChunks, Fail, StatementFails, SessionFails
            <3>5. CASE CommitProcessing(w)
                BY <3>5 DEF CommitProcessing
            <3>6. CASE CommitReady(w) \/ CommitFailed(w)
                BY <3>6 DEF CommitReady, CommitFailed
            <3>. QED
                BY <1>6, <3>1, <3>2, <3>3, <3>4, <3>5, <3>6 DEF Reads
        <2>6. pc \in BusyPc /\ run'[w].pc # "idle" /\ run[w].pc # "acking"
            BY <2>1, <2>5 DEF BusyPc, InRun
        <2>. QED
            BY <1>0, <2>1, <2>2, <2>5, <2>6, Nearer
    <1>. QED
        BY <1>2, <1>3, <1>4, <1>5, <1>6 DEF Work, Reads

\* For any number of uploads, workers and retries, under every fault: a task is
\* worked on in at most 13 * (MaxRetries + 1) steps of all workers together, but for
\* what a crash or the broker puts back. No failure, reload or retry goes round in
\* circles.
THEOREM TasksAreFinite == Spec => DeliveriesEnd
    <1>1. TypeInv /\ [Next]_vars =>
              [\A w \in Workers :
                  Work(w) \/ StatementFails(w) \/ SessionFails(w) \/ ChildLost(w) => Spends(w)]_vars
        BY WorkSpends
    <1>2. TypeInv /\ [Next]_vars => TypeInv'
        BY NextType
    <1>. QED
        BY <1>1, <1>2, InitType, PTL DEF Spec, DeliveriesEnd
=============================================================================
