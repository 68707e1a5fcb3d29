-------------------------- MODULE IngestionPromise --------------------------
(***************************************************************************)
(* What the ingestion pipeline promises a client that watches              *)
(* GET /v1/documents/{id}, GET /v1/jobs/{id} and the knowledge base: one   *)
(* life per document, a bounded number of attempts, one publication that   *)
(* nothing takes back, and a fresh updated_at whenever one of these ends.  *)
(* It knows of no queue, no worker, no session and no retry.               *)
(***************************************************************************)
EXTENDS Naturals

CONSTANTS Uploads, KnowledgeBases, KbOf, MaxRetries

VARIABLES
    phase,     \* the status column of each document
    attempts,  \* the attempts column of its job
    sets,      \* the sets of chunks retrieval can find
    version    \* updated_at of each knowledge base

vars == <<phase, attempts, sets, version>>

Init ==
    /\ phase = [u \in Uploads |-> "absent"]
    /\ attempts = [u \in Uploads |-> 0]
    /\ sets = [u \in Uploads |-> {}]
    /\ version = [kb \in KnowledgeBases |-> 0]

Move(u, from, to) == phase[u] \in from /\ phase' = [phase EXCEPT ![u] = to]

Touch(u) == version' = [version EXCEPT ![KbOf[u]] = @ + 1]

Submit(u) ==
    /\ Move(u, {"absent"}, "uploaded")
    /\ Touch(u)
    /\ UNCHANGED <<attempts, sets>>

\* The task never reached the broker.
Abandon(u) ==
    /\ Move(u, {"uploaded"}, "failed")
    /\ UNCHANGED <<attempts, sets, version>>

\* The first attempt, or another one after a failure, recorded or not.
Attempt(u) ==
    /\ attempts[u] <= MaxRetries
    /\ Move(u, {"uploaded", "processing", "failed"}, "processing")
    /\ attempts' = [attempts EXCEPT ![u] = @ + 1]
    /\ UNCHANGED <<sets, version>>

Publish(u) ==
    /\ Move(u, {"processing"}, "ready")
    /\ sets[u] = {}
    /\ sets' = [sets EXCEPT ![u] = {0}]
    /\ Touch(u)
    /\ UNCHANGED attempts

Fail(u) ==
    /\ Move(u, {"processing"}, "failed")
    /\ Touch(u)
    /\ UNCHANGED <<attempts, sets>>

Next == \E u \in Uploads : Submit(u) \/ Abandon(u) \/ Attempt(u) \/ Publish(u) \/ Fail(u)

Spec == Init /\ [][Next]_vars
=============================================================================
