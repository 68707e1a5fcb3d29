------------------------------- MODULE HttpApi -------------------------------
(***************************************************************************)
(* The HTTP layer around the endpoints: the request context middleware,    *)
(* the dependencies that admit a request, the handler, and the exception   *)
(* handlers that turn what it raises into an answer. It composes the list  *)
(* endpoints (Listing), the contact form (Contact) and the creation of a   *)
(* knowledge base, whose transaction inserts a row of Listing.             *)
(*                                                                         *)
(* One client uses one of the endpoints and repeats a request that was     *)
(* answered with a server error; other clients insert rows meanwhile.      *)
(***************************************************************************)
EXTENDS Listing, Contact

CONSTANTS
    Own,          \* the rows of the client's own requests, all of one key
    MaxRequests   \* bound on the requests of the client

ASSUME HttpAssumption ==
    /\ Own \subseteq Rows \ Filtered
    /\ MaxRequests \in Nat

VARIABLES
    endpoint,  \* the endpoint the client uses
    request,   \* the client's request in the server
    told,      \* answers the client got, per status
    counted    \* http_requests_total, per status

httpVars == <<listVars, contactVars, endpoint, request, told, counted>>

Statuses == {200, 201, 409, 422, 429, 500, 503}

\* Mutant of StatusOf: the constraint violation of a statement is not told from an
\* error that leaves the outcome open.
UnexpectedIsConflict ==
    [listed |-> 200, created |-> 201, owner_and_sender_notified |-> 200,
     owner_notified_only |-> 200, invalid |-> 422, page_size |-> 422, limited |-> 429,
     integrity |-> 409, not_configured |-> 503, failed |-> 503, unexpected |-> 409]

\* Returned values, and exceptions by their handler: AppException with its own
\* status, RequestValidationError, IntegrityError, any other.
StatusOf ==
    [listed |-> 200, created |-> 201, owner_and_sender_notified |-> 200,
     owner_notified_only |-> 200, invalid |-> 422, page_size |-> 422, limited |-> 429,
     integrity |-> 409, not_configured |-> 503, failed |-> 503, unexpected |-> 500]

Outcomes == DOMAIN StatusOf

RequestPc == {"none", "received", "running", "inserted", "committed", "responding", "over"}
\* outcome: what the handler returned or raised; ran: the handler was entered;
\* rows: the rows this request inserted
Request == [pc : RequestPc, outcome : Outcomes, ran : BOOLEAN, rows : SUBSET Own]

NoRequest == [pc |-> "none", outcome |-> "unexpected", ran |-> FALSE, rows |-> {}]

HttpTypeOK ==
    /\ ListTypeOK /\ ContactTypeOK
    /\ endpoint \in {"list", "contact", "create"}
    /\ request \in Request
    /\ told \in [Statuses -> Nat] /\ counted \in [Statuses -> Nat]

HttpInit ==
    /\ ListInit /\ ContactInit
    /\ endpoint \in {"list", "contact", "create"}
    /\ request = NoRequest
    /\ told = [s \in Statuses |-> 0] /\ counted = told

Requests == told[200] + told[201] + told[409] + told[422] + told[429] + told[500] + told[503]

Move(from, to) == request.pc = from /\ request' = to
Continue(from, to) == Move(from, [request EXCEPT !.pc = to])
Respond(from, outcome) ==
    Move(from, [request EXCEPT !.pc = "responding", !.outcome = outcome])
Run == Move("received", [request EXCEPT !.pc = "running", !.ran = TRUE])

-----------------------------------------------------------------------------
(* Receiving and admitting *)

\* The client asks for a page while it lacks one; elsewhere it is done with a
\* success, and with the conflict its repetition meets.
Wants ==
    IF endpoint = "list"
    THEN \/ walk.pc \in {"idle", "failed"}
         \/ walk.pc = "shown" /\ walk.page < TotalPages(walk.total, walk.size)
    ELSE request.outcome \notin Delivered \cup {"created", "integrity"}

Receive ==
    /\ Requests < MaxRequests
    /\ request.pc \in {"none", "over"} /\ Wants
    /\ request' = [NoRequest EXCEPT !.pc = "received"]
    /\ UNCHANGED <<listVars, contactVars, endpoint, told, counted>>

\* A body that is no JSON is refused before the dependencies run. For the creation
\* this stands for the rules of its fields too.
RefuseBody ==
    /\ endpoint # "list"
    /\ Respond("received", "invalid")
    /\ UNCHANGED <<listVars, contactVars, endpoint, told, counted>>

\* contact_rate_limit runs before the fields are validated; RateLimit says when it
\* refuses. A Redis that stopped answering raises no AppException.
RefuseByLimit ==
    /\ endpoint = "contact"
    /\ Respond("received", "limited") \/ Respond("received", "unexpected")
    /\ UNCHANGED <<listVars, contactVars, endpoint, told, counted>>

AdmitContact ==
    /\ endpoint = "contact"
    /\ Run
    /\ \E payload \in Payload : Submit(payload)
    /\ UNCHANGED <<listVars, endpoint, told, counted>>

AdmitList ==
    /\ endpoint = "list"
    /\ \/ AskPage /\ Run
       \/ (\E size \in Sizes : RefuseSize(size)) /\ Respond("received", "page_size")
    /\ UNCHANGED <<contactVars, endpoint, told, counted>>

AdmitCreate ==
    /\ endpoint = "create"
    /\ Run
    /\ UNCHANGED <<listVars, contactVars, endpoint, told, counted>>

-----------------------------------------------------------------------------
(* The handlers *)

HandleList ==
    /\ endpoint = "list" /\ request.pc = "running"
    /\ \/ CountRows /\ UNCHANGED request
       \/ SelectRows /\ Respond("running", "listed")
       \/ ReadFails /\ Respond("running", "unexpected")
    /\ UNCHANGED <<contactVars, endpoint, told, counted>>

HandleContact ==
    /\ endpoint = "contact" /\ request.pc = "running"
    /\ ContactRequest
    /\ IF form'.pc \in Answered THEN Respond("running", form'.pc) ELSE UNCHANGED request
    /\ UNCHANGED <<listVars, endpoint, told, counted>>

\* Mutant of InsertOwn: the column is not unique.
InsertUnchecked(r) ==
    /\ stamp' = [stamp EXCEPT ![r] = now]
    /\ UNCHANGED <<now, committed, walk>>

InsertOwn(r) == Insert(r)

\* The commit flushes the INSERT: it goes on, meets the unique constraint, or fails.
HandleCreate ==
    /\ endpoint = "create"
    /\ \E r \in Own : stamp[r] = 0 /\
        \/ /\ Move("running", [request EXCEPT !.pc = "inserted", !.rows = {r}])
           /\ InsertOwn(r)
        \/ Taken(r) /\ Respond("running", "integrity") /\ UNCHANGED listVars
        \/ Respond("running", "unexpected") /\ UNCHANGED listVars
    /\ UNCHANGED <<contactVars, endpoint, told, counted>>

\* The connection may fail before the commit or after it; the session that is
\* closed rolls back what was not committed.
CommitCreate ==
    /\ \E r \in request.rows :
        \/ Commit(r) /\ Continue("inserted", "committed")
        \/ Commit(r) /\ Respond("inserted", "unexpected")
        \/ Abort(r) /\ Respond("inserted", "unexpected")
    /\ UNCHANGED <<contactVars, endpoint, told, counted>>

\* db.refresh reads the row again.
RefreshCreated ==
    /\ Respond("committed", "created") \/ Respond("committed", "unexpected")
    /\ UNCHANGED <<listVars, contactVars, endpoint, told, counted>>

-----------------------------------------------------------------------------
(* Answering *)

Status == StatusOf[request.outcome]
Told(status) == told' = [told EXCEPT ![status] = @ + 1]

\* The middleware gets a response: headers, metrics and the log line.
RespondThroughMiddleware ==
    /\ request.outcome # "unexpected"
    /\ Continue("responding", "over")
    /\ Told(Status)
    /\ counted' = [counted EXCEPT ![Status] = @ + 1]
    /\ UNCHANGED <<listVars, contactVars, endpoint>>

\* The handler for Exception runs outside the middleware, which the exception
\* passes through: no header, no metric, no log line.
RespondOutsideMiddleware ==
    /\ request.outcome = "unexpected"
    /\ Continue("responding", "over")
    /\ Told(Status)
    /\ UNCHANGED <<listVars, contactVars, endpoint, counted>>

\* The client reads total_pages, and stops.
FinishWalk ==
    /\ request.pc = "over"
    /\ Finish
    /\ UNCHANGED <<contactVars, endpoint, request, told, counted>>

Others ==
    /\ endpoint # "contact"
    /\ InsertRows(Rows \ Own)
    /\ UNCHANGED <<contactVars, endpoint, request, told, counted>>

HttpNext ==
    \/ Receive \/ RefuseBody \/ RefuseByLimit \/ AdmitContact \/ AdmitList \/ AdmitCreate
    \/ HandleList \/ HandleContact \/ HandleCreate \/ CommitCreate \/ RefreshCreated
    \/ RespondThroughMiddleware \/ RespondOutsideMiddleware \/ FinishWalk \/ Others

HttpSpec == HttpInit /\ [][HttpNext]_httpVars

-----------------------------------------------------------------------------
(* Properties *)

\* What the request has done that outlives it, and what a success says it has done.
Effects ==
    CASE endpoint = "contact" /\ request.ran -> form.taken
      [] endpoint = "create" -> request.rows \cap committed
      [] OTHER -> {}

Promised ==
    CASE endpoint = "contact" -> Recipients
      [] endpoint = "create" -> request.rows
      [] OTHER -> {}

\* A client can tell from the status what became of its request: a success did
\* everything it speaks of and an error of the client's did nothing, so it may be
\* repeated; a conflict means that the row exists. Only a server error leaves it
\* open.
AnswersTellTheOutcome ==
    request.pc = "over" =>
        /\ Status < 300 => Effects = Promised
        /\ Status \in 400..499 => Effects = {}
        /\ Status = 201 => request.rows # {}
        /\ Status = 409 => \E r \in Own : Taken(r)

\* Behind the HTTP layer the list and the contact form behave as specified.
ComponentsKeepTheirSpecs == ListSpec /\ ContactSpec

-----------------------------------------------------------------------------
(* What the documentation says and the code does not do *)

\* "Total HTTP requests handled by the API." (metrics.py), "HTTP request count"
\* (README): http_requests_total has every answer once, under the status the client
\* got.
EveryAnswerCounted == counted = told
=============================================================================
