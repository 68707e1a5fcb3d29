----------------------------- MODULE HttpProofs -----------------------------
(***************************************************************************)
(* Proofs about the contact form and the HTTP layer, for any rows, bounds  *)
(* and settings: what a visitor and the owner are told is true, and the    *)
(* status of an answer says what became of the request.                    *)
(***************************************************************************)
EXTENDS HttpApi, ListingProofs

(* The contact form *)

LEMMA MessagesOf ==
    ASSUME NEW payload \in Payload
    PROVE  /\ Messages(payload) \in Seq(Parties)
           /\ Messages(payload)[1] = "owner"
           /\ Len(Messages(payload)) = IF payload.email THEN 2 ELSE 1
           /\ payload.email => Messages(payload)[2] = "sender"
    <1>1. CASE payload.email
        <2>1. Messages(payload) = <<"owner", "sender">>
            BY <1>1 DEF Messages
        <2>. QED
            BY <1>1, <2>1 DEF Parties
    <1>2. CASE ~payload.email
        <2>1. Messages(payload) = <<"owner">>
            BY <1>2 DEF Messages
        <2>. QED
            BY <1>2, <2>1 DEF Parties
    <1>. QED
        BY <1>1, <1>2

LEMMA RecipientsOf ==
    ASSUME ContactTypeOK
    PROVE  Recipients = {"owner"} \cup (IF form.payload.email THEN {"sender"} ELSE {})
    <1>1. form.payload \in Payload
        BY DEF ContactTypeOK, Form
    <1>2. CASE form.payload.email
        <2>1. Len(Messages(form.payload)) = 2
            BY <1>1, <1>2, MessagesOf
        <2>2. 1..2 = {1, 2}
            OBVIOUS
        <2>. QED
            BY <1>1, <1>2, <2>1, <2>2, MessagesOf DEF Recipients
    <1>3. CASE ~form.payload.email
        <2>1. Len(Messages(form.payload)) = 1
            BY <1>1, <1>3, MessagesOf
        <2>2. 1..1 = {1}
            OBVIOUS
        <2>. QED
            BY <1>1, <1>3, <2>1, <2>2, MessagesOf DEF Recipients
    <1>. QED
        BY <1>2, <1>3

\* What the server has taken, by the progress of the submission.
TakenInv ==
    /\ form.pc \in {"idle", "validating", "configuring", "connecting", "securing",
                    "invalid", "not_configured"} => form.taken = {}
    /\ form.pc \in {"validating", "configuring", "connecting", "securing"} => form.sent = 0
    /\ form.pc = "sending" =>
           \/ form.sent = 0 /\ form.taken = {}
           \/ form.sent = 1 /\ form.taken = {"owner"} /\ form.payload.email
    /\ form.pc \in Delivered \cup {"quitting"} =>
           form.taken = {"owner"} \cup (IF form.payload.email THEN {"sender"} ELSE {})
    /\ "sender" \in form.taken => "owner" \in form.taken

\* Only the submission that is open or was successful is in an inbox beyond the
\* failures.
CopiesInv ==
    \A p \in Parties :
        mail[p] <= failures + (IF p \in form.taken /\ form.pc # "failed" THEN 1 ELSE 0)

ContactInv == ContactTypeOK /\ TakenInv /\ CopiesInv

LEMMA ContactInit_ContactInv == ContactInit => ContactInv
    BY DEF ContactInit, ContactInv, ContactTypeOK, TakenInv, CopiesInv, Form, FormPc, Payload,
           Parties, Delivered

\* A step that takes no message and does not fail.
LEMMA FormStep ==
    ASSUME ContactInv, NEW from, NEW to \in FormPc, FormTo(from, to), UNCHANGED <<mail, failures>>,
           \/ /\ from \in {"validating", "configuring", "connecting", "securing"}
              /\ to \in {"configuring", "connecting", "securing", "sending",
                         "invalid", "not_configured"}
           \/ from = "quitting" /\ to \in Delivered
    PROVE  ContactInv'
    <1>1. form.pc = from /\ form' = [form EXCEPT !.pc = to] /\ form \in Form
        BY DEF FormTo, ContactInv, ContactTypeOK
    <1>2. /\ form' \in Form /\ form'.pc = to /\ form'.taken = form.taken
          /\ form'.sent = form.sent /\ form'.payload = form.payload
        BY <1>1 DEF Form
    <1>3. ContactTypeOK'
        BY <1>2 DEF ContactInv, ContactTypeOK
    <1>4. TakenInv'
        BY <1>1, <1>2 DEF ContactInv, TakenInv, Delivered
    <1>5. CopiesInv'
        BY <1>1, <1>2 DEF ContactInv, CopiesInv, Delivered
    <1>. QED
        BY <1>3, <1>4, <1>5 DEF ContactInv

LEMMA Taking ==
    ASSUME ContactInv, NEW p \in Parties, Take(p)
    PROVE  /\ mail' \in [Parties -> Nat]
           /\ mail'[p] = mail[p] + 1
           /\ \A q \in Parties : q # p => mail'[q] = mail[q]
    BY DEF ContactInv, ContactTypeOK, Take

\* The next message is one that was not taken yet.
LEMMA NextMessage ==
    ASSUME ContactInv, form.pc = "sending"
    PROVE  LET p == Messages(form.payload)[form.sent + 1]
           IN  /\ p \in Parties /\ p \notin form.taken
               /\ form.sent = 0 => p = "owner"
               /\ form.sent = 1 => p = "sender" /\ form.payload.email
               /\ form.sent \in {0, 1}
    <1>1. form.payload \in Payload
        BY DEF ContactInv, ContactTypeOK, Form
    <1>2. CASE form.sent = 0 /\ form.taken = {}
        BY <1>1, <1>2, MessagesOf DEF Parties
    <1>3. CASE form.sent = 1 /\ form.taken = {"owner"} /\ form.payload.email
        BY <1>1, <1>3, MessagesOf DEF Parties
    <1>. QED
        BY <1>2, <1>3 DEF ContactInv, TakenInv

LEMMA SendMessageStep ==
    ASSUME ContactInv, SendMessage
    PROVE  ContactInv'
    <1>. DEFINE p == Messages(form.payload)[form.sent + 1]
                pc == IF form.sent + 1 = Len(Messages(form.payload)) THEN "quitting" ELSE "sending"
    <1>1. /\ form.pc = "sending" /\ Take(p) /\ failures' = failures
          /\ form' = [form EXCEPT !.sent = @ + 1, !.taken = @ \cup {p}, !.pc = pc]
        BY DEF SendMessage
    <1>2. /\ p \in Parties /\ p \notin form.taken /\ form.sent \in {0, 1}
          /\ form.sent = 0 => p = "owner"
          /\ form.sent = 1 => p = "sender" /\ form.payload.email
        BY <1>1, NextMessage
    <1>3. form \in Form /\ form.payload \in Payload
        BY DEF ContactInv, ContactTypeOK, Form
    <1>4. /\ form'.pc = pc /\ form'.sent = form.sent + 1 /\ form'.taken = form.taken \cup {p}
          /\ form'.payload = form.payload /\ form' \in Form
        <2>1. pc \in FormPc
            BY DEF FormPc
        <2>. HIDE DEF p, pc
        <2>2. form.sent + 1 \in 0..2 /\ form.taken \cup {p} \subseteq Parties
            BY <1>2, <1>3 DEF Form
        <2>. QED
            BY <1>1, <1>3, <2>1, <2>2 DEF Form
    <1>5. ContactTypeOK'
        BY <1>1, <1>2, <1>4, Taking DEF ContactInv, ContactTypeOK
    <1>6. TakenInv'
        <2>1. CASE form.sent = 0 /\ form.taken = {}
            <3>1. pc = IF form.payload.email THEN "sending" ELSE "quitting"
                BY <1>3, <2>1, MessagesOf
            <3>. QED
                BY <1>2, <1>4, <2>1, <3>1 DEF TakenInv, Delivered
        <2>2. CASE form.sent = 1 /\ form.taken = {"owner"} /\ form.payload.email
            <3>1. pc = "quitting"
                BY <1>3, <2>2, MessagesOf
            <3>. QED
                BY <1>2, <1>4, <2>2, <3>1 DEF TakenInv, Delivered
        <2>. QED
            BY <1>1, <2>1, <2>2 DEF ContactInv, TakenInv
    <1>7. CopiesInv'
        <2>. SUFFICES ASSUME NEW q \in Parties
                      PROVE  mail'[q] <= failures' + (IF q \in form'.taken /\ form'.pc # "failed"
                                                      THEN 1 ELSE 0)
            BY DEF CopiesInv
        <2>1. mail[q] <= failures + (IF q \in form.taken THEN 1 ELSE 0)
              /\ mail[q] \in Nat /\ failures \in Nat
            BY <1>1 DEF ContactInv, CopiesInv, ContactTypeOK
        <2>2. form'.pc # "failed" /\ form'.taken = form.taken \cup {p}
            BY <1>4
        <2>3. CASE q = p
            BY <1>1, <1>2, <2>1, <2>2, <2>3, Taking
        <2>4. CASE q # p
            BY <1>1, <1>2, <2>1, <2>2, <2>4, Taking
        <2>. QED
            BY <2>3, <2>4
    <1>. QED
        BY <1>5, <1>6, <1>7 DEF ContactInv

\* The session fails, with the messages in taken delivered.
LEMMA FailStep ==
    ASSUME ContactInv, SessionFails \/ ReplyLost \/ QuitRefused
    PROVE  ContactInv'
    <1>1. PICK taken : /\ Fail(taken) /\ taken \subseteq Parties
                       /\ "sender" \in taken => "owner" \in taken
                       /\ \/ taken = form.taken /\ mail' = mail
                          \/ \E p \in Parties : p \notin form.taken /\ Take(p)
                       /\ form.pc # "failed"
        <2>1. CASE SessionFails \/ QuitRefused
            <3>1. form.taken \subseteq Parties
                BY DEF ContactInv, ContactTypeOK, Form
            <3>. QED
                BY <2>1, <3>1 DEF SessionFails, QuitRefused, ContactInv, TakenInv
        <2>2. CASE ReplyLost
            <3>. DEFINE p == Messages(form.payload)[form.sent + 1]
            <3>1. form.pc = "sending" /\ Fail(form.taken \cup {p}) /\ Take(p)
                BY <2>2 DEF ReplyLost
            <3>2. /\ p \in Parties /\ p \notin form.taken /\ form.sent \in {0, 1}
                  /\ form.sent = 0 => p = "owner"
                  /\ form.sent = 1 => p = "sender"
                BY <3>1, NextMessage
            <3>3. form.taken \subseteq Parties
                BY DEF ContactInv, ContactTypeOK, Form
            <3>4. form.sent = 1 => form.taken = {"owner"}
                BY <3>1 DEF ContactInv, TakenInv
            <3>. HIDE DEF p
            <3>5. form.taken \cup {p} \subseteq Parties
                  /\ ("sender" \in form.taken \cup {p} => "owner" \in form.taken \cup {p})
                BY <3>1, <3>2, <3>3, <3>4 DEF ContactInv, TakenInv
            <3>. QED
                BY <3>1, <3>2, <3>5
        <2>. QED
            BY <2>1, <2>2
    <1>2. form' = [form EXCEPT !.pc = "failed", !.taken = taken] /\ failures' = failures + 1
        BY <1>1 DEF Fail
    <1>3. form'.pc = "failed" /\ form'.taken = taken /\ form' \in Form
        BY <1>1, <1>2 DEF ContactInv, ContactTypeOK, Form, FormPc
    <1>4. mail' \in [Parties -> Nat] /\ \A q \in Parties : mail'[q] <= failures + 1
        <2>1. mail \in [Parties -> Nat] /\ failures \in Nat
              /\ \A q \in Parties : /\ mail[q] <= failures + 1
                                    /\ q \notin form.taken => mail[q] <= failures
            BY <1>1 DEF ContactInv, ContactTypeOK, CopiesInv
        <2>2. CASE mail' = mail
            BY <2>1, <2>2
        <2>3. CASE \E p \in Parties : p \notin form.taken /\ Take(p)
            <3>. PICK p \in Parties : p \notin form.taken /\ Take(p)
                BY <2>3
            <3>1. /\ mail' \in [Parties -> Nat] /\ mail'[p] = mail[p] + 1
                  /\ \A q \in Parties : q # p => mail'[q] = mail[q]
                BY Taking
            <3>2. mail[p] <= failures /\ mail[p] \in Nat
                BY <2>1
            <3>3. mail'[p] <= failures + 1
                BY <2>1, <3>1, <3>2
            <3>. QED
                BY <2>1, <3>1, <3>3
        <2>. QED
            BY <1>1, <2>2, <2>3
    <1>5. ContactTypeOK'
        BY <1>2, <1>3, <1>4 DEF ContactInv, ContactTypeOK
    <1>6. TakenInv'
        BY <1>1, <1>3 DEF TakenInv, Delivered
    <1>7. CopiesInv'
        BY <1>2, <1>3, <1>4, <1>5 DEF CopiesInv, ContactTypeOK
    <1>. QED
        BY <1>5, <1>6, <1>7 DEF ContactInv

LEMMA SubmitStep ==
    ASSUME ContactInv, NEW payload \in Payload, Submit(payload)
    PROVE  ContactInv'
    <1>1. /\ form' = [pc |-> "validating", payload |-> payload, sent |-> 0, taken |-> {},
                      number |-> form.number + 1]
          /\ mail' = mail /\ failures' = failures
          /\ form.pc \in {"idle", "invalid", "not_configured", "failed"}
        BY DEF Submit, Answered, Delivered
    <1>2. ContactTypeOK'
        BY <1>1 DEF ContactInv, ContactTypeOK, Form, FormPc
    <1>3. TakenInv'
        BY <1>1 DEF TakenInv, Delivered
    <1>4. CopiesInv'
        BY <1>1 DEF ContactInv, TakenInv, CopiesInv
    <1>. QED
        BY <1>2, <1>3, <1>4 DEF ContactInv

LEMMA ContactNext_ContactInv == ContactInv /\ [ContactNext]_contactVars => ContactInv'
    <1>. SUFFICES ASSUME ContactInv, [ContactNext]_contactVars PROVE ContactInv'
        OBVIOUS
    <1>1. CASE Validate \/ Configure \/ Connect \/ Secure
        BY <1>1, FormStep DEF Validate, Configure, Connect, Secure, FormPc
    <1>2. CASE Quit
        BY <1>2, FormStep DEF Quit, FormPc, Delivered
    <1>3. CASE SendMessage
        BY <1>3, SendMessageStep
    <1>4. CASE SessionFails \/ ReplyLost \/ QuitRefused
        BY <1>4, FailStep
    <1>5. CASE \E payload \in Payload : Submit(payload)
        BY <1>5, SubmitStep
    <1>6. CASE UNCHANGED contactVars
        BY <1>6 DEF contactVars, ContactInv, ContactTypeOK, TakenInv, CopiesInv
    <1>. QED
        BY <1>1, <1>2, <1>3, <1>4, <1>5, <1>6 DEF ContactNext, ContactRequest

LEMMA ContactInvariance == ContactSpec => []ContactInv
    <1>. QED
        BY ContactInit_ContactInv, ContactNext_ContactInv, PTL DEF ContactSpec

\* However the mail session breaks off, no answer and no confirmation speaks of a
\* delivery that did not happen.
THEOREM NobodyIsMisinformed == ContactSpec => []NoticesAreTrue
    <1>1. ContactInv => NoticesAreTrue
        BY DEF ContactInv, TakenInv, NoticesAreTrue
    <1>. QED
        BY <1>1, ContactInvariance, PTL

\* Each copy of a message beyond the first follows an answer that reported a failure.
THEOREM CopiesAreResubmissions == ContactSpec => []CopiesFollowFailures
    <1>1. ContactInv => CopiesFollowFailures
        <2>. SUFFICES ASSUME ContactInv, NEW p \in Parties PROVE mail[p] <= failures + 1
            BY DEF CopiesFollowFailures
        <2>. QED
            BY DEF ContactInv, ContactTypeOK, CopiesInv
    <1>. QED
        BY <1>1, ContactInvariance, PTL
-----------------------------------------------------------------------------
(* The components behind the HTTP layer *)

HttpTypes ==
    /\ endpoint \in {"list", "contact", "create"}
    /\ request \in Request
    /\ told \in [Statuses -> Nat] /\ counted \in [Statuses -> Nat]

LEMMA OutcomesAre ==
    Outcomes = {"listed", "created", "owner_and_sender_notified", "owner_notified_only",
                "invalid", "page_size", "limited", "integrity", "not_configured", "failed",
                "unexpected"}
    BY DEF Outcomes, StatusOf

LEMMA StatusIs ==
    ASSUME NEW o \in Outcomes
    PROVE  /\ StatusOf[o] \in Statuses
           /\ StatusOf[o] = 500 <=> o = "unexpected"
           /\ StatusOf[o] < 300 => o \in {"listed", "created"} \cup Delivered
           /\ StatusOf[o] \in 400..499 => o \in {"invalid", "page_size", "limited", "integrity"}
           /\ StatusOf[o] = 201 => o = "created"
           /\ StatusOf[o] = 409 => o = "integrity"
    BY OutcomesAre DEF StatusOf, Statuses, Delivered

\* What the three ways to move a request do to it.
LEMMA Continues ==
    ASSUME request \in Request, NEW from, NEW to \in RequestPc, Continue(from, to)
    PROVE  /\ request.pc = from /\ request' \in Request /\ request'.pc = to
           /\ request'.outcome = request.outcome /\ request'.ran = request.ran
           /\ request'.rows = request.rows
    BY DEF Continue, Move, Request

LEMMA Responds ==
    ASSUME request \in Request, NEW from, NEW o \in Outcomes, Respond(from, o)
    PROVE  /\ request.pc = from /\ request' \in Request /\ request'.pc = "responding"
           /\ request'.outcome = o /\ request'.ran = request.ran
           /\ request'.rows = request.rows
    <1>. HIDE DEF Outcomes
    <1>. QED
        BY DEF Respond, Move, Request, RequestPc

LEMMA Runs ==
    ASSUME request \in Request, Run
    PROVE  /\ request.pc = "received" /\ request' \in Request /\ request'.pc = "running"
           /\ request'.outcome = request.outcome /\ request'.ran
           /\ request'.rows = request.rows
    BY DEF Run, Move, Request, RequestPc

LEMMA Receives ==
    ASSUME Receive
    PROVE  /\ request' \in Request /\ request'.pc = "received" /\ request'.rows = {}
           /\ ~request'.ran
    BY OutcomesAre DEF Receive, NoRequest, Request, RequestPc

LEMMA Inserts ==
    ASSUME request \in Request, NEW r \in Own,
           Move("running", [request EXCEPT !.pc = "inserted", !.rows = {r}])
    PROVE  /\ request.pc = "running" /\ request' \in Request /\ request'.pc = "inserted"
           /\ request'.rows = {r}
    BY DEF Move, Request, RequestPc


LEMMA HttpInit_HttpTypes == HttpInit => HttpTypes
    BY OutcomesAre DEF HttpInit, HttpTypes, NoRequest, Request, RequestPc, Statuses

\* An answer is one of the known statuses, and counted at most under that status.
LEMMA Answers ==
    ASSUME HttpTypes, RespondThroughMiddleware \/ RespondOutsideMiddleware
    PROVE  /\ Status \in Statuses
           /\ told' = [told EXCEPT ![Status] = @ + 1]
           /\ IF request.outcome = "unexpected"
              THEN Status = 500 /\ counted' = counted
              ELSE Status # 500 /\ counted' = [counted EXCEPT ![Status] = @ + 1]
           /\ Continue("responding", "over")
    <1>1. request.outcome \in Outcomes
        BY DEF HttpTypes, Request
    <1>2. Status \in Statuses /\ (Status = 500 <=> request.outcome = "unexpected")
        BY <1>1, StatusIs DEF Status
    <1>. HIDE DEF Status, Outcomes
    <1>. QED
        BY <1>2 DEF RespondThroughMiddleware, RespondOutsideMiddleware, Told

LEMMA ContactAnswers ==
    /\ Answered = {"owner_and_sender_notified", "owner_notified_only", "invalid",
                   "not_configured", "failed"}
    /\ Answered \subseteq Outcomes
    BY OutcomesAre DEF Answered, Delivered

LEMMA HttpNext_HttpTypes == HttpTypes /\ [HttpNext]_httpVars => HttpTypes'
    <1>. SUFFICES ASSUME HttpTypes, [HttpNext]_httpVars PROVE HttpTypes'
        OBVIOUS
    <1>. USE DEF HttpTypes
    <1>1. CASE Receive
        BY <1>1, Receives DEF Receive
    <1>2. CASE RefuseBody \/ RefuseByLimit
        BY <1>2, Responds, OutcomesAre DEF RefuseBody, RefuseByLimit
    <1>3. CASE AdmitContact \/ AdmitList \/ AdmitCreate
        BY <1>3, Runs, Responds, OutcomesAre DEF AdmitContact, AdmitList, AdmitCreate
    <1>4. CASE HandleList
        BY <1>4, Responds, OutcomesAre DEF HandleList
    <1>5. CASE HandleContact
        BY <1>5, Responds, ContactAnswers DEF HandleContact
    <1>6. CASE HandleCreate
        BY <1>6, Inserts, Responds, OutcomesAre DEF HandleCreate
    <1>7. CASE CommitCreate
        BY <1>7, Continues, Responds, OutcomesAre DEF CommitCreate, RequestPc
    <1>8. CASE RefreshCreated
        BY <1>8, Responds, OutcomesAre DEF RefreshCreated
    <1>9. CASE RespondThroughMiddleware \/ RespondOutsideMiddleware
        <2>1. request' \in Request
            BY <1>9, Answers, Continues DEF RequestPc
        <2>2. told' \in [Statuses -> Nat] /\ counted' \in [Statuses -> Nat]
            <3>. HIDE DEF Status
            <3>. QED
                BY <1>9, Answers
        <2>. QED
            BY <1>9, <2>1, <2>2 DEF RespondThroughMiddleware, RespondOutsideMiddleware
    <1>10. CASE FinishWalk \/ Others
        BY <1>10 DEF FinishWalk, Others
    <1>11. CASE UNCHANGED httpVars
        BY <1>11 DEF httpVars
    <1>. QED
        BY <1>1, <1>2, <1>3, <1>4, <1>5, <1>6, <1>7, <1>8, <1>9, <1>10, <1>11 DEF HttpNext

LEMMA HttpTypesInvariance == HttpSpec => []HttpTypes
    <1>. QED
        BY HttpInit_HttpTypes, HttpNext_HttpTypes, PTL DEF HttpSpec

\* Every step of the HTTP layer is one of the lists' steps or leaves the list alone.
LEMMA HttpStepOfList == HttpTypes /\ [HttpNext]_httpVars => [ListNext]_listVars
    <1>. SUFFICES ASSUME HttpTypes, [HttpNext]_httpVars PROVE [ListNext]_listVars
        OBVIOUS
    <1>1. CASE \/ Receive \/ RefuseBody \/ RefuseByLimit \/ AdmitContact \/ AdmitCreate
               \/ HandleContact \/ RefreshCreated
               \/ RespondThroughMiddleware \/ RespondOutsideMiddleware
        BY <1>1 DEF Receive, RefuseBody, RefuseByLimit, AdmitContact, AdmitCreate,
                    HandleContact, RefreshCreated, RespondThroughMiddleware,
                    RespondOutsideMiddleware
    <1>2. CASE AdmitList
        BY <1>2 DEF AdmitList, ListNext
    <1>3. CASE HandleList
        BY <1>3 DEF HandleList, ListNext
    <1>4. CASE HandleCreate
        <2>1. UNCHANGED listVars \/ \E r \in Own : Insert(r)
            BY <1>4 DEF HandleCreate, InsertOwn
        <2>. QED
            BY <2>1, HttpAssumption DEF ListNext, InsertRows
    <1>5. CASE CommitCreate
        <2>1. \E r \in request.rows : Commit(r) \/ Abort(r)
            BY <1>5 DEF CommitCreate
        <2>2. request.rows \subseteq Rows
            BY HttpAssumption DEF HttpTypes, Request
        <2>. QED
            BY <2>1, <2>2 DEF ListNext, InsertRows
    <1>6. CASE FinishWalk \/ Others
        BY <1>6 DEF FinishWalk, Others, ListNext, InsertRows
    <1>7. CASE UNCHANGED httpVars
        BY <1>7 DEF httpVars
    <1>. QED
        BY <1>1, <1>2, <1>3, <1>4, <1>5, <1>6, <1>7 DEF HttpNext

LEMMA HttpStepOfContact == [HttpNext]_httpVars => [ContactNext]_contactVars
    <1>. SUFFICES ASSUME [HttpNext]_httpVars PROVE [ContactNext]_contactVars
        OBVIOUS
    <1>1. CASE AdmitContact \/ HandleContact
        BY <1>1 DEF AdmitContact, HandleContact, ContactNext
    <1>2. CASE \/ Receive \/ RefuseBody \/ RefuseByLimit \/ AdmitList \/ AdmitCreate
               \/ HandleList \/ HandleCreate \/ CommitCreate \/ RefreshCreated
               \/ RespondThroughMiddleware \/ RespondOutsideMiddleware
               \/ FinishWalk \/ Others
        BY <1>2 DEF Receive, RefuseBody, RefuseByLimit, AdmitList, AdmitCreate, HandleList,
                    HandleCreate, CommitCreate, RefreshCreated, RespondThroughMiddleware,
                    RespondOutsideMiddleware, FinishWalk, Others
    <1>3. CASE UNCHANGED httpVars
        BY <1>3 DEF httpVars
    <1>. QED
        BY <1>1, <1>2, <1>3 DEF HttpNext

\* The handlers reach the lists' rows and the mail only through the operations of
\* Listing and Contact, whatever the client and the other clients do: what is proved
\* of the two components holds behind the HTTP layer.
THEOREM LayerRefinesComponents == HttpSpec => ComponentsKeepTheirSpecs
    <1>1. HttpInit => ListInit /\ ContactInit
        BY DEF HttpInit
    <1>. QED
        BY <1>1, HttpTypesInvariance, HttpStepOfList, HttpStepOfContact, PTL
           DEF HttpSpec, ListSpec, ContactSpec, ComponentsKeepTheirSpecs

-----------------------------------------------------------------------------
(* The answers *)

CountsAllButServerErrors == counted = [told EXCEPT ![500] = 0]

LEMMA HttpNext_Counts ==
    HttpTypes /\ CountsAllButServerErrors /\ [HttpNext]_httpVars => CountsAllButServerErrors'
    <1>. SUFFICES ASSUME HttpTypes, CountsAllButServerErrors, [HttpNext]_httpVars
                  PROVE  CountsAllButServerErrors'
        OBVIOUS
    <1>1. CASE RespondThroughMiddleware \/ RespondOutsideMiddleware
        <2>. HIDE DEF Status
        <2>1. /\ told \in [Statuses -> Nat] /\ counted \in [Statuses -> Nat]
              /\ counted = [told EXCEPT ![500] = 0]
            BY DEF HttpTypes, CountsAllButServerErrors
        <2>2. counted' = [told' EXCEPT ![500] = 0]
            BY <1>1, <2>1, Answers
        <2>. QED
            BY <2>2 DEF CountsAllButServerErrors
    <1>2. CASE UNCHANGED <<told, counted>>
        BY <1>2 DEF CountsAllButServerErrors
    <1>3. CASE \/ Receive \/ RefuseBody \/ RefuseByLimit \/ AdmitContact \/ AdmitList
               \/ AdmitCreate \/ HandleList \/ HandleContact \/ HandleCreate \/ CommitCreate
               \/ RefreshCreated \/ FinishWalk \/ Others
        BY <1>2, <1>3 DEF Receive, RefuseBody, RefuseByLimit, AdmitContact, AdmitList,
            AdmitCreate, HandleList, HandleContact, HandleCreate, CommitCreate, RefreshCreated,
            FinishWalk, Others
    <1>4. CASE UNCHANGED httpVars
        BY <1>2, <1>4 DEF httpVars
    <1>. QED
        BY <1>1, <1>3, <1>4 DEF HttpNext

\* The total of handled requests is wrong by the server errors that pass the
\* middleware by, and by nothing else: under every other status the request counter
\* and the clients agree, and it shows no status 500.
THEOREM CounterMissesOnlyServerErrors == HttpSpec => []CountsAllButServerErrors
    <1>1. HttpInit => CountsAllButServerErrors
        BY DEF HttpInit, CountsAllButServerErrors, Statuses
    <1>. QED
        BY <1>1, HttpTypesInvariance, HttpNext_Counts, PTL DEF HttpSpec

\* What a request to each endpoint has come to.
ContactOutcome ==
    endpoint = "contact" =>
        /\ request.pc \notin {"inserted", "committed"}
        /\ request.pc = "received" => ~request.ran
        /\ request.pc = "running" => request.ran
        /\ request.pc \in {"responding", "over"} =>
               IF request.ran THEN request.outcome = form.pc /\ form.pc \in Answered
               ELSE request.outcome \in {"invalid", "limited", "unexpected"}

CreateOutcome ==
    endpoint = "create" =>
        /\ request.pc \in {"received", "running"} => request.rows = {}
        /\ request.pc = "inserted" => \E r \in Own : request.rows = {r}
        /\ request.pc = "committed" => request.rows # {} /\ request.rows \subseteq committed
        /\ request.pc \in {"responding", "over"} =>
               \/ /\ request.outcome = "created"
                  /\ request.rows # {} /\ request.rows \subseteq committed
               \/ request.outcome = "invalid" /\ request.rows = {}
               \/ /\ request.outcome = "integrity" /\ request.rows = {}
                  /\ \E r \in Own : Taken(r)
               \/ request.outcome = "unexpected"

ListOutcome ==
    endpoint = "list" =>
        /\ request.pc \notin {"inserted", "committed"}
        /\ request.pc \in {"responding", "over"} =>
               request.outcome \in {"listed", "page_size", "unexpected"}

OutcomeInv == ContactOutcome /\ CreateOutcome /\ ListOutcome

LEMMA CommittedGrows ==
    ASSUME [ListNext]_listVars
    PROVE  /\ committed \subseteq committed'
           /\ \A r : Taken(r) => Taken(r)'
    <1>1. CASE InsertRows(Rows)
        BY <1>1 DEF InsertRows, Insert, Commit, Abort, Taken
    <1>2. CASE UNCHANGED committed
        BY <1>2 DEF Taken
    <1>3. CASE AskPage \/ CountRows \/ SelectRows \/ ReadFails \/ Finish
               \/ \E size \in Sizes : RefuseSize(size)
        <2>1. UNCHANGED committed
            BY <1>3 DEF AskPage, Begin, NextPage, SamePage, CountRows, SelectRows, ReadFails,
                        Finish, RefuseSize, WalkTo
        <2>. QED
            BY <2>1, <1>2
    <1>. QED
        BY <1>1, <1>2, <1>3 DEF ListNext, listVars

LEMMA EndpointStays == [HttpNext]_httpVars => endpoint' = endpoint
    <1>. SUFFICES ASSUME [HttpNext]_httpVars PROVE endpoint' = endpoint
        OBVIOUS
    <1>1. CASE \/ Receive \/ RefuseBody \/ RefuseByLimit \/ AdmitContact \/ AdmitList
               \/ AdmitCreate \/ HandleList
        BY <1>1 DEF Receive, RefuseBody, RefuseByLimit, AdmitContact, AdmitList, AdmitCreate,
                    HandleList
    <1>2. CASE \/ HandleContact \/ HandleCreate \/ CommitCreate \/ RefreshCreated
               \/ RespondThroughMiddleware \/ RespondOutsideMiddleware \/ FinishWalk
               \/ Others
        BY <1>2 DEF HandleContact, HandleCreate, CommitCreate, RefreshCreated,
                    RespondThroughMiddleware, RespondOutsideMiddleware, FinishWalk, Others
    <1>3. CASE UNCHANGED httpVars
        BY <1>3 DEF httpVars
    <1>. QED
        BY <1>1, <1>2, <1>3 DEF HttpNext

LEMMA HttpNext_ContactOutcome ==
    ASSUME HttpTypes, ContactOutcome, [HttpNext]_httpVars
    PROVE  ContactOutcome'
    <1>. SUFFICES ASSUME endpoint = "contact"
                  PROVE  ContactOutcome'
        BY EndpointStays DEF ContactOutcome
    <1>. USE DEF HttpTypes
    <1>0. UNCHANGED endpoint
        BY EndpointStays
    <1>1. CASE Receive
        BY <1>0, <1>1, Receives DEF ContactOutcome
    <1>2. CASE RefuseBody \/ RefuseByLimit
        <2>1. \E o \in {"invalid", "limited", "unexpected"} :
                  o \in Outcomes /\ Respond("received", o)
            BY <1>2, OutcomesAre DEF RefuseBody, RefuseByLimit
        <2>. QED
            BY <2>1, Responds DEF ContactOutcome
    <1>3. CASE AdmitContact
        BY <1>0, <1>3, Runs DEF AdmitContact, ContactOutcome
    <1>4. CASE HandleContact
        <2>1. CASE form'.pc \in Answered
            <3>1. form'.pc \in Outcomes /\ Respond("running", form'.pc)
                BY <1>4, <2>1, ContactAnswers DEF HandleContact
            <3>2. /\ request.pc = "running" /\ request'.pc = "responding"
                  /\ request'.outcome = form'.pc /\ request'.ran = request.ran
                BY <3>1, Responds
            <3>. QED
                BY <1>0, <2>1, <3>2 DEF ContactOutcome
        <2>2. CASE form'.pc \notin Answered
            <3>1. request.pc = "running" /\ request' = request
                BY <1>4, <2>2 DEF HandleContact
            <3>. QED
                BY <3>1 DEF ContactOutcome
        <2>. QED
            BY <2>1, <2>2
    <1>5. CASE RespondThroughMiddleware \/ RespondOutsideMiddleware
        <2>1. UNCHANGED contactVars
            BY <1>5 DEF RespondThroughMiddleware, RespondOutsideMiddleware
        <2>2. /\ request.pc = "responding" /\ request'.pc = "over"
              /\ request'.outcome = request.outcome /\ request'.ran = request.ran
            BY <1>5, Answers, Continues DEF RequestPc
        <2>. QED
            BY <1>0, <2>1, <2>2 DEF ContactOutcome, contactVars
    <1>6. CASE FinishWalk \/ Others \/ UNCHANGED httpVars
        <2>1. UNCHANGED <<contactVars, endpoint, request>>
            BY <1>6 DEF FinishWalk, Others, httpVars
        <2>. QED
            BY <2>1 DEF ContactOutcome, contactVars
    <1>7. CASE AdmitList \/ AdmitCreate \/ HandleList \/ HandleCreate
        BY <1>0, <1>7 DEF AdmitList, AdmitCreate, HandleList, HandleCreate
    <1>8. CASE CommitCreate \/ RefreshCreated
        BY <1>0, <1>8 DEF CommitCreate, RefreshCreated, Continue, Respond, Move, ContactOutcome
    <1>. QED
        BY <1>0, <1>1, <1>2, <1>3, <1>4, <1>5, <1>6, <1>7, <1>8 DEF HttpNext

LEMMA HttpNext_CreateOutcome ==
    ASSUME HttpTypes, CreateOutcome, [HttpNext]_httpVars
    PROVE  CreateOutcome'
    <1>. SUFFICES ASSUME endpoint = "create"
                  PROVE  CreateOutcome'
        BY EndpointStays DEF CreateOutcome
    <1>. USE DEF HttpTypes
    <1>0. committed \subseteq committed' /\ \A r : Taken(r) => Taken(r)'
        BY HttpStepOfList, CommittedGrows
    <1>1. CASE Receive
        BY <1>1, Receives DEF CreateOutcome
    <1>2. CASE RefuseBody
        <2>1. /\ request.pc = "received" /\ request'.pc = "responding"
              /\ request'.outcome = "invalid" /\ request'.rows = request.rows
            BY <1>2, Responds, OutcomesAre DEF RefuseBody
        <2>. QED
            BY <2>1 DEF CreateOutcome
    <1>3. CASE AdmitCreate
        BY <1>3, Runs DEF AdmitCreate, CreateOutcome
    <1>4. CASE HandleCreate
        <2>. PICK r \in Own :
                 \/ Move("running", [request EXCEPT !.pc = "inserted", !.rows = {r}])
                 \/ Taken(r) /\ Respond("running", "integrity")
                 \/ Respond("running", "unexpected")
            BY <1>4 DEF HandleCreate
        <2>1. CASE Move("running", [request EXCEPT !.pc = "inserted", !.rows = {r}])
            BY <2>1, Inserts DEF CreateOutcome
        <2>2. CASE Taken(r) /\ Respond("running", "integrity")
            <3>1. /\ request.pc = "running" /\ request'.pc = "responding"
                  /\ request'.outcome = "integrity" /\ request'.rows = request.rows
                BY <2>2, Responds, OutcomesAre
            <3>2. Taken(r)'
                BY <1>0, <2>2
            <3>. QED
                BY <3>1, <3>2 DEF CreateOutcome
        <2>3. CASE Respond("running", "unexpected")
            BY <2>3, Responds, OutcomesAre DEF CreateOutcome
        <2>. QED
            BY <2>1, <2>2, <2>3
    <1>5. CASE CommitCreate
        <2>. PICK r \in request.rows :
                 \/ Commit(r) /\ Continue("inserted", "committed")
                 \/ Respond("inserted", "unexpected")
            BY <1>5 DEF CommitCreate
        <2>1. CASE Commit(r) /\ Continue("inserted", "committed")
            <3>1. /\ request.pc = "inserted" /\ request'.pc = "committed"
                  /\ request'.rows = request.rows
                BY <2>1, Continues DEF RequestPc
            <3>2. request.rows = {r} /\ r \in committed'
                BY <2>1, <3>1 DEF CreateOutcome, Commit
            <3>. QED
                BY <3>1, <3>2 DEF CreateOutcome
        <2>2. CASE Respond("inserted", "unexpected")
            BY <2>2, Responds, OutcomesAre DEF CreateOutcome
        <2>. QED
            BY <2>1, <2>2
    <1>6. CASE RefreshCreated
        <2>1. /\ request.pc = "committed" /\ request'.pc = "responding"
              /\ request'.outcome \in {"created", "unexpected"}
              /\ request'.rows = request.rows
            BY <1>6, Responds, OutcomesAre DEF RefreshCreated
        <2>. QED
            BY <1>0, <2>1 DEF CreateOutcome
    <1>7. CASE RespondThroughMiddleware \/ RespondOutsideMiddleware
        <2>1. /\ request.pc = "responding" /\ request'.pc = "over"
              /\ request'.outcome = request.outcome /\ request'.rows = request.rows
            BY <1>7, Answers, Continues DEF RequestPc
        <2>. QED
            BY <1>0, <2>1 DEF CreateOutcome
    <1>8. CASE FinishWalk \/ Others \/ UNCHANGED httpVars
        <2>1. request' = request
            BY <1>8 DEF FinishWalk, Others, httpVars
        <2>. QED
            BY <1>0, <2>1 DEF CreateOutcome
    <1>9. CASE RefuseByLimit \/ AdmitContact \/ AdmitList \/ HandleList \/ HandleContact
        BY <1>9 DEF RefuseByLimit, AdmitContact, AdmitList, HandleList, HandleContact
    <1>. QED
        BY <1>1, <1>2, <1>3, <1>4, <1>5, <1>6, <1>7, <1>8, <1>9 DEF HttpNext

LEMMA HttpNext_ListOutcome ==
    ASSUME HttpTypes, ListOutcome, [HttpNext]_httpVars
    PROVE  ListOutcome'
    <1>. SUFFICES ASSUME endpoint = "list"
                  PROVE  ListOutcome'
        BY EndpointStays DEF ListOutcome
    <1>. USE DEF HttpTypes
    <1>1. CASE Receive
        BY <1>1, Receives DEF ListOutcome
    <1>2. CASE AdmitList
        BY <1>2, Runs, Responds, OutcomesAre DEF AdmitList, ListOutcome
    <1>3. CASE HandleList
        BY <1>3, Responds, OutcomesAre DEF HandleList, ListOutcome
    <1>4. CASE RespondThroughMiddleware \/ RespondOutsideMiddleware
        BY <1>4, Answers, Continues DEF RequestPc, ListOutcome
    <1>5. CASE FinishWalk \/ Others \/ UNCHANGED httpVars
        BY <1>5 DEF FinishWalk, Others, httpVars, ListOutcome
    <1>6. CASE CommitCreate \/ RefreshCreated
        BY <1>6 DEF CommitCreate, RefreshCreated, Continue, Respond, Move, ListOutcome
    <1>7. CASE \/ RefuseBody \/ RefuseByLimit \/ AdmitContact \/ AdmitCreate
               \/ HandleContact \/ HandleCreate
        BY <1>7 DEF RefuseBody, RefuseByLimit, AdmitContact, AdmitCreate, HandleContact,
                    HandleCreate
    <1>. QED
        BY <1>1, <1>2, <1>3, <1>4, <1>5, <1>6, <1>7 DEF HttpNext

LEMMA OutcomeInvariance == HttpSpec => []OutcomeInv
    <1>1. HttpInit => OutcomeInv
        BY DEF HttpInit, NoRequest, OutcomeInv, ContactOutcome, CreateOutcome, ListOutcome
    <1>2. HttpTypes /\ OutcomeInv /\ [HttpNext]_httpVars => OutcomeInv'
        BY HttpNext_ContactOutcome, HttpNext_CreateOutcome, HttpNext_ListOutcome
           DEF OutcomeInv
    <1>. QED
        BY <1>1, <1>2, HttpTypesInvariance, PTL DEF HttpSpec

\* Whatever fails on the way, and whichever endpoint it is, a client that reads the
\* status knows what its request has done, unless it is a server error.
THEOREM StatusesAreTrue == HttpSpec => []AnswersTellTheOutcome
    <1>1. HttpTypes /\ ContactInv /\ OutcomeInv => AnswersTellTheOutcome
        <2>. SUFFICES ASSUME HttpTypes, ContactInv, OutcomeInv, request.pc = "over"
                      PROVE  /\ Status < 300 => Effects = Promised
                             /\ Status \in 400..499 => Effects = {}
                             /\ Status = 201 => request.rows # {}
                             /\ Status = 409 => \E r \in Own : Taken(r)
            BY DEF AnswersTellTheOutcome
        <2>. DEFINE o == request.outcome
        <2>1. /\ Status < 300 => o \in {"listed", "created"} \cup Delivered
              /\ Status \in 400..499 => o \in {"invalid", "page_size", "limited", "integrity"}
              /\ Status = 201 => o = "created"
              /\ Status = 409 => o = "integrity"
            BY StatusIs DEF HttpTypes, Request, Status
        <2>. HIDE DEF Status
        <2>2. CASE endpoint = "contact"
            <3>1. /\ o \in {"listed", "created"} \cup Delivered =>
                         /\ request.ran /\ form.pc \in Delivered
                  /\ o \in {"invalid", "page_size", "limited", "integrity"} =>
                         (request.ran => form.pc = "invalid")
                  /\ o # "created" /\ o # "integrity"
                BY <2>2 DEF OutcomeInv, ContactOutcome, Answered, Delivered
            <3>2. form.pc = "invalid" => form.taken = {}
                BY DEF ContactInv, TakenInv
            <3>3. form.pc \in Delivered => form.taken = Recipients
                BY RecipientsOf DEF ContactInv, TakenInv
            <3>4. Effects = IF request.ran THEN form.taken ELSE {}
                BY <2>2 DEF Effects
            <3>5. Promised = Recipients
                BY <2>2 DEF Promised
            <3>. QED
                BY <2>1, <3>1, <3>2, <3>3, <3>4, <3>5
        <2>3. CASE endpoint = "create"
            <3>1. Effects = request.rows \cap committed /\ Promised = request.rows
                BY <2>3 DEF Effects, Promised
            <3>. QED
                BY <2>1, <2>3, <3>1 DEF OutcomeInv, CreateOutcome, Delivered
        <2>4. CASE endpoint = "list"
            <3>1. Effects = {} /\ Promised = {}
                BY <2>4 DEF Effects, Promised
            <3>. QED
                BY <2>1, <2>4, <3>1 DEF OutcomeInv, ListOutcome
        <2>. QED
            BY <2>2, <2>3, <2>4 DEF HttpTypes
    <1>2. HttpSpec => []ContactInv
        BY LayerRefinesComponents, ContactInvariance DEF ComponentsKeepTheirSpecs
    <1>. QED
        BY <1>1, <1>2, HttpTypesInvariance, OutcomeInvariance, PTL

\* Every variable of the lists, the form and the HTTP layer keeps its type.
THEOREM HttpTypesCorrect == HttpSpec => []HttpTypeOK
    <1>1. ListSpec => []ListTypeOK
        <2>1. ListInv => ListTypeOK
            BY DEF ListInv
        <2>. QED
            BY <2>1, ListInvariance, PTL
    <1>2. ContactSpec => []ContactTypeOK
        <2>1. ContactInv => ContactTypeOK
            BY DEF ContactInv
        <2>. QED
            BY <2>1, ContactInvariance, PTL
    <1>3. ListTypeOK /\ ContactTypeOK /\ HttpTypes => HttpTypeOK
        BY DEF HttpTypes, HttpTypeOK
    <1>. QED
        BY <1>1, <1>2, <1>3, LayerRefinesComponents, HttpTypesInvariance, PTL
           DEF ComponentsKeepTheirSpecs

=============================================================================
