------------------------------- MODULE Contact -------------------------------
(***************************************************************************)
(* The contact form: a submission is validated and mailed to the owner     *)
(* and, when it gives an email address, confirmed to the sender, in one    *)
(* SMTP session inside the request. The mail server may refuse or break    *)
(* off at every command, and may have taken a message whose reply is lost. *)
(* A visitor whose submission failed sends it again.                       *)
(***************************************************************************)
EXTENDS Naturals, Sequences

CONSTANT MaxSubmissions   \* bound on the submissions of the visitor

ASSUME ContactAssumption == MaxSubmissions \in Nat

VARIABLES
    form,     \* the submission: the request's local state and its outcome
    mail,     \* how often the mail server took the owner's and the sender's message
    failures  \* submissions answered "Contact delivery failed"

contactVars == <<form, mail, failures>>

Parties == {"owner", "sender"}
Payload == [email : BOOLEAN, phone : BOOLEAN]

FormPc == {"idle", "validating", "configuring", "connecting", "securing", "sending",
           "quitting", "owner_and_sender_notified", "owner_notified_only",
           "invalid", "not_configured", "failed"}
Form == [pc : FormPc, payload : Payload, sent : 0..2, taken : SUBSET Parties, number : Nat]

Delivered == {"owner_and_sender_notified", "owner_notified_only"}
Answered == Delivered \cup {"invalid", "not_configured", "failed"}

ContactTypeOK ==
    /\ form \in Form
    /\ mail \in [Parties -> Nat]
    /\ failures \in Nat

ContactInit ==
    /\ form = [pc |-> "idle", payload |-> [email |-> FALSE, phone |-> FALSE],
               sent |-> 0, taken |-> {}, number |-> 0]
    /\ mail = [p \in Parties |-> 0]
    /\ failures = 0

FormTo(from, to) == form.pc = from /\ form' = [form EXCEPT !.pc = to]

-----------------------------------------------------------------------------

\* The visitor sends the form, again after any answer but a success.
Submit(payload) ==
    /\ form.pc \in {"idle"} \cup (Answered \ Delivered)
    /\ form.number < MaxSubmissions
    /\ form' = [pc |-> "validating", payload |-> payload, sent |-> 0, taken |-> {},
                number |-> form.number + 1]
    /\ UNCHANGED <<mail, failures>>

\* A blank email or phone number counts as none; one of them is required.
GivesContact(payload) == payload.email \/ payload.phone

Validate ==
    /\ \/ GivesContact(form.payload) /\ FormTo("validating", "configuring")
       \/ FormTo("validating", "invalid")  \* this field or another one is refused
    /\ UNCHANGED <<mail, failures>>

\* smtp_host and contact_receiver_email are set, or not.
Configure ==
    /\ FormTo("configuring", "connecting") \/ FormTo("configuring", "not_configured")
    /\ UNCHANGED <<mail, failures>>

\* STARTTLS and a login follow when the settings ask for them.
Connect ==
    /\ FormTo("connecting", "securing") \/ FormTo("connecting", "sending")
    /\ UNCHANGED <<mail, failures>>

Secure ==
    /\ FormTo("securing", "sending")
    /\ UNCHANGED <<mail, failures>>

\* Mutant of Messages: the sender's confirmation goes first.
ConfirmationFirst(payload) ==
    IF payload.email THEN <<"sender", "owner">> ELSE <<"owner">>

Messages(payload) == IF payload.email THEN <<"owner", "sender">> ELSE <<"owner">>

Take(p) == mail' = [mail EXCEPT ![p] = @ + 1]

SendMessage ==
    LET messages == Messages(form.payload)
        p == messages[form.sent + 1]
        last == form.sent + 1 = Len(messages)
    IN /\ form.pc = "sending"
       /\ form' = [form EXCEPT !.sent = @ + 1, !.taken = @ \cup {p},
                               !.pc = IF last THEN "quitting" ELSE "sending"]
       /\ Take(p)
       /\ UNCHANGED failures

Fail(taken) ==
    /\ form' = [form EXCEPT !.pc = "failed", !.taken = taken]
    /\ failures' = failures + 1

\* The server refuses the connection, STARTTLS, the login or the message, or is gone.
SessionFails ==
    /\ form.pc \in {"connecting", "securing", "sending"}
    /\ Fail(form.taken)
    /\ UNCHANGED mail

\* Mutant of ReplyLost: a message whose reply is lost is sent again.
ResendOnLostReply ==
    /\ form.pc = "sending"
    /\ Take(Messages(form.payload)[form.sent + 1])
    /\ UNCHANGED <<form, failures>>

\* The server has taken the message, its reply is lost or late.
ReplyLost ==
    LET p == Messages(form.payload)[form.sent + 1]
    IN /\ form.pc = "sending"
       /\ Fail(form.taken \cup {p})
       /\ Take(p)

\* "with server" ends the session: a QUIT that is answered 221, or not at all, is
\* ignored.
Quit ==
    /\ FormTo("quitting", IF form.payload.email THEN "owner_and_sender_notified"
                                                ELSE "owner_notified_only")
    /\ UNCHANGED <<mail, failures>>

\* Any other answer to QUIT is an SMTPResponseException: everything is delivered,
\* and the visitor reads that it failed.
QuitRefused ==
    /\ form.pc = "quitting"
    /\ Fail(form.taken)
    /\ UNCHANGED mail

ContactRequest ==
    \/ Validate \/ Configure \/ Connect \/ Secure \/ SendMessage
    \/ SessionFails \/ ReplyLost \/ Quit \/ QuitRefused

ContactNext == ContactRequest \/ \E payload \in Payload : Submit(payload)

ContactSpec == ContactInit /\ [][ContactNext]_contactVars

-----------------------------------------------------------------------------
(* Properties *)

Recipients == {Messages(form.payload)[i] : i \in 1..Len(Messages(form.payload))}

\* Nobody is told of a delivery that did not happen. A success is only reported
\* when the server has taken every message it speaks of ("has been delivered", "a
\* confirmation email has been sent"), and the confirmation itself ("Your message
\* has been delivered successfully") is only taken after the owner's message,
\* whatever fails in between or afterwards.
NoticesAreTrue ==
    /\ form.pc \in Delivered =>
           form.taken = {"owner"} \cup (IF form.payload.email THEN {"sender"} ELSE {})
    /\ "sender" \in form.taken => "owner" \in form.taken

\* Owner and sender get a submission once; a further copy is of one the visitor
\* was told had failed.
CopiesFollowFailures == \A p \in Parties : mail[p] <= failures + 1
=============================================================================
