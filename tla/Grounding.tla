------------------------------ MODULE Grounding ------------------------------
(***************************************************************************)
(* One question through RagService.answer: it is embedded, hits are        *)
(* searched, weak evidence is rejected, the language model is asked, and   *)
(* its payload, which may be anything, is normalised into the answer the   *)
(* API returns. Calls of the OpenAI-compatible provider run under          *)
(* RetryService.                                                           *)
(*                                                                         *)
(* Scores and confidences are integers: a score s stands for s / Full, a   *)
(* confidence c for c / (600 * Full), the unit in which the weights of     *)
(* calculate_confidence and the mean of up to three scores are whole.      *)
(* Confidences are rounded to four digits: to multiples of Grid.           *)
(***************************************************************************)
EXTENDS Naturals

CONSTANTS
    Full,           \* the score 1.0
    Grid,           \* the confidence 0.0001: a step of round(..., 4)
    MinConfidence,  \* settings.grounded_answer_min_confidence
    ModelAttempts,  \* settings.model_retry_attempts
    TopK,           \* hits a search returns at most
    Largest,        \* the largest number that float() reads
    Claimed         \* BOUND: the confidences a payload may claim

One == 600 * Full

ASSUME GroundingAssumption ==
    /\ Full \in Nat \ {0}
    /\ Grid \in Nat \ {0}
    /\ \E n \in 1..One : One = n * Grid
    /\ MinConfidence \in 0..One
    /\ ModelAttempts \in Nat \ {0}
    /\ TopK \in Nat \ {0}
    /\ Largest \in Nat
    /\ Claimed \subseteq Nat

VARIABLES
    provider,    \* settings.embedding_provider and settings.llm_provider
    stage,       \* where the request is
    calls,       \* failed attempts of the provider call under way
    scores,      \* score of each hit, best first
    confidence,  \* RetrievalResult.confidence
    response     \* the QueryData of a request that is answered

evidence == <<scores, confidence>>
vars == <<provider, stage, calls, evidence, response>>

AnswerStatus == {"grounded", "unsupported", "insufficient_context"}
Stage == {"embedding", "retrieved", "asking",
          "answered", "unavailable", "search_failed", "error"}

\* Scores of a search by distance. (The distance of a vector of zeros is no
\* number and sorts last with the score 1.0: such embeddings are left out.)
Hits == {s \in UNION {[1..n -> 0..Full] : n \in 0..TopK} :
            \A i, j \in DOMAIN s : i < j => s[j] <= s[i]}

\* answer: there is one; refs: the references [n] in it; unchecked: those of them
\* that nobody compared with the contexts; reason: rejection_reason is set.
Response == [status : AnswerStatus, answer : BOOLEAN, refs : SUBSET Nat, unchecked : SUBSET Nat,
             confidence : 0..One, reason : BOOLEAN]
NoResponse == [status |-> "unsupported", answer |-> FALSE, refs |-> {}, unchecked |-> {},
               confidence |-> 0, reason |-> FALSE]

TypeOK ==
    /\ provider \in [{"embedding", "asking"} -> {"placeholder", "openai"}]
    /\ stage \in Stage
    /\ calls \in 0..(ModelAttempts - 1)
    /\ scores \in Hits
    /\ confidence \in 0..One
    /\ response \in Response

-----------------------------------------------------------------------------
(* The evidence *)

Hit == DOMAIN scores

\* 0.65 of the best score and 0.35 of the mean of the first three.
Weighted(s) ==
    IF s = << >> THEN 0
    ELSE 390 * s[1] +
         IF 3 \in DOMAIN s THEN 70 * (s[1] + s[2] + s[3])
         ELSE IF 2 \in DOMAIN s THEN 105 * (s[1] + s[2])
         ELSE 210 * s[1]

\* round(c, 4): in the middle between two multiples, the floating-point number
\* decides between them.
OnGrid == {c \in 0..One : \E k \in 0..c : c = k * Grid}
Rounded(c) == {g \in OnGrid : 2 * g <= 2 * c + Grid /\ 2 * c <= 2 * g + Grid}

Weak == Hit = {} \/ confidence < MinConfidence

Rejection ==
    [status |-> IF Hit = {} THEN "insufficient_context" ELSE "unsupported",
     answer |-> FALSE, refs |-> {}, unchecked |-> {}, confidence |-> confidence, reason |-> TRUE]

-----------------------------------------------------------------------------
(* The payload of the language model *)

\* What the normalisation tells apart. status: a known one, none, or something
\* else. answer: false in Python, a blank string or no string, or a sentence made
\* of words and references; around: the references that enclose one to no context,
\* as 7 does in "[[9]7]". A confidence that is no number is replaced by that of
\* retrieval, as one above it is; one above Largest is an integer float() refuses.
Payload ==
    {p \in [status : AnswerStatus \cup {"missing", "unknown"},
            answer : {"none", "unusable", "said"}, words : BOOLEAN, refs : SUBSET (0..TopK + 1),
            around : SUBSET {1, TopK + 1}, confidence : Claimed, reason : BOOLEAN] :
        /\ p.answer = "said" <=> p.words \/ p.refs # {}
        /\ p.around # {} => p.refs \ Hit # {}}

Said(p) == p.answer = "said"

\* Mutant of ValidRefs: references are compared with top_k, not with the contexts.
RefsUpToTopK(p) == p.refs \cap 1..TopK

ValidRefs(p) == p.refs \cap Hit

\* The references to no context are removed in one pass: what enclosed one is a
\* reference now, which nobody compares with the contexts.
Left(p) == ValidRefs(p) \cup p.around

\* Without its references to no context nothing is left: normalized[-1] raises.
Emptied(p) == Said(p) /\ ~p.words /\ Left(p) = {}

\* An answer without a reference gets those of the first two contexts.
Refs(p) == IF Left(p) # {} THEN Left(p) ELSE Hit \cap 1..2

\* Mutant of ClaimedConfidence: the model's own confidence is believed.
Believed(p) == {p.confidence}

ClaimedConfidence(p) ==
    Rounded(IF p.confidence > confidence THEN confidence ELSE p.confidence)

\* float() raises OverflowError, which _normalize_confidence does not expect.
Unreadable(p) == p.confidence > Largest

ReadStatus(p) ==
    IF p.status \in AnswerStatus THEN p.status
    ELSE IF p.status = "missing" \/ p.answer # "none" THEN "grounded" ELSE "unsupported"

Grounded(p) == ReadStatus(p) = "grounded" /\ Said(p)

\* Mutant of Normalized: the answer of a rejected payload is passed on.
KeepAnswer(p) ==
    [status     : {IF ReadStatus(p) = "grounded" /\ ~Said(p) THEN "unsupported" ELSE ReadStatus(p)},
     answer     : {Said(p)},
     refs       : {IF Said(p) THEN Refs(p) ELSE {}},
     unchecked  : {p.around},
     confidence : ClaimedConfidence(p),
     reason     : {p.reason \/ ~Grounded(p)}]

Normalized(p) ==
    [status     : {IF ReadStatus(p) = "grounded" /\ ~Said(p) THEN "unsupported" ELSE ReadStatus(p)},
     answer     : {Grounded(p)},
     refs       : {IF Grounded(p) THEN Refs(p) ELSE {}},
     unchecked  : {IF Grounded(p) THEN p.around ELSE {}},
     confidence : ClaimedConfidence(p),
     reason     : {p.reason \/ ~Grounded(p)}]

\* PlaceholderLLMService quotes the first three contexts, each with its reference.
\* What reads like a reference in the text of a chunk is quoted too, unchecked.
Quoted ==
    {[status |-> "grounded", answer |-> TRUE, refs |-> (Hit \cap 1..3) \cup quoted,
      unchecked |-> quoted, confidence |-> confidence, reason |-> FALSE] :
        quoted \in SUBSET (0..TopK + 1)}

-----------------------------------------------------------------------------
(* The request *)

Init ==
    /\ provider \in [{"embedding", "asking"} -> {"placeholder", "openai"}]
    /\ stage = "embedding"
    /\ calls = 0
    /\ scores = << >>
    /\ confidence = 0
    /\ response = NoResponse

Enter(s) == stage' = s /\ calls' = 0

Answered(r) == Enter("answered") /\ response' = r /\ UNCHANGED <<provider, evidence>>

Moves(s) == Enter(s) /\ UNCHANGED <<provider, evidence, response>>

\* A provider call is under way.
Calling == stage \in {"embedding", "asking"} /\ provider[stage] = "openai"

\* Mutant of CallFails: the loop begins again where it should raise.
CallFailsAgain ==
    /\ Calling
    /\ calls' = (calls + 1) % ModelAttempts
    /\ UNCHANGED <<provider, stage, evidence, response>>

\* A timeout, a transport error or a retryable status code.
CallFails ==
    /\ Calling
    /\ IF calls + 1 >= ModelAttempts
         THEN Enter("unavailable")
         ELSE calls' = calls + 1 /\ UNCHANGED stage
    /\ UNCHANGED <<provider, evidence, response>>

\* Another status code, or a body, vector or payload of the wrong shape.
CallRefused == Calling /\ Moves("unavailable")

\* The question is embedded and the statement of build_query raises.
SearchFails == stage = "embedding" /\ Moves("search_failed")

Retrieve ==
    /\ stage = "embedding"
    /\ Enter("retrieved")
    /\ scores' \in Hits
    /\ confidence' \in Rounded(Weighted(scores'))
    /\ UNCHANGED <<provider, response>>

Reject == stage = "retrieved" /\ Weak /\ Answered(Rejection)

Ask ==
    /\ stage = "retrieved"
    /\ ~Weak
    /\ Moves("asking")

Quote ==
    /\ stage = "asking"
    /\ provider["asking"] = "placeholder"
    /\ \E r \in Quoted : Answered(r)

Normalize ==
    /\ stage = "asking"
    /\ provider["asking"] = "openai"
    /\ \E p \in Payload : IF Emptied(p) \/ Unreadable(p)
                            THEN Moves("error")
                            ELSE \E r \in Normalized(p) : Answered(r)

Settled == stage \in {"answered", "unavailable", "search_failed", "error"}

Rest == Settled /\ UNCHANGED vars

Next ==
    \/ CallFails \/ CallRefused \/ Retrieve \/ SearchFails \/ Reject \/ Ask
    \/ Quote \/ Normalize \/ Rest

Spec == Init /\ [][Next]_vars

\* The thread of the request runs.
FairSpec == Spec /\ WF_vars(Next)

-----------------------------------------------------------------------------
(* Properties *)

\* "Answers are citation-backed at the chunk level" (README) holds of the texts as
\* far as they are checked: whatever payload the model returned, every reference
\* of a grounded answer is to a context, unless it was quoted from the text of a
\* chunk or made by the normalisation, which removes what stood inside its
\* brackets. At least one is to a context, unless the normalisation made some: it
\* counts those as valid (llm.py:288) and adds no others. And the best context
\* alone reaches the threshold, to half a step of the rounding.
GroundedIsBacked ==
    stage = "answered" /\ response.status = "grounded" =>
        /\ response.answer
        /\ response.refs \ response.unchecked \subseteq Hit
        /\ \/ response.refs \cap Hit # {}
           \/ provider["asking"] = "openai" /\ response.unchecked # {}
        /\ 1200 * scores[1] + Grid >= 2 * MinConfidence

\* "the API rejects unsupported answers instead of fabricating them" (README):
\* without the status grounded there is no text, no reference and a reason.
RejectionsSayWhy ==
    stage = "answered" /\ response.status # "grounded" =>
        ~response.answer /\ response.refs = {} /\ response.reason

\* The confidence of a response never exceeds that of retrieval, although it is
\* rounded once more, and exceeds the best score by half a step of the rounding
\* at most, however many hits are averaged and whatever the model claims.
ConfidenceIsEarned ==
    stage = "answered" =>
        /\ response.confidence <= confidence
        /\ Hit # {} => 2 * response.confidence <= 1200 * scores[1] + Grid

\* Retries end: every question is answered or refused.
QuestionSettles == <>Settled

\* "the API rejects unsupported answers" (README): a payload that cites nothing it
\* was given is rejected, not an unhandled error.
NoUnhandledError == stage # "error"
=============================================================================
