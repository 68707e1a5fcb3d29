--------------------------- MODULE GroundingProofs ---------------------------
(* Proofs about Grounding for every threshold, scale, top_k and payload.     *)
EXTENDS Grounding, TLAPS

\* The hits are 1..n for some n, and the scores descend.
LEMMA HitsShape ==
    ASSUME scores \in Hits
    PROVE  /\ \E n \in 0..TopK : Hit = 1..n
           /\ \A i \in Hit : i \in Nat \ {0} /\ scores[i] \in 0..Full
           /\ \A i, j \in Hit : i < j => scores[j] <= scores[i]
    <1>1. PICK n \in 0..TopK : scores \in [1..n -> 0..Full]
        BY DEF Hits
    <1>2. Hit = 1..n
        BY <1>1 DEF Hit
    <1>. QED
        BY <1>1, <1>2 DEF Hits, Hit

\* The weights sum to one and the first score is the best: the weighted mean is
\* no higher.
LEMMA WeightedBound ==
    ASSUME NEW s \in Hits
    PROVE  /\ Weighted(s) \in 0..One
           /\ DOMAIN s # {} => 1 \in DOMAIN s /\ Weighted(s) <= 600 * s[1]
    <1>1. PICK n \in 0..TopK : s \in [1..n -> 0..Full]
        BY DEF Hits
    <1>2. /\ n \in Nat /\ Full \in Nat /\ DOMAIN s = 1..n 
          /\ \A i \in 1..n : s[i] \in 0..Full
          /\ \A i, j \in 1..n : i < j => s[j] <= s[i]
        BY <1>1, GroundingAssumption DEF GroundingAssumption, Hits
    <1>3. CASE n = 0
        <2>1. s = << >>
            BY <1>2, <1>3
        <2>. QED
            BY <1>2, <1>3, <2>1 DEF Weighted, One
    <1>a. n # 0 => s # << >>
        BY <1>2
    <1>4. CASE n = 1
        <2>1. 1 \in DOMAIN s /\ 2 \notin DOMAIN s /\ 3 \notin DOMAIN s /\ s[1] \in 0..Full
            BY <1>2, <1>4
        <2>2. Weighted(s) = 390 * s[1] + 210 * s[1]
            BY <1>4, <1>a, <2>1 DEF Weighted
        <2>. QED
            BY <1>2, <2>1, <2>2 DEF One
    <1>5. CASE n = 2
        <2>1. /\ 1 \in DOMAIN s /\ 2 \in DOMAIN s /\ 3 \notin DOMAIN s
              /\ s[1] \in 0..Full /\ s[2] \in 0..Full /\ s[2] <= s[1]
            BY <1>2, <1>5
        <2>2. Weighted(s) = 390 * s[1] + 105 * (s[1] + s[2])
            BY <1>5, <1>a, <2>1 DEF Weighted
        <2>. QED
            BY <1>2, <2>1, <2>2 DEF One
    <1>6. CASE n > 2
        <2>1. /\ 1 \in DOMAIN s /\ 2 \in DOMAIN s /\ 3 \in DOMAIN s
              /\ s[1] \in 0..Full /\ s[2] \in 0..Full /\ s[3] \in 0..Full
              /\ s[2] <= s[1] /\ s[3] <= s[1]
            BY <1>2, <1>6
        <2>2. Weighted(s) = 390 * s[1] + 70 * (s[1] + s[2] + s[3])
            BY <1>6, <1>a, <2>1 DEF Weighted
        <2>. QED
            BY <1>2, <2>1, <2>2 DEF One
    <1>. QED
        BY <1>2, <1>3, <1>4, <1>5, <1>6

\* Two multiples of a step that differ are a step apart.
LEMMA StepsApart ==
    ASSUME NEW g \in Nat \ {0}, NEW i \in Nat, NEW k \in Nat, i * g < k * g
    PROVE  i * g + g <= k * g
    <1>1. i < k
        <2>1. ASSUME k <= i
              PROVE  FALSE
            <3>1. PICK d \in Nat : i = k + d
                <4>1. i - k \in Nat /\ i = k + (i - k)
                    BY <2>1
                <4>. QED
                    BY <4>1
            <3>2. i * g = k * g + d * g /\ d * g \in Nat
                BY <3>1
            <3>. QED
                BY <3>2
        <2>. QED
            BY <2>1
    <1>2. PICK d \in Nat : k = i + 1 + d
        <2>1. k - i - 1 \in Nat /\ k = i + 1 + (k - i - 1)
            BY <1>1
        <2>. QED
            BY <2>1
    <1>3. k * g = i * g + g + d * g /\ d * g \in Nat
        BY <1>2
    <1>. QED
        BY <1>3

\* What is rounded lies half a step at most from what it was, and does not get
\* beyond a rounded number that was no smaller.
LEMMA RoundedBound ==
    ASSUME NEW c \in Nat, NEW g \in Rounded(c)
    PROVE  /\ g \in OnGrid /\ g \in 0..One
           /\ 2 * g <= 2 * c + Grid
           /\ \A h \in OnGrid : c <= h => g <= h
    <1>1. g \in OnGrid /\ g \in 0..One /\ 2 * g <= 2 * c + Grid
        BY DEF Rounded, OnGrid
    <1>2. Grid \in Nat \ {0} /\ One \in Nat
        BY GroundingAssumption DEF GroundingAssumption, One
    <1>3. ASSUME NEW h \in OnGrid, c <= h, h < g
          PROVE  FALSE
        <2>1. h \in Nat /\ g \in Nat
            BY <1>1, <1>2 DEF OnGrid
        <2>2. PICK i \in 0..h : h = i * Grid
            BY DEF OnGrid
        <2>3. PICK k \in 0..g : g = k * Grid
            BY <1>1 DEF OnGrid
        <2>4. h + Grid <= g
            BY <1>2, <1>3, <2>1, <2>2, <2>3, StepsApart
        <2>. QED
            BY <1>1, <1>2, <1>3, <2>1, <2>4
    <1>4. \A h \in OnGrid : h \in Nat
        BY <1>2 DEF OnGrid
    <1>5. ASSUME NEW h \in OnGrid, c <= h
          PROVE  g <= h
        BY <1>1, <1>2, <1>3, <1>4, <1>5
    <1>. QED
        BY <1>1, <1>5

\* What retrieval is confident of, as it leaves calculate_confidence.
Measured == /\ confidence \in OnGrid
            /\ Hit # {} => 1 \in Hit /\ 2 * confidence <= 1200 * scores[1] + Grid

\* What the normalisation of any payload returns, unless it raises.
LEMMA NormalizedFields ==
    ASSUME scores \in Hits, Measured, Hit # {}, NEW p \in Payload, ~Emptied(p), NEW r \in Normalized(p)
    PROVE  /\ r \in Response
           /\ r.confidence <= confidence
           /\ r.status = "grounded" =>
                  /\ r.answer
                  /\ r.refs \ r.unchecked \subseteq Hit
                  /\ r.refs \cap Hit # {} \/ r.unchecked # {}
           /\ r.status # "grounded" => ~r.answer /\ r.refs = {} /\ r.reason
    <1>. DEFINE PayloadRecord ==
             [status : AnswerStatus \cup {"missing", "unknown"},
              answer : {"none", "unusable", "said"}, words : BOOLEAN, refs : SUBSET (0..TopK + 1),
              around : SUBSET {1, TopK + 1}, confidence : Claimed, reason : BOOLEAN]
    <1>0. p \in PayloadRecord
        BY DEF Payload
    <1>1. p.confidence \in Claimed /\ p.reason \in BOOLEAN /\ p.around \subseteq {1, TopK + 1}
        BY <1>0
    <1>2. p.confidence \in Nat /\ p.around \subseteq Nat
        <2>1. 1 \in Nat /\ TopK + 1 \in Nat /\ Claimed \subseteq Nat
            BY GroundingAssumption DEF GroundingAssumption
        <2>. HIDE DEF PayloadRecord
        <2>2. \A k \in {1, TopK + 1} : k \in Nat
            BY <2>1
        <2>. QED
            BY <1>1, <2>1, <2>2
    <1>. HIDE DEF PayloadRecord
    <1>3. confidence \in OnGrid /\ confidence \in Nat /\ 1 \in Hit /\ Hit \subseteq Nat
        BY HitsShape, GroundingAssumption DEF Measured, OnGrid, One, GroundingAssumption
    <1>4. /\ r.status = IF ReadStatus(p) = "grounded" /\ ~Said(p) THEN "unsupported" ELSE ReadStatus(p)
          /\ r.answer = Grounded(p)
          /\ r.refs = (IF Grounded(p) THEN Refs(p) ELSE {})
          /\ r.unchecked = (IF Grounded(p) THEN p.around ELSE {})
          /\ r.confidence \in ClaimedConfidence(p)
          /\ r.reason = (p.reason \/ ~Grounded(p))
        BY DEF Normalized
    <1>5. r.confidence \in 0..One /\ r.confidence <= confidence
        <2>1. PICK c \in Nat : c <= confidence /\ r.confidence \in Rounded(c)
            BY <1>2, <1>3, <1>4 DEF ClaimedConfidence
        <2>. QED
            BY <1>3, <2>1, RoundedBound
    <1>6. /\ Refs(p) \subseteq Hit \cup p.around
          /\ Refs(p) \cap Hit # {} \/ p.around # {}
        BY <1>3 DEF Refs, Left, ValidRefs
    <1>7. ReadStatus(p) \in AnswerStatus
        BY DEF ReadStatus, AnswerStatus
    <1>8. CASE Grounded(p)
        <2>1. r.status = "grounded" /\ r.answer /\ r.refs = Refs(p) /\ r.unchecked = p.around
            BY <1>4, <1>8 DEF Grounded
        <2>2. Refs(p) \in SUBSET Nat
            BY <1>2, <1>3, <1>6
        <2>3. r \in Response
            BY <1>1, <1>2, <1>5, <2>1, <2>2 DEF Normalized, Response, AnswerStatus
        <2>. QED
            BY <1>5, <1>6, <2>1, <2>3
    <1>9. CASE ~Grounded(p)
        <2>1. r.status # "grounded" /\ ~r.answer /\ r.refs = {} /\ r.unchecked = {} /\ r.reason
            BY <1>4, <1>9 DEF Grounded
        <2>2. r.status \in AnswerStatus
            BY <1>4, <1>7 DEF AnswerStatus
        <2>3. r.answer \in BOOLEAN /\ r.reason \in BOOLEAN
            BY <1>4, <1>9 DEF Grounded
        <2>4. r \in Response
            BY <1>5, <2>1, <2>2, <2>3 DEF Normalized, Response
        <2>. QED
            BY <1>5, <2>1, <2>4
    <1>. QED
        BY <1>8, <1>9

\* What the placeholder returns, whatever the chunks it quotes contain.
LEMMA QuotedFields ==
    ASSUME scores \in Hits, Measured, Hit # {}, NEW r \in Quoted
    PROVE  /\ r \in Response /\ r.status = "grounded" /\ r.answer
           /\ r.confidence = confidence
           /\ r.refs \ r.unchecked \subseteq Hit /\ r.refs \cap Hit # {}
    <1>1. PICK quoted \in SUBSET (0..TopK + 1) :
              r = [status |-> "grounded", answer |-> TRUE, refs |-> (Hit \cap 1..3) \cup quoted,
                   unchecked |-> quoted, confidence |-> confidence, reason |-> FALSE]
        BY DEF Quoted
    <1>2. /\ confidence \in 0..One /\ 1 \in Hit /\ Hit \subseteq Nat /\ quoted \subseteq Nat
        BY HitsShape, GroundingAssumption DEF Measured, OnGrid, GroundingAssumption
    <1>3. (Hit \cap 1..3) \cup quoted \in SUBSET Nat /\ 1 \in Hit \cap 1..3
        BY <1>2
    <1>. QED
        BY <1>1, <1>2, <1>3 DEF Response, AnswerStatus

-----------------------------------------------------------------------------
(* The invariant: the model is only asked about evidence above the threshold, *)
(* and the confidence that is compared with it is that of the hits            *)

GroundingInv ==
    /\ TypeOK
    /\ Measured
    /\ stage = "asking" => ~Weak
    /\ GroundedIsBacked
    /\ RejectionsSayWhy
    /\ ConfidenceIsEarned

LEMMA InitGrounding == Init => GroundingInv
    <1>. SUFFICES ASSUME Init PROVE GroundingInv
        OBVIOUS
    <1>1. scores \in [1..0 -> 0..Full] /\ DOMAIN scores = {} /\ 0 \in 0..TopK
        BY GroundingAssumption DEF Init, GroundingAssumption
    <1>2. scores \in Hits
        BY <1>1 DEF Hits
    <1>3. 0 = 0 * Grid /\ 0 \in 0..One /\ 0 \in 0..0
        BY GroundingAssumption DEF GroundingAssumption, One
    <1>4. Measured
        BY <1>1, <1>3 DEF Init, Measured, OnGrid, Hit
    <1>. QED
        BY <1>2, <1>3, <1>4, GroundingAssumption
        DEF Init, GroundingInv, TypeOK, Stage, NoResponse, Response, AnswerStatus,
            GroundedIsBacked, RejectionsSayWhy, ConfidenceIsEarned, GroundingAssumption

LEMMA NextGrounding == GroundingInv /\ [Next]_vars => GroundingInv'
    <1>. SUFFICES ASSUME GroundingInv, [Next]_vars PROVE GroundingInv'
        OBVIOUS
    <1>. USE DEF GroundedIsBacked, RejectionsSayWhy, ConfidenceIsEarned
    <1>0. TypeOK /\ Measured /\ scores \in Hits /\ 0 \in 0..(ModelAttempts - 1)
        BY GroundingAssumption DEF GroundingInv, TypeOK, GroundingAssumption
    <1>a. ASSUME NEW r \in Response, Answered(r), r.confidence <= confidence,
                 r.status = "grounded" =>
                     /\ r.answer /\ r.refs \ r.unchecked \subseteq Hit
                     /\ r.refs \cap Hit # {} \/ (provider["asking"] = "openai" /\ r.unchecked # {})
                     /\ ~Weak,
                 r.status # "grounded" => ~r.answer /\ r.refs = {} /\ r.reason
          PROVE  GroundingInv'
        <2>1. TypeOK'
            BY <1>0, <1>a DEF Answered, Enter, TypeOK, Stage, evidence
        <2>2. /\ stage' = "answered" /\ response' = r /\ UNCHANGED <<scores, confidence, provider>>
              /\ Hit' = Hit
            BY <1>a DEF Answered, Enter, Hit, evidence
        <2>3. Measured'
            BY <1>0, <2>2 DEF Measured
        <2>4. /\ confidence \in Nat /\ r.confidence \in Nat /\ MinConfidence \in Nat /\ Grid \in Nat
              /\ \A i \in Hit : scores[i] \in Nat
            BY <1>0, HitsShape, GroundingAssumption
            DEF TypeOK, Response, One, GroundingAssumption
        <2>5. ConfidenceIsEarned'
            BY <1>0, <1>a, <2>2, <2>4 DEF Measured
        <2>6. GroundedIsBacked'
            <3>1. ~Weak => 1200 * scores[1] + Grid >= 2 * MinConfidence
                BY <1>0, <2>4 DEF Weak, Measured
            <3>. QED
                BY <1>a, <2>2, <3>1
        <2>7. RejectionsSayWhy'
            BY <1>a, <2>2
        <2>. QED
            BY <2>1, <2>2, <2>3, <2>5, <2>6, <2>7 DEF GroundingInv
    <1>b. ASSUME NEW s \in Stage \ {"asking", "answered"}, Moves(s)
          PROVE  GroundingInv'
        <2>1. TypeOK'
            BY <1>0, <1>b DEF Moves, Enter, TypeOK, evidence
        <2>. QED
            BY <1>0, <1>b, <2>1 DEF Moves, Enter, GroundingInv, Measured, Hit, evidence
    <1>1. CASE CallFails
        <2>1. CASE calls + 1 >= ModelAttempts
            BY <1>1, <1>b, <2>1 DEF CallFails, Moves, Stage
        <2>2. CASE ~(calls + 1 >= ModelAttempts)
            <3>1. /\ calls' = calls + 1 /\ UNCHANGED <<stage, provider, scores, confidence, response>>
                BY <1>1, <2>2 DEF CallFails, evidence
            <3>2. TypeOK'
                BY <1>0, <2>2, <3>1, GroundingAssumption DEF TypeOK, GroundingAssumption
            <3>. QED
                BY <1>0, <3>1, <3>2 DEF GroundingInv, Weak, Measured, Hit
        <2>. QED
            BY <2>1, <2>2
    <1>2. CASE CallRefused \/ SearchFails
        BY <1>2, <1>b DEF CallRefused, SearchFails, Stage
    <1>3. CASE Retrieve
        <2>1. /\ stage' = "retrieved" /\ calls' = 0 /\ UNCHANGED <<provider, response>>
              /\ scores' \in Hits /\ confidence' \in Rounded(Weighted(scores'))
            BY <1>3 DEF Retrieve, Enter
        <2>2. /\ Weighted(scores') \in 0..One
              /\ Hit' # {} => 1 \in Hit' /\ Weighted(scores') <= 600 * scores'[1]
            BY <2>1, WeightedBound DEF Hit
        <2>3. /\ Weighted(scores') \in Nat /\ confidence' \in OnGrid /\ confidence' \in 0..One
              /\ 2 * confidence' <= 2 * Weighted(scores') + Grid
            <3>1. Weighted(scores') \in Nat
                BY <2>2, GroundingAssumption DEF One, GroundingAssumption
            <3>. QED
                BY <2>1, <3>1, RoundedBound
        <2>4. TypeOK'
            BY <1>0, <2>1, <2>3 DEF TypeOK, Stage
        <2>5. Measured'
            <3>1. ASSUME Hit' # {}
                  PROVE  1 \in Hit' /\ 2 * confidence' <= 1200 * scores'[1] + Grid
                <4>1. 1 \in DOMAIN scores' /\ scores'[1] \in Nat
                    BY <2>1, <2>2, <3>1, GroundingAssumption DEF Hits, Hit, GroundingAssumption
                <4>. QED
                    BY <2>2, <2>3, <3>1, <4>1, GroundingAssumption DEF One, Hit, GroundingAssumption
            <3>. QED
                BY <2>3, <3>1 DEF Measured
        <2>. QED
            BY <2>1, <2>4, <2>5 DEF GroundingInv
    <1>4. CASE Reject
        <2>1. Rejection \in Response
            BY <1>0 DEF Rejection, Response, AnswerStatus, TypeOK
        <2>2. confidence <= confidence
            BY <1>0 DEF TypeOK, One
        <2>. QED
            BY <1>0, <1>4, <1>a, <2>1, <2>2 DEF Reject, Rejection
    <1>5. CASE Ask
        BY <1>0, <1>5 DEF Ask, Moves, Enter, GroundingInv, TypeOK, Stage, Weak, Measured, Hit, evidence
    <1>6. CASE Quote
        <2>1. PICK r \in Quoted : Answered(r)
            BY <1>6 DEF Quote
        <2>2. ~Weak /\ Hit # {} /\ confidence <= confidence
            BY <1>0, <1>6 DEF Quote, GroundingInv, Weak, TypeOK, One
        <2>3. /\ r \in Response /\ r.status = "grounded" /\ r.answer /\ r.confidence = confidence
              /\ r.refs \ r.unchecked \subseteq Hit /\ r.refs \cap Hit # {}
            BY <1>0, <2>2, QuotedFields
        <2>. QED
            BY <1>a, <2>1, <2>2, <2>3
    <1>7. CASE Normalize
        <2>1. PICK p \in Payload : IF Emptied(p) \/ Unreadable(p)
                                     THEN Moves("error")
                                     ELSE \E r \in Normalized(p) : Answered(r)
            BY <1>7 DEF Normalize
        <2>2. ~Weak /\ Hit # {} /\ provider["asking"] = "openai"
            BY <1>7 DEF Normalize, GroundingInv, Weak
        <2>3. CASE Emptied(p) \/ Unreadable(p)
            BY <1>b, <2>1, <2>3 DEF Stage
        <2>4. CASE ~(Emptied(p) \/ Unreadable(p))
            <3>1. PICK r \in Normalized(p) : Answered(r)
                BY <2>1, <2>4
            <3>. QED
                BY <1>0, <1>a, <2>2, <2>4, <3>1, NormalizedFields
        <2>. QED
            BY <2>3, <2>4
    <1>8. CASE UNCHANGED vars
        BY <1>0, <1>8 DEF vars, evidence, GroundingInv, TypeOK, Weak, Measured, Hit
    <1>. QED
        BY <1>1, <1>2, <1>3, <1>4, <1>5, <1>6, <1>7, <1>8 DEF Next, Rest

\* For every payload, every text of the chunks and every threshold: a reference of a
\* grounded answer is to a context, unless it stood in a chunk that was quoted or
\* the removal of another one made it, and the best context reaches the threshold.
THEOREM GroundedAnswersAreBacked == Spec => []GroundedIsBacked
    BY InitGrounding, NextGrounding, PTL DEF Spec, GroundingInv

\* No payload makes a rejection that carries text or lacks a reason.
THEOREM RejectionsAreExplained == Spec => []RejectionsSayWhy
    BY InitGrounding, NextGrounding, PTL DEF Spec, GroundingInv

\* No payload and no number of hits raises the confidence above that of retrieval,
\* nor above the best score by more than half a step of the rounding.
THEOREM ConfidenceNeverExceedsEvidence == Spec => []ConfidenceIsEarned
    BY InitGrounding, NextGrounding, PTL DEF Spec, GroundingInv

\* For every threshold and number of contexts: the failed attempts stay below their
\* limit, the hits descend, and a confidence lies between 0 and 1.
THEOREM GroundingTypesCorrect == Spec => []TypeOK
    BY InitGrounding, NextGrounding, PTL DEF Spec, GroundingInv

-----------------------------------------------------------------------------
(* Retries end *)

\* Steps that are left at most: a call has an attempt less with every failure.
Budget ==
    IF stage = "embedding" THEN 2 * ModelAttempts + 1 - calls
    ELSE IF stage = "retrieved" THEN ModelAttempts + 1
    ELSE IF stage = "asking" THEN ModelAttempts - calls
    ELSE 0

LEMMA BudgetType ==
    ASSUME TypeOK
    PROVE  Budget \in 0..(2 * ModelAttempts + 1) /\ (Budget = 0 <=> Settled)
    BY GroundingAssumption DEF TypeOK, Stage, Budget, Settled, GroundingAssumption

\* RetryService.run and RagService.answer only go forward.
EveryStepSpends == [][Budget' < Budget]_vars

\* Whatever the provider does, a question is settled after at most two calls with
\* model_retry_attempts attempts each and a search between them: no step is taken
\* that does not use up one of these.
THEOREM QuestionsAreFinite == Spec => EveryStepSpends
    <1>1. TypeOK /\ [Next]_vars => [Budget' < Budget]_vars
        <2>. SUFFICES ASSUME TypeOK, Next, ~UNCHANGED vars PROVE Budget' < Budget
            OBVIOUS
        <2>0. ModelAttempts \in Nat \ {0} /\ calls \in 0..(ModelAttempts - 1) /\ stage \in Stage
            BY GroundingAssumption DEF TypeOK, GroundingAssumption
        <2>1. CASE CallFails
            <3>1. CASE calls + 1 >= ModelAttempts
                BY <2>0, <2>1, <3>1 DEF CallFails, Calling, Enter, Budget
            <3>2. CASE ~(calls + 1 >= ModelAttempts)
                <4>1. stage' = stage /\ calls' = calls + 1 /\ stage \in {"embedding", "asking"}
                    BY <2>1, <3>2 DEF CallFails, Calling
                <4>. QED
                    BY <2>0, <4>1 DEF Budget
            <3>. QED
                BY <3>1, <3>2
        <2>2. CASE CallRefused
            BY <2>0, <2>2 DEF CallRefused, Calling, Moves, Enter, Budget
        <2>3. CASE Retrieve \/ SearchFails \/ Reject \/ Ask
            BY <2>0, <2>3 DEF Retrieve, SearchFails, Reject, Ask, Moves, Answered, Enter, Budget
        <2>4. CASE Quote
            BY <2>0, <2>4 DEF Quote, Answered, Enter, Budget
        <2>5. CASE Normalize
            <3>1. stage = "asking" /\ stage' \in {"error", "answered"}
                BY <2>5 DEF Normalize, Moves, Answered, Enter
            <3>. QED
                BY <2>0, <3>1 DEF Budget
        <2>. QED
            BY <2>1, <2>2, <2>3, <2>4, <2>5 DEF Next, Rest
    <1>. QED
        BY <1>1, GroundingTypesCorrect, PTL DEF Spec, EveryStepSpends

=============================================================================
