SPECIFICATION Spec
CONSTANTS
    u1 = u1  u2 = u2  kb = kb  text = text  w1 = w1  w2 = w2
    Uploads = {u1, u2}
    KnowledgeBases = {kb}
    Contents = {text}
    KbOf <- Kb2
    ContentOf <- SameText
    HasText = {text}
    Workers = {w1}
    EnqueueAttempts = 1
    MaxRetries = 1
    Faults = {}
    MaxFaults = 1
INVARIANTS
    NoDuplicateDocuments
