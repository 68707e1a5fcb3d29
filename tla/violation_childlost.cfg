SPECIFICATION FairSpec
CONSTANTS
    u1 = u1  u2 = u2  kb = kb  text = text  w1 = w1  w2 = w2
    Uploads = {u1}
    KnowledgeBases = {kb}
    Contents = {text}
    KbOf <- Kb1
    ContentOf <- TextUpload
    HasText = {text}
    Workers = {w1}
    EnqueueAttempts = 1
    MaxRetries = 1
    Faults = {"childlost"}
    MaxFaults = 1
PROPERTIES
    ProcessingEnds
