SPECIFICATION QuerySpec
CONSTANTS
    u1 = u1  kb = kb  text = text  q1 = q1  w1 = w1  w2 = w2
    Uploads = {u1}
    KnowledgeBases = {kb}
    Contents = {text}
    KbOf <- Kb1
    ContentOf <- TextUpload
    HasText = {text}
    Workers = {w1, w2}
    EnqueueAttempts = 1
    MaxRetries = 1
    Faults <- FaultKinds
    MaxFaults = 1
    Queries = {q1}
    AskedKb <- AskedKb1
SYMMETRY WorkerSymmetry
INVARIANTS
    TypeOK
    ReadyHasChunks
    TasksHaveRowsAndFiles
    QueryTypeOK
    CacheComplete
    CurrentHitsResolve
    StaleOnlyDuringRuns
PROPERTIES
    NewContentInvalidatesCache
    CitationsAreKept
    RefinesIngestion
