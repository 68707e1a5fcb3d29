SPECIFICATION Spec
CONSTANTS
    c1 = c1
    t1 = t1
    t2 = t2
    Clients <- OneClient
    Threads <- TwoThreads
    Limit = 2
    Window = 3
    MaxTime = 6
    MaxCount = 3
SYMMETRY ThreadSymmetry
INVARIANTS
    TypeOK
    WindowLimit
    FullBeforeDenial
    RollingLimit
PROPERTIES
    LiveWindowsEnd
CHECK_DEADLOCK FALSE
