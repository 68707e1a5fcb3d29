SPECIFICATION HttpSpec

CONSTANTS
    r1 = r1
    r2 = r2
    r3 = r3
    rival = rival
    own1 = own1
    own2 = own2
    Rows <- MCRows
    Filtered <- MCFiltered
    KeyOf <- MCKeyOf
    MaxStamp = 3
    Sizes = {1, 2, 3}
    MaxPageSize = 2
    MaxSubmissions = 4
    Own <- MCOwn
    MaxRequests = 4

SYMMETRY Symmetry

INVARIANTS
    HttpTypeOK
    NoGaps
    MissesOnlyWhatGrew
    PagesFillTheTotal
    NoticesAreTrue
    CopiesFollowFailures
    AnswersTellTheOutcome

PROPERTIES
    ComponentsKeepTheirSpecs

CHECK_DEADLOCK FALSE
