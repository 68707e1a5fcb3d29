SPECIFICATION Spec
CONSTANTS
    Full = 2
    Grid = 80
    MinConfidence = 540
    ModelAttempts = 2
    TopK = 3
    Largest = 1500
    Claimed <- SomeClaims
INVARIANTS
    NoUnhandledError
