SPECIFICATION Spec
CONSTANTS
    Sizes <- SomeSizes
    Overlaps <- SomeOverlaps
    Lengths <- UpToSeven
    MaxPages = 2
INVARIANTS
    TypeOK
    EveryWordIsChunked
    EachChunkAdvances
    NeighboursShareOverlap
