SPECIFICATION Spec
CONSTANTS
    Client = {c1, c2}
    Worker = {w1, w2}
    QueueCap = 3
    KnnConcurrency = 1
    Faults = {"cancel", "panic"}
    MaxOrphans = 1
    MaxCompacts = 1
    None = None
INVARIANTS
    FlagCoversCompaction
    DepthExactUnlessPanic
    
    DepthCovers
PROPERTY HandlersReturn
