SPECIFICATION Spec
CONSTANTS
    k = k
    Client = {c1, c2}
    Id = {1, 2, 3}
    Key = {k}
    Hash <- MCHash
    Dist <- MCDist
    TopK = 2
    Batch <- MCBatch
    ShardNum = {1, 2}
    MaxFailures = 1
    MaxCalls = 4
    MaxOpens = 2
SYMMETRY Symmetry
INVARIANTS
    
    ListsAll
    CheckpointsAll
    
    
CHECK_DEADLOCK FALSE
