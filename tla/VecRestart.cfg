SPECIFICATION Spec
CONSTANTS
    v = v
    w = w
    Zero = Zero
    None = None
    Id <- MCId
    Vec <- MCVec
    SegSlots = 2
    MaxVecSegs = 6
    Batch <- Singles
    Calls = {"insert", "checkpoint", "compact", "read", "kill"}
    OpenKinds = {"reopen"}
    Guarded = TRUE
    MaxOps = 3
    MaxKills = 2
INVARIANTS
    KeepsVectors
    GraphMatchesTable
    
CHECK_DEADLOCK FALSE
