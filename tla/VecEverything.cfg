SPECIFICATION Spec
CONSTANTS
    v = v
    w = w
    Zero = Zero
    None = None
    Id <- MCId
    Vec <- MCVec
    SegSlots = 2
    MaxVecSegs = 4
    Batch <- Singles
    Calls = {"insert", "delete", "checkpoint", "compact", "reclaim", "read", "kill"}
    OpenKinds = {"schema", "reopen"}
    Guarded = TRUE
    MaxOps = 3
    MaxKills = 1
INVARIANTS
    LiveAnswers
PROPERTIES
    AppendOnly
CHECK_DEADLOCK FALSE
