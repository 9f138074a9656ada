SPECIFICATION Spec
CONSTANTS
    None = None
    Zero = Zero
    a = a
    b = b
    k1 = k1
    k2 = k2
    t1 = t1
    t2 = t2
    Byte <- MCByte
    Value <- MCValue
    Key = {k1, k2}
    Thread = {t1}
    SegSize = 2
    MaxSegs = 4
    MaxSeq = 3
    MaxRuns = 2
    Faults = {"kill", "power", "cut"}
    QuotaLimit = 0
    BadKey = {}
    Request <- FewWrites
    Garbage <- MCGarbage
    Op <- MCOp
CHECK_DEADLOCK FALSE
INVARIANT KeepsPromises
 
