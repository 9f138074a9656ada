SPECIFICATION Spec
CONSTANTS
    None = None
    Zero = Zero
    a = a
    b = b
    k1 = k1
    k2 = k2
    t1 = t1
    t2 = t2
    Byte <- MCByte
    Value <- MCValue
    Key = {k1}
    Thread = {t1}
    SegSize = 2
    MaxSegs = 3
    MaxSeq = 2
    MaxRuns = 3
    Faults = {"power", "cut"}
    QuotaLimit = 4
    BadKey = {}
    Request <- Everything
    Garbage <- MCGarbage
    Op <- MCOp
CHECK_DEADLOCK FALSE
INVARIANT LocatorsMapped
 
INVARIANT QuotaCovers
