CONSTANTS
    a = a
    b = b
    t1 = t1
    t2 = t2
    w1 = w1
    w2 = w2
    Zero = Zero
    None = None
    SegSize = 4
    MaxSegs = 2
    Byte <- MCByte
    Table = {t1, t2}
    Batch <- MCBatch
    QuotaLimit = 4
    Writer = {w1, w2}
    Reader = {r1}
    MaxFailures = 1

SPECIFICATION Spec
SYMMETRY Symmetry
INVARIANT BatchesStable
INVARIANT ColumnsAligned
INVARIANT QuotaCovers
PROPERTY ImplementsMap
