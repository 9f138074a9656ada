CONSTANTS
    a = a
    b = b
    k1 = k1
    k2 = k2
    w1 = w1
    w2 = w2
    Zero = Zero
    None = None
    SegSize = 2
    MaxSegs = 2
    Byte <- MCByte
    Key = {k1, k2}
    Value <- MCEdgeValue
    QuotaLimit = 3
    Writer = {w1}
    Reader = {r1}
    MaxFailures = 1

SPECIFICATION Spec
SYMMETRY Symmetry
INVARIANT TypeOK
INVARIANT BuffersStable
INVARIANT QuotaCovers
PROPERTY SealedImmutable
PROPERTY ImplementsMap
