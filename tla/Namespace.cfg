SPECIFICATION Spec
CONSTANTS
    a1 = a1
    a2 = a2
    b1 = b1
    A = A
    B = B
    k1 = k1
    k2 = k2
    v1 = v1
    v2 = v2
    Handle = {a1, a2, b1}
    Host = {A, B}
    HostOf <- MCHostOf
    Program <- MCProgram
    MayRun <- MCMayRun
    Key = {k1, k2}
    Value = {v1, v2}
    Dim = {1, 2}
    Op <- MCOp
    Garbage <- MCGarbage
    SegSize = 2
    MaxSegs = 4
    MaxSeq = 2
    MaxStarts = 3
    MaxCalls = 3
    None = None
CONSTRAINT Careful
SYMMETRY Symmetry
INVARIANTS
    KeepsPromisesWithCare
    ReplaysWithCare
    
CHECK_DEADLOCK FALSE
