SPECIFICATION Spec
CONSTANTS
    o1 = o1
    o2 = o2
    garbage = garbage
    Op <- MCOp
    Garbage = garbage
    Batch <- MCBatch
    MaxSeq = 4
    MaxCrashes = 3
    MaxIoErrors = 1
CHECK_DEADLOCK FALSE
INVARIANT SeqOrdered
 
