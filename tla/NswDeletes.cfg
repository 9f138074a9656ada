SPECIFICATION Spec
CONSTANTS
    Node = {n1, n2, n3, n4, n5}
    M = 1
    Deletes = TRUE
    None = None
INVARIANTS
    EdgesValid
    AllFoundWhileSmall
PROPERTY StaysVisited
CHECK_DEADLOCK FALSE
