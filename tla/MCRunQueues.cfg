CONSTANTS
    PCB <- MCPCB
    Key <- MCKey
    NULL = NULL
SPECIFICATION Spec
INVARIANTS ListEndsAtRear ParentsMatch RedBlack
PROPERTIES FixupClimbs ImplementsKeyedQueue
