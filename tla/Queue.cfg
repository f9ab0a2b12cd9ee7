CONSTANTS
    Values = {f1, f2}
    NULL = NULL
    MaxItems = 5
SPECIFICATION Spec
INVARIANTS TypeOK ListMatchesChain PopNeverWild
PROPERTY ImplementsFrameQueue
CHECK_DEADLOCK FALSE
