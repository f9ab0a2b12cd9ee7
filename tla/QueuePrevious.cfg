CONSTANTS
    Values = {f1, f2}
    NULL = NULL
    MaxItems = 5
SPECIFICATION Spec
INVARIANT PreviousLinksBack
CHECK_DEADLOCK FALSE
