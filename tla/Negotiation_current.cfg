\* Both users put the call on hold.
SPECIFICATION Spec

CONSTANTS
    MaxNegotiations = 4
    MaxToggles = 2
    Together = TRUE
    Tardy <- Nobody

INVARIANT
    CurrentUntilCompleted

CHECK_DEADLOCK FALSE
