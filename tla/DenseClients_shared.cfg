SPECIFICATION ClientsFairSpec
CONSTANTS
    Requests = {q1, q2}
    MaxAttempts = 3
INVARIANT
    SharedClientHeals
PROPERTY
    EveryRequestEnds
CHECK_DEADLOCK FALSE
