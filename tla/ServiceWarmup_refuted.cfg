SPECIFICATION Spec
CONSTANTS
    Calls = {c1}
    Startup = startup
    Loop = loop
INVARIANTS
    ReadinessNotBlocked
    EncodeStatusTrue
CHECK_DEADLOCK FALSE
