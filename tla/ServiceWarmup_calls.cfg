SPECIFICATION FairSpec
CONSTANTS
    Calls = {c1}
    Startup = startup
    Loop = loop
INVARIANT
    OneOfEach
PROPERTY
    CallsAreAnswered
CHECK_DEADLOCK FALSE
