SPECIFICATION FairSpec
CONSTANTS
    Processes = 2
    Owners <- MCOwners
    FirstOwners <- MCFirstOwners
    None = None
    Absent = Absent
    MaxCalls = 3
    MaxFaults = 1
INVARIANTS
    ReadsAreRecent
PROPERTIES
    KeepsConversationPromise
    CallsEnd
CHECK_DEADLOCK FALSE
