SPECIFICATION FairSpec
CONSTANTS
    Clients = {c1, c2}
    MaxVersion = 2
    None = None
    Capacity = 1
INVARIANTS
    TypeOK
    SignalRemembered
    FreshUnlessStraddled
PROPERTIES
    StopsWhenAsked
CHECK_DEADLOCK FALSE
