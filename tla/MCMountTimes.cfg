SPECIFICATION FairSpec
CONSTANTS
    Clients = {c1, c2}
    MaxVersion = 1
    None = None
    Capacity = 1
PROPERTIES
    TracksChangeWithTime
CHECK_DEADLOCK FALSE
