\* An ended queue and undefined behaviour both end a run.
SPECIFICATION Spec
CONSTANTS
    client = client
    loop = loop
    a = a
    b = b
    noUri = noUri
    Half = 4
    High = 2
    Client = client
    Loop = loop
    Items <- AllItems
    NoUri = noUri
    Playlists <- TwoLists
    MaxQueue = 2
    MaxCalls = 3
    MaxFaults = 1
    MaxStops = 2
INVARIANTS
    TypeOK
    PositionInRange
    OneAtATimeIsSafe
    SubscribedTwiceAtMost
PROPERTIES
    OverlapHeals
CHECK_DEADLOCK FALSE
