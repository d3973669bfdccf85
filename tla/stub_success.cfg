SPECIFICATION StubSpec
CONSTANTS
    a = a
    b = b
    foreign = foreign
    noUri = noUri
    Half = 4
    High = 2
    Items <- AllItems
    LocalItems <- AllItems
    NoUri = noUri
    Playlists <- ShortPlaylists
    OpenUris <- ForeignUris
    MaxQueue = 2
    MaxSignals = 1
    ForeignSignals <- NoSignals
    Faults <- NoFaults
INVARIANT SuccessReported
