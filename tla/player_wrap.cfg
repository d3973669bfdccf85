SPECIFICATION Spec
CONSTANTS
    a = a
    b = b
    foreign = foreign
    noUri = noUri
    Half = 4
    High = 2
    Items <- AllItems
    LocalItems <- AllItems
    NoUri = noUri
    Playlists <- ShortPlaylists
    OpenUris <- NoUris
    MaxQueue = 2
    MaxSignals = 2
    ForeignSignals <- NoSignals
    Faults <- NoFaults
PROPERTY WrapsAfterLastFinished
