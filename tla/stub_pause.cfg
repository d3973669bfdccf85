SPECIFICATION StubSpec
CONSTANTS
    a = a
    b = b
    foreign = foreign
    noUri = noUri
    Half = 4
    High = 2
    Items <- AllItems
    LocalItems <- OneLocal
    NoUri = noUri
    Playlists <- TinyPlaylists
    OpenUris <- ForeignUris
    MaxQueue = 1
    MaxSignals = 2
    ForeignSignals <- PlayingSignal
    Faults <- AllFaults
PROPERTY PauseIsShown
