SPECIFICATION Spec
CONSTANTS
    a = a
    b = b
    foreign = foreign
    noUri = noUri
    Half = 4
    High = 2
    Items <- AllItems
    LocalItems <- OneLocal
    NoUri = noUri
    Playlists <- LongPlaylists
    OpenUris <- NoUris
    MaxQueue = 3
    MaxSignals = 2
    ForeignSignals <- TellingSignals
    Faults <- AllFaults
INVARIANTS
    TypeOK
    PositionNeverWraps
    AttributesAgree
    PausedIsShown
PROPERTIES
    PositionNeverUnset
    CursorRefined
