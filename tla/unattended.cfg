SPECIFICATION UnattendedSpec
CONSTANTS
    a = a
    b = b
    c = c
    noUri = noUri
    Half = 8
    High = 2
    Items <- AllItems
    LocalItems <- AllItems
    NoUri = noUri
    Playlists <- Lists
    OpenUris <- NoUris
    MaxQueue = 4
    MaxSignals = 2
    ForeignSignals <- NoSignals
    Faults <- NoFaults
    ShuffleChoices <- AnyShuffle
INVARIANT
    RepeatSingleStays
PROPERTIES
    RepeatPlaysAll
    RepeatSingleReplays
    QueueEnds
    EntriesInOrder
    ShuffleNeverEnds
CHECK_DEADLOCK FALSE
