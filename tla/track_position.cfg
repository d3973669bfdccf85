SPECIFICATION Spec
CONSTANTS
    Half = 8
    Tracks <- TwoTracks
    Duration <- Lengths
INVARIANTS
    TypeOK
    AnswersFit
PROPERTIES
    SetPositionLands
    ForwardNeverRewinds
