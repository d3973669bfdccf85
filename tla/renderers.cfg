SPECIFICATION Spec
CONSTANTS
    own = own
    tv = tv
    radio = radio
    Half = 4
    High = 2
    Backends <- AllRenderers
    Own <- OurRenderer
    Faults = {"list", "get", "call"}
    Queue <- TwoEntries
    MaxStops = 2
SYMMETRY Foreigners
INVARIANTS
    TypeOK
    DiscoveryIsRegular
    OnlyOwnDriven
    OwnPlaysSelected
