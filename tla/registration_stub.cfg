SPECIFICATION RegSpec
CONSTANTS
    MaxReports = 2
    MaxStubs = 3
    Faults = {}
INVARIANT StubIsPublished
CHECK_DEADLOCK FALSE
