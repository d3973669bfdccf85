\* The backend may stay away for good and an error may end the process.
SPECIFICATION IndexerSpec
CONSTANTS
    MaxReports = 6
    MaxStubs = 8
    Faults = {"bus", "factory", "publisher"}
    Refusals = TRUE
INVARIANTS
    RegTypeOK
    PublishedHasConnection
PROPERTY BackendGetsPublished
CHECK_DEADLOCK FALSE
