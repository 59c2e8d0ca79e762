\* A row that waits comes to an end, and so does a close.
SPECIFICATION FairSpec
CONSTANTS
    NoRun = NoRun
    Runs = {r1, r2}
    Generations = {}
    Requests = {}
    TooLong = {}
    HasPairCode = FALSE
    Uses = {"send"}
    StoredDevice = {}
    MaxFailures = 2
    MaxQueue = 1
    MaxLines = 1
PROPERTIES
    CloseEnds
    RestartingEnds
