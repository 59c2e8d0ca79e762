\* Sends against helpers that come and go; the account row of a linked device.
SPECIFICATION Spec
CONSTANTS
    NoRun = NoRun
    Runs = {r1, r2}
    Generations = {}
    Requests = {q1, q2}
    TooLong = {q2}
    HasPairCode = FALSE
    Uses = {"send", "load"}
    StoredDevice = {"load"}
    MaxFailures = 2
    MaxQueue = 1
    MaxLines = 1
SYMMETRY RunSymmetry
INVARIANTS
    OneProcess
    NoSendIsLost
    StoppedOnce
    SpinnerHasHelper
    RestartingHasStart
    LinkedRowHasHelper
    CrashLoopBounded
PROPERTIES
    KeepsSendContract
