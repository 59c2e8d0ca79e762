\* A phone pairing after a QR pairing: the helper has no gate.
SPECIFICATION Spec
CONSTANTS
    NoRun = NoRun
    Runs = {r1, r2}
    Generations = {1, 2}
    Requests = {}
    TooLong = {}
    HasPairCode = TRUE
    Uses = {"send"}
    StoredDevice = {}
    MaxFailures = 2
    MaxQueue = 3
    MaxLines = 1
INVARIANTS
    PairingHasGate
