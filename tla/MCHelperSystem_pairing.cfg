\* Pairing of WhatsApp: QR or phone.
SPECIFICATION Spec
CONSTANTS
    NoRun = NoRun
    Runs = {r1, r2}
    Generations = {1}
    Requests = {}
    TooLong = {}
    HasPairCode = TRUE
    Uses = {"send"}
    StoredDevice = {}
    MaxFailures = 2
    MaxQueue = 1
    MaxLines = 1
SYMMETRY RunSymmetry
INVARIANTS
    TypeOK
    PairingHasGate
    PhoneCrossesOnce
PROPERTIES
    CancelWins
    PairingKept
