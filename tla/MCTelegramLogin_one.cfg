\* One account: logins, cancels, a session that ends, and the close.
SPECIFICATION Spec
CONSTANTS
    Account = {a0}
    Main = a0
    Worker = {w1, w2}
    None = None
    Saved = {a0}
    Inbox = TRUE
    Removals = FALSE
    MaxEpoch = 2
    MaxQueue = 1
SYMMETRY WorkerSymmetry
INVARIANTS
    TypeOK
    OneClient
    CleanStopHasNoClient
    LinkedClientServes
PROPERTIES
    CancelledLoginEnds
\* The app closes, and the bounds end logins.
CHECK_DEADLOCK FALSE
