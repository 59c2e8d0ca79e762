\* An account is removed and added again while its client closes.
SPECIFICATION Spec
CONSTANTS
    Account = {a0, a1}
    Main = a0
    Worker = {w1, w2, w3}
    None = None
    Saved = {a0}
    Inbox = FALSE
    Removals = TRUE
    MaxEpoch = 0
    MaxQueue = 1
SYMMETRY WorkerSymmetry
INVARIANTS
    OneClient
\* The app closes, and the bounds end logins.
CHECK_DEADLOCK FALSE
