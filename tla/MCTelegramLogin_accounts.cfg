\* The logins of two accounts.  The second one is removed and added again.
SPECIFICATION Spec
CONSTANTS
    Account = {a0, a1}
    Main = a0
    Worker = {w1, w2}
    None = None
    Saved = {}
    Inbox = FALSE
    Removals = TRUE
    MaxEpoch = 1
    MaxQueue = 1
SYMMETRY WorkerSymmetry
INVARIANTS
    NoOrphan
PROPERTIES
    LinkedSessionKept
\* The app closes, and the bounds end logins.
CHECK_DEADLOCK FALSE
