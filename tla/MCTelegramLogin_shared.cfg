\* The login of one account is cancelled while another is linked.
SPECIFICATION Spec
CONSTANTS
    Account = {a0, a1}
    Main = a0
    Worker = {w1, w2}
    None = None
    Saved = {a1}
    Inbox = FALSE
    Removals = FALSE
    MaxEpoch = 1
    MaxQueue = 1
INVARIANTS
    LinkedClientServes
\* The app closes, and the bounds end logins.
CHECK_DEADLOCK FALSE
