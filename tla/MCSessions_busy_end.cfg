\* A disconnect, and a connect with no token, while a Discord send is in flight.
SPECIFICATION SessionsSpec
CONSTANTS
    Parts = {"discord"}
    MaxContent = 2
    MaxKey = 2
    MaxCommand = 3
    MaxQueue = 3
    Account = {"A", "B"}
    MaxLink = 4
    MaxDir = 2
    MaxFailure = 1
    MaxOrder = 4
    MaxMail = 2
    MaxCall = 4
    MaxLoad = 1
INVARIANTS
    BusyOwnerUnlinks
\* The bounds end every part.
CHECK_DEADLOCK FALSE
