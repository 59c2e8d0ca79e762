\* A session store, the WhatsApp owner, the Signal files and link, and the
\* Discord session.
SPECIFICATION SessionsSpec
CONSTANTS
    Parts = {"cipher", "link", "relink", "signal", "discord"}
    MaxContent = 2
    MaxKey = 2
    MaxCommand = 3
    MaxQueue = 3
    Account = {"A", "B"}
    MaxLink = 4
    MaxDir = 2
    MaxFailure = 1
    MaxOrder = 4
    MaxMail = 2
    MaxCall = 4
    MaxLoad = 1
INVARIANTS
    SessionsTypeOK
    StartEndsWell
    OneClient
    ClientsEnd
    AccountsKeepTheirFiles
    LinkedRowIsTrue
    DiscordIsTold
PROPERTIES
    KeepsStoreContract
    DeviceStoreSafe
    NothingLost
    KeysGoAfterTwoRefusals
\* The bounds end every part.
CHECK_DEADLOCK FALSE
