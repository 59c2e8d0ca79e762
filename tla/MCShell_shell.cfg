\* The sends of the core against Telegram and Discord, copies of the app, and
\* the history of a Signal chat.
SPECIFICATION ShellSpec
CONSTANTS
    Parts = {"sends", "instance", "history"}
    Chat = {c1}
    Text = {a, b}
    Protocol = {"telegram", "discord"}
    Elsewhere = Elsewhere
    Blank = Blank
    NoRow = NoRow
    MaxRequest = 2
    Copy = {x, y, z}
    NoCopy = NoCopy
    LockFails = TRUE
    LastTime = 5
    PageSize = 1
    ScanCap = 4
    Window = 3
    MaxOpen = 1
    MaxDrop = 1
SYMMETRY TextSymmetry
INVARIANTS
    ShellTypeOK
    RowsAreTrue
    OneCopy
    ShowIsServed
    HistoryIsTrue
PROPERTIES
    TextKept
    SendsEndTrue
\* The bounds end the run.
CHECK_DEADLOCK FALSE
