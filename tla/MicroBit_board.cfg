SPECIFICATION BoardSpec
CONSTANTS
    p1 = p1
    p2 = p2
    ma = ma
    mb = mb
    mc = mc
    c1 = c1
    c2 = c2
    Peers = {p1, p2}
    Tunings = {t1}
    Ending <- MCEnding
    Depths = {1, 2}
    Default <- MCDefault
    Lengths = {2}
    Sizes = {1}
    Overhead = 1
    LinkSize = 2
    FifoSize = 8
    MaxFrame = 5
    Kept = 2
    MaxSent = 3
    Budgets <- MCBudgets
    Modems = {ma, mb, mc}
    Channel <- MCChannel
    FullDuplex = {mb}
    Load <- MCLoad
    UpSize = 1
    DownSize = 1
    TxDelay = 4
    RxDelay = 4
    SerFrame = 3
    AirFrame = 5
    AirStop = 3
    Rows = 2
    Columns = {c1, c2}
    MaxLevel = 3
    Slot = 6
    Eps = 1
    Pictures <- MCPictures
    Horizon = 16
    MaxTimers = 2
    Images = {"x"}
    Scripts <- MCScripts
    Lasts = {1}
    Quota = 4
INVARIANTS
    BoardTypeOK WholeStream KeepsOrder Punctual HeardWhole ScanPunctual
    StaysShown KeepsTimers
PROPERTIES
    SendEnds KeepsAir
CHECK_DEADLOCK FALSE
