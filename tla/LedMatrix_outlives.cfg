SPECIFICATION MatrixSpec
CONSTANTS
    c1 = c1
    c2 = c2
    Rows = 2
    Columns = {c1, c2}
    MaxLevel = 3
    Slot = 6
    Eps = 1
    Pictures <- MCPictures
    Horizon = 16
INVARIANT ScanOutlives
CHECK_DEADLOCK FALSE
