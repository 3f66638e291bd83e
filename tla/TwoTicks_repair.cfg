SPECIFICATION FairSpec

CONSTANTS
    Box = {"inbox", "archive"}
    Elsewhere = "elsewhere"
    Flag = {"S"}
    Synced = FALSE
    NoFile = NoFile
    NoRow = NoRow
    NoMessage = NoMessage
    Gone = Gone
    MaxServer = 1
    Moves = TRUE
    MaxSync = 1
    MaxFault = 1
    MaxCrash = 1
    MaxBase = 6

INVARIANTS
    TypeOK
    RowsKeepFiles
    LoneTickRepairs

PROPERTIES
    SerialTicksDestroyNothing
    StoresConverge
