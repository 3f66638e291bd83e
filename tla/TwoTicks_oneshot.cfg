SPECIFICATION Spec

CONSTANTS
    Box = {"inbox", "archive"}
    Elsewhere = "elsewhere"
    Flag = {"S"}
    Synced = TRUE
    NoFile = NoFile
    NoRow = NoRow
    NoMessage = NoMessage
    Gone = Gone
    MaxServer = 1
    Moves = TRUE
    MaxSync = 1
    MaxFault = 0
    MaxCrash = 0
    MaxBase = 3

PROPERTIES
    NothingDestroyed
