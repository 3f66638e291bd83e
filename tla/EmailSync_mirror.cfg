SPECIFICATION Spec

CONSTANTS
    Email = {1, 2}
    Mailbox = {"inbox", "archive"}
    Scope = {"inbox", "archive"}
    Standard = {"S"}
    Label = {}
    Odd = {}
    PageSize = 1
    ChunkSize = 1
    MaxServer = 3
    MaxUser = 0
    MaxFault = 2
    MaxReject = 0
    MaxCrash = 0
    MaxStuck = 0
    ServerMoves = TRUE
    UserMidTick = TRUE
    Rank <- MCRank
    NoFile = NoFile
    NoRow = NoRow
    NoMessage = NoMessage

INVARIANTS
    NothingToPush
    NoStray
