SPECIFICATION Spec

CONSTANTS
    Email = {1}
    Mailbox = {"inbox", "archive"}
    Scope = {"inbox", "archive"}
    Standard = {"S"}
    Label = {}
    Odd = {}
    PageSize = 2
    ChunkSize = 2
    MaxServer = 2
    MaxUser = 2
    MaxFault = 0
    MaxReject = 0
    MaxCrash = 0
    MaxStuck = 0
    ServerMoves = TRUE
    UserMidTick = TRUE
    Rank <- MCRank
    NoFile = NoFile
    NoRow = NoRow
    NoMessage = NoMessage

PROPERTIES
    DestroyOnlyOnRequest
