SPECIFICATION Spec

CONSTANTS
    Email = {1}
    Mailbox = {"inbox", "archive", "spam"}
    Scope = {"inbox", "archive"}
    Standard = {"S", "F"}
    Label = {"label"}
    Odd = {}
    PageSize = 2
    ChunkSize = 2
    MaxServer = 2
    MaxUser = 2
    MaxFault = 2
    MaxReject = 0
    MaxCrash = 0
    MaxStuck = 1
    ServerMoves = TRUE
    UserMidTick = FALSE
    Rank <- MCRank
    NoFile = NoFile
    NoRow = NoRow
    NoMessage = NoMessage

PROPERTIES
    DestroyOnlyOnRequest
    PatchesComeFromUser
