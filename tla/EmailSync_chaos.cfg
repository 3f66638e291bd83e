SPECIFICATION FairSpec

CONSTANTS
    Email = {1}
    Mailbox = {"inbox", "archive", "spam"}
    Scope = {"inbox", "archive"}
    Standard = {"S"}
    Label = {"label"}
    Odd = {}
    PageSize = 2
    ChunkSize = 2
    MaxServer = 2
    MaxUser = 2
    MaxFault = 1
    MaxReject = 1
    MaxCrash = 1
    MaxStuck = 1
    ServerMoves = TRUE
    UserMidTick = TRUE
    Rank <- MCRank
    NoFile = NoFile
    NoRow = NoRow
    NoMessage = NoMessage

INVARIANTS
    TypeOK
    CalmTickMirrors
    SecondTickWritesNothing

PROPERTIES
    UnpushedFlagsSurvive
    Convergence
