SPECIFICATION FairSpec

CONSTANTS
    Box = {b1, b2}
    Name = {"INBOX", "Outbox"}
    Segment = {"inbox", "work", "Outbox"}
    Email = {e1}
    MaxServer = 6
    MaxDepth = 3
    MaxFault = 1
    MaxCrash = 1
    Renames = FALSE
    Full = FALSE
    Unkeeps = FALSE
    b1 = b1
    b2 = b2
    e1 = e1
    Local <- MCLocal
    Excluded <- MCExcluded
    Root = Root
    NoNode = NoNode
    NoRow = NoRow
    NoDir = NoDir
    NoBox = NoBox

INVARIANTS
    DirsMirrored
    ClientFoldersStay

PROPERTIES
    MailStays
    FilesFollowServer
    KeepsSyncing
    TreesConverge
