SPECIFICATION Spec

CONSTANTS
    Box = {b1, b2, b3}
    Name = {"INBOX", "work"}
    Segment = {"inbox", "work", "Outbox"}
    Email = {e1}
    MaxServer = 3
    MaxDepth = 3
    MaxFault = 0
    MaxCrash = 0
    Renames = TRUE
    Full = FALSE
    Unkeeps = FALSE
    b1 = b1
    b2 = b2
    b3 = b3
    e1 = e1
    Local <- MCLocal
    Excluded <- MCExcluded
    Root = Root
    NoNode = NoNode
    NoRow = NoRow
    NoDir = NoDir
    NoBox = NoBox

SYMMETRY Symmetry

PROPERTIES
    MailStays
