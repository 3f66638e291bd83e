SPECIFICATION FairSpec

CONSTANTS
    m1 = m1
    m2 = m2
    Message = {m1, m2}
    Later = {m2}
    OwnFolder = TRUE
    MaxFault = 1
    MaxRefusal = 1
    MaxCrash = 1
    MaxUser = 1
    LateSidecar = TRUE
    EarlyRelease = FALSE
    NoFile = NoFile
    NoSidecar = NoSidecar
    NoMessage = NoMessage

INVARIANTS
    TypeOK
    NothingLost
    WireIsMarked
    AtMostOnce

PROPERTIES
    DeliveryKept
    EveryMessageSettled

CHECK_DEADLOCK FALSE
