SPECIFICATION Spec

CONSTANTS
    m1 = m1
    Message = {m1}
    Later = {}
    OwnFolder = FALSE
    MaxFault = 0
    MaxRefusal = 1
    MaxCrash = 0
    MaxUser = 0
    LateSidecar = TRUE
    EarlyRelease = FALSE
    NoFile = NoFile
    NoSidecar = NoSidecar
    NoMessage = NoMessage

INVARIANTS
    FailedOnlyWhenRefused

CHECK_DEADLOCK FALSE
