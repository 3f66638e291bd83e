SPECIFICATION FairSpec

CONSTANTS
    Configs <- Settings
    Base = 1
    Cap = 3
    RawCap = 1
    TickCap = 1
    Burst = 1
    MaxChange = 1
    MaxFault = 2
    MaxSend = 1

INVARIANTS
    TypeOK
    LocalChangeNoticed
    RemoteChangeNoticed
    NoticesAreTrue

PROPERTIES
    NothingBeginsOnceCancelled
    ChangesArrive
    EchoesDieOut
    ShutdownCompletes

CHECK_DEADLOCK FALSE
