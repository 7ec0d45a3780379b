CONSTANTS
    End <- BothEnds
    MaxEvents <- TwoEvents
    MaxNum <- TwoOne
    LastNum = 3
    Closers = {"client"}
    SentMax = 3
    EraseBack = 3
    Retries = 2
    MayClose = FALSE
    RecvMax = 2
    DiffFrags = 2
SPECIFICATION FairSpec
INVARIANTS TypeOK KnownStateHeld ReferenceKept 
PROPERTIES  ShutdownEnds
CHECK_DEADLOCK FALSE
