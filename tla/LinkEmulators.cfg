CONSTANTS
    Traces <- SomeTraces
    Sizes = {1, 3, 5}
    MsDelay = 1
    MaxPackets = 3
    MaxTime = 5
    MaxLate = 1
    Service = 2
SPECIFICATION EmulatorSpec
INVARIANTS TypeOK KeepsOrder NeverAhead DelayKept NothingHeldAsleep WakesInTime OnePacketEach
CHECK_DEADLOCK FALSE
