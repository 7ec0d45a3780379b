\* A request that comes twice.
CONSTANTS
    MaxSeq = 1
    MaxRestarts = 1
    MaxW = 1
    SlowExit = 1
    MaxCredit = 1
    MaxHallo = 2
    Ends = FALSE
SPECIFICATION Spec
INVARIANTS
    LostPacketW
CHECK_DEADLOCK FALSE
