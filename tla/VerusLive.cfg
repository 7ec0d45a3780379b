\* Two packets, the second of which may be acknowledged first, no restart.
CONSTANTS
    MaxSeq = 2
    MaxRestarts = 0
    MaxW = 1
    SlowExit = 1
    MaxCredit = 1
    MaxHallo = 1
    Ends = FALSE
SPECIFICATION LiveSpec
INVARIANTS
    TypeOK
    TimerPending
PROPERTIES
    
    ReceiverReturns
CHECK_DEADLOCK FALSE
