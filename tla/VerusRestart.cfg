\* One restart by any of the threads that call it, one packet per session.
CONSTANTS
    MaxSeq = 1
    MaxRestarts = 1
    MaxW = 1
    SlowExit = 1
    MaxCredit = 1
    MaxHallo = 1
    Ends = FALSE
SPECIFICATION Spec
INVARIANTS
    AckOfSession
    
CHECK_DEADLOCK FALSE
