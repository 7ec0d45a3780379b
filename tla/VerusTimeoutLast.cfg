\* Three packets of one session.
CONSTANTS
    MaxSeq = 3
    MaxRestarts = 0
    MaxW = 2
    SlowExit = 1
    MaxCredit = 1
    MaxHallo = 1
    Ends = FALSE
SPECIFICATION LiveSpec
PROPERTIES
    TimeoutMovesForward
CHECK_DEADLOCK FALSE
