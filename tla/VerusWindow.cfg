\* One packet, a request that comes three times, and the end of the run:
\* enough acknowledgements and resets to take the count of packets in flight
\* to its floor.
CONSTANTS
    MaxSeq = 1
    MaxRestarts = 0
    MaxW = 1
    SlowExit = 1
    MaxCredit = 1
    MaxHallo = 3
    Ends = TRUE
SPECIFICATION Spec
INVARIANTS
    InFlightFloor
    QueueHeldInside
CHECK_DEADLOCK FALSE
