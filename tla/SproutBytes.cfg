CONSTANTS
    Forecasts <- SomeForecasts
    TargetTicks = 1
    Quantum = 2
    Header = 1
    Overhead = 1
    ReorderLimit = 1
    WindowCap = 100
    TickLength = 2
    ClientInterval = 3
    ServerInterval = 2
    Copies = 1
    MaxTime = 9
SPECIFICATION Spec
INVARIANTS TypeOK EstimateNotNegative CountsOnlyWhatLeft LossIsCounted
PROPERTY CountNeverShrinks
CHECK_DEADLOCK FALSE
