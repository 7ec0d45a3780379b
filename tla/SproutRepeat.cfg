CONSTANTS
    Forecasts <- SomeForecasts
    TargetTicks = 1
    Quantum = 2
    Header = 1
    Overhead = 1
    ReorderLimit = 1
    WindowCap = 100
    TickLength = 2
    ClientInterval = 3
    ServerInterval = 2
    Copies = 2
    MaxTime = 9
SPECIFICATION Spec
INVARIANT EstimateNotNegative
CHECK_DEADLOCK FALSE
