SPECIFICATION Spec
CONSTANTS
    Sectors = 3
    PerSector = 2
    WalkMax = 3
    Burst = 1
    Refill = 1
    ReportEvery = 2
    Wants = {2}
    TornBy = {}
    MaxSeq = 8
    MaxWrites = 3
    Horizon = 2
    MaxFaults = 2
INVARIANTS
    CollectorKnows
    CoilsPaced
PROPERTIES
    KeepsLog
CHECK_DEADLOCK FALSE
