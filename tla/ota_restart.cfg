SPECIFICATION FairSpec
CONSTANTS
    Ids = {1}
    Chan <- OneModule
    Images = {1, 2}
    Firmware = {1}
    Total = 2
    GroupMax = 2
    MaxTries = 2
    ReadTries = 2
    RepairRounds = 2
    ConfirmTries = 2
    Lossy = TRUE
    Leftover = FALSE
    SettleWaits = 1
    InLine = FALSE
    MaxForeign = 1
    MaxRuns = 2
    MaxResets = 1
INVARIANTS
    RecordedIsTrue
    PreviousRunKept
PROPERTIES
    KeepsPromise
    RunEnds
CHECK_DEADLOCK FALSE
