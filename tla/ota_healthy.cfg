SPECIFICATION Spec
CONSTANTS
    Ids = {1, 2, 3}
    Chan <- TwoAndOne
    Images = {2}
    Firmware = {1}
    Total = 1
    GroupMax = 2
    MaxTries = 3
    ReadTries = 3
    RepairRounds = 2
    ConfirmTries = 5
    Lossy = FALSE
    Leftover = FALSE
    SettleWaits = 2
    InLine = FALSE
    MaxForeign = 2
    MaxRuns = 1
    MaxResets = 0
INVARIANTS
    HealthySucceeds
CHECK_DEADLOCK FALSE
