SPECIFICATION Spec
CONSTANTS
    Ids = {1, 2}
    Chan <- OneRow
    Images = {2}
    Firmware = {1}
    Total = 1
    GroupMax = 2
    MaxTries = 2
    ReadTries = 2
    RepairRounds = 2
    ConfirmTries = 2
    Lossy = TRUE
    Leftover = FALSE
    SettleWaits = 1
    InLine = FALSE
    MaxForeign = 1
    MaxRuns = 1
    MaxResets = 0
INVARIANTS
    NoneStranded
PROPERTIES
    RebootsOnlyUnheld
    KeepsPromise
CHECK_DEADLOCK FALSE
