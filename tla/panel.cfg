SPECIFICATION Spec
CONSTANTS
    Configs <- ShelfOrSweeps
    Edits <- EditsOfAKind
    Facts <- QuietOrUpdate
    Buttons = {1, 2}
    NOutputs = 2
    ForceTimes = {2}
    Windows = 2
    Wrap = 64
    Horizon = 8
    LoopMax = 2
    ResetMs = 3
    DwellMs = 2
    TestStepMs = 1
    StepOnMs = 1
    StepOffMs = 0
    StepUnlockMs = 2
INVARIANTS
    DarkShelfExplained
    ShelfFollowsReset
    OtaLightsLamps
    UnlockPaced
    ResetOnTime
PROPERTIES
    ShelfCutOnlyByReset
    SweepStaysInCabinet
    SweepCoversCabinet
CHECK_DEADLOCK FALSE
