SPECIFICATION Spec
CONSTANTS
    Units = {1, 2, 3}
    Chan <- HubChannels
    HubConfigs <- ThreeMasters
    Dead = {2}
    Garbles = {"badcrc"}
    HubSettle = 4
    RetryBudget = 6
    T1 = 2
    Window = 1
    Wire = 1
    Guard = 1
    IdleMax = 2
    Wrap = 128
    Horizon = 10
    MaxCalls = 3
INVARIANTS
    TypeOK
    NeverFedMidSettle
    AnsweredWithinBudget
    HealRecovers
    UnansweredLeavesInPhase
PROPERTIES
    HoldOnlyWhileSettling
CHECK_DEADLOCK FALSE
