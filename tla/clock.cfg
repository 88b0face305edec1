SPECIFICATION FairSpec
CONSTANTS
    Slots = {1, 2}
    DayLength = 3
    Week = 2
    Year = 5
    Floor = 3
    Ceiling = 10
    Top = 11
    Times = {2, 4, 7}
    Configs <- TwoSlots
    Retry = 1
    Resync = 3
    Mishaps = 3
INVARIANTS TrustedClockIsReal ServedOnce SocketOnlyForQuery
PROPERTIES WorkingClockKept ClockRecovers
