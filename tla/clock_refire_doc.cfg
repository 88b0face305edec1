SPECIFICATION Spec
CONSTANTS
    Slots = {1}
    DayLength = 3
    Week = 2
    Year = 5
    Floor = 3
    Ceiling = 10
    Top = 11
    Times = {4, 7}
    Configs <- OneSlot
    Retry = 1
    Resync = 3
    Mishaps = 2
PROPERTIES NoRefire
