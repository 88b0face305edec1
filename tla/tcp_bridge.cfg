SPECIFICATION FairSpec
CONSTANTS
    shipped = shipped
    moved = moved
    odd = odd
    hanging = hanging
    Cfgs <- Configurations
    Default = shipped
    Fits = {shipped, moved, hanging}
    Hangs = {hanging}
    NetOn = {moved, odd, hanging}
    ConsoleOn = {shipped, moved, odd, hanging}
    PortOf <- Ports
    SafeBoots = 2
    CountMax = 3
    MaxFaults = 1
    Slots = {1, 2}
    Conns = {3, 4, 5}
    None = None
    Corrupt = Corrupt
INVARIANTS
    SettingsSound
    NetFollowsSettings
    PagesAreOwn
PROPERTIES
    SafeModeEarned
    BoardComesBack
CHECK_DEADLOCK FALSE
