SPECIFICATION FairSettings
CONSTANTS
    Cfgs = {shipped, site, odd, hanging}
    Default = shipped
    Fits = {shipped, site, hanging}
    Hangs = {hanging}
    SafeBoots = 3
    CountMax = 4
    MaxFaults = 3
    None = None
    Corrupt = Corrupt
PROPERTIES
    NoLeftovers
CHECK_DEADLOCK FALSE
