SPECIFICATION Spec
CONSTANTS
    NSlots = 2
    Names = {a, b, c}
    FwSize = 3
    DpSize = 3
    MaxData = 2
    Mishaps = 3
INVARIANTS
    UploadsOnVolume
    DepotSound
PROPERTIES
    NoTornFirmware
    CompleteKept
