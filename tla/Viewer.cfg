SPECIFICATION ViewerSpec
CONSTANTS
    Devices = {d1, d2}
    Nothing = Nothing
    None = None
    MaxFrames = 2
    MaxSwitches = 1
    MaxComments = 1
    MaxDrops = 1
    MaxResults = 1
    TreeDevices = {Phone, Tablet}
    Simulators = {Phone}
    Absent = Absent
    PageCount = 2
    MaxLoads = 2
    MaxTreeSwitches = 1
    MaxTroubles = 1
    Pointers = {p1, p2}
    Nobody = Nobody
    MaxInputs = 5
    MaxFailures = 1
    MaxModes = 1
    Connections = {c1, c2}
    MayFail = {c1}
    Screenshots = {s1, s2}
    MaxCalls = 2
    MaxWaiting = 1
    IdleShutdown = FALSE
    MaxWork = 1
    MaxConsecutive = 2
    MaxCaptures = 1
    MaxUnits = 3
    MaxConfigurations = 1
    MaxFaults = 2
SYMMETRY Symmetry
INVARIANTS
    ViewerTypeOK
    FrozenPictureIsNamed TreeIsOfNewestLoad GestureKeepsItsShape
    CaptureServesClients
    CaptureHasSource DecoderIsInStep
CHECK_DEADLOCK FALSE
