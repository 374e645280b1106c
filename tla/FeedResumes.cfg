SPECIFICATION ViewerSpec
CONSTANTS
    Devices = {d1, d2}
    Nothing = Nothing
    None = None
    MaxFrames = 1
    MaxSwitches = 2
    MaxComments = 1
    MaxDrops = 0
    MaxResults = 0
    TreeDevices = {Phone, Tablet}
    Simulators = {Phone}
    Absent = Absent
    PageCount = 1
    MaxLoads = 1
    MaxTreeSwitches = 0
    MaxTroubles = 0
    Pointers = {p1, p2}
    Nobody = Nobody
    MaxInputs = 1
    MaxFailures = 0
    MaxModes = 0
    Connections = {c1, c2}
    MayFail = {c1}
    Screenshots = {s1}
    MaxCalls = 0
    MaxWaiting = 0
    IdleShutdown = FALSE
    MaxWork = 1
    MaxConsecutive = 1
    MaxCaptures = 0
    MaxUnits = 0
    MaxConfigurations = 0
    MaxFaults = 0
SYMMETRY Symmetry
INVARIANT FeedResumes
CHECK_DEADLOCK FALSE
