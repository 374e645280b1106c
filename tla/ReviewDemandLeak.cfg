SPECIFICATION SessionSpec
CONSTANTS
    Calls = {c1, c2}
    Apps = {a, b}
    None = None
    MaxSwitches = 1
    MaxTrouble = 0
    MaxBegun = 0
    Devices = {d1, d2}
    Polls = {p1}
    MaxClients = 2
    MaxOperations = 1
    MaxPolls = 1
    MaxJoins = 0
    MaxDrops = 0
    MaxFailures = 0
    Nobody = Nobody
    Strategies = {"ios-axp", "snapshot-diff"}
    Scopes = {1}
    Quiets = {1}
    MaxWaits = {2}
    ProbeDelay = 1
    InitialPoll = 1
    MaximumPoll = 3
    Overrun = 0
    MaxObserves = 0
    MaxScreens = 0
    MaxDisturbances = 0
SYMMETRY Symmetry
INVARIANTS DemandIsOwned
CHECK_DEADLOCK FALSE
