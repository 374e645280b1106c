SPECIFICATION SessionSpec
CONSTANTS
    Calls = {c1, c2}
    Apps = {a, b}
    None = None
    MaxSwitches = 1
    MaxTrouble = 1
    MaxBegun = 2
    Devices = {d1, d2}
    Polls = {p1}
    MaxClients = 2
    MaxOperations = 2
    MaxPolls = 2
    MaxJoins = 1
    MaxDrops = 1
    MaxFailures = 1
    Nobody = Nobody
    Strategies = {"ios-axp", "snapshot-diff"}
    Scopes = {1}
    Quiets = {1}
    MaxWaits = {3}
    ProbeDelay = 1
    InitialPoll = 1
    MaximumPoll = 3
    Overrun = 0
    MaxObserves = 2
    MaxScreens = 2
    MaxDisturbances = 1
SYMMETRY Symmetry
INVARIANTS
    SessionTypeOK AnswerNotOlder ProjectionIsOneApp NoClientForgotten PreviewFollowsDemand
    ObservedTreeIsAsReported DeadlineBoundsCaptures
CHECK_DEADLOCK FALSE
