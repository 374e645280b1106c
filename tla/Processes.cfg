SPECIFICATION ProcessSpec
CONSTANTS
    Starters = {s1, s2}
    Pruners = {p1}
    Backends = {b1, b2, b3}
    MayCrash = {s1}
    MaxAttempts = 2
    None = None
    Launchers = {l1, l2}
    Daemons = {d1, d2}
    Connections = {c1}
    MaxSockets = 1
INVARIANTS
    TypeOK
    ExclusiveUntilMisfire
    SingleBackendUntilMisfire
    PublishedIsReachable
    EveryExitReleases
PROPERTIES
    StarterSettles
CHECK_DEADLOCK FALSE
