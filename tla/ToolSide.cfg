SPECIFICATION ToolSpec
CONSTANTS
    Launchers = {l1, l2}
    Daemons = {m1, m2}
    MaxSockets = 2
    MayCrash = {l1}
    None = None
    Connections = {c1, c2}
    Inspections = {i1, i2}
    Devices = {d1, d2}
    Apps = {app1, app2}
    Targets <- MetroTargets
    Opaque = Opaque
    Nothing = Nothing
    d1 = d1
    d2 = d2
    app1 = app1
    MaxChanges = 1
    Size = 4
    Roots = 2
    MaxPriority = 1
    FiberInputs <- Forests
    Batches <- ToolCalls
    Trees <- NativeTrees
    FiberTrees <- Projections
    Selectors <- Asked
    Longer <- LongerNames
    Texts <- Words
    Space = " "
    SearchLimit = 2
    OnScreen = {1, 2, 3}
    Platforms = {"ios", "android"}
    Screens <- ObservedScreens
    Callers = {r1, r2}
    MaxCloses = 1
    MaxFailures = 1
    MaxDrops = 1
    DeviceCount = 4
    Readers = {r1, r2}
    PageLimit = 1
    RetainedLimit = 3
    SnapshotLimit = 2
    MaxLists = 3
    MaxListChanges = 1
    MaxExpiries = 1
    HistoryLimit = 1
    MaxObservations = 3
    MaxViews = 1
SYMMETRY Symmetry
INVARIANTS
    ToolTypeOK
    RecordOutlivesSessions OneServingDaemon
    NoDebuggerForgotten TreeIsOfOwnTarget ProjectionIsFair
    SuccessIsSeen TextIsFinal TapReachesItsTarget PagesAreOfOneInventory DeltaIsComplete
CHECK_DEADLOCK FALSE
