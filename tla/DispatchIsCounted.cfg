SPECIFICATION ToolSpec
CONSTANTS
    Launchers = {l1}
    Daemons = {m1, m2}
    MaxSockets = 1
    MayCrash = {}
    None = None
    Connections = {c1, c2}
    Inspections = {i1, i2}
    Devices = {d1, d2}
    Apps = {app1, app2}
    Targets <- MetroTargets
    Opaque = Opaque
    Nothing = Nothing
    d1 = d1
    d2 = d2
    app1 = app1
    MaxChanges = 0
    Size = 4
    Roots = 2
    MaxPriority = 1
    FiberInputs <- Forests
    Batches <- ToolCalls
    Trees <- NativeTrees
    FiberTrees <- Projections
    Selectors <- Asked
    Longer <- LongerNames
    Texts <- Words
    Space = " "
    SearchLimit = 2
    OnScreen = {1, 2, 3}
    Platforms = {"ios", "android"}
    Screens <- ObservedScreens
    Callers = {r1, r2}
    MaxCloses = 0
    MaxFailures = 1
    MaxDrops = 1
    DeviceCount = 1
    Readers = {r1, r2}
    PageLimit = 1
    RetainedLimit = 3
    SnapshotLimit = 2
    MaxLists = 1
    MaxListChanges = 0
    MaxExpiries = 0
    HistoryLimit = 1
    MaxObservations = 0
    MaxViews = 0
SYMMETRY Symmetry
INVARIANT DispatchIsCounted
CHECK_DEADLOCK FALSE
