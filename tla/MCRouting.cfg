\* RIB: two faces, one timeout per FIB command and two in all, three commands.
\* Strategies: four packets or changes per behaviour.  The run stops when the
\* commands or packets are used up.
CONSTANTS
    Requests <- MCRequests
    Timed <- MCTimed
    Faces = {1, 2}
    Late = {2}
    Mortal = {2}
    MaxDepth = 3
    MaxTimeouts = 1
    MaxQueue = 1
    MaxCommands = 3
    MaxLost = 2
    RvRoutes <- MCRvRoutes
    Identities <- MCIdentities
    PolicyKind = "gateway"
    RetryMax = 4
    MaxInFlight = 2
    MaxRrs = 3
    A = A
    B = B
    U = U
    V = V
    n1 = n1
    n2 = n2
    StratScenarios <- ScenariosValue
    Lifetime = 4
    InitialInterval = 1
    MaxInterval = 2
    MinRetxInterval = 1
    Rto = 2
    FirstProbe = {0, 2}
    ProbingInterval = 2
    MeasurementsLifetime = 3
    MaxSilentTimeouts = 2
    Linger = 1
    MaxPackets = 4
SPECIFICATION RoutingSpec
INVARIANTS
    FibFollowsRib
    TimedRoutesEnd
    UpdateMakesProgress
    RefreshNeverStops
    StrategiesFindRecords
    RetxIsSpaced
    ProbingNeverStops
CHECK_DEADLOCK FALSE
