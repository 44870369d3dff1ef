\* As MCRouting.cfg, for the RIB alone and two routes of one entry and face.
CONSTANTS
    Requests <- MCSharedFace
    Timed <- MCTimed
    Faces = {1, 2}
    Late = {2}
    Mortal = {2}
    MaxDepth = 3
    MaxTimeouts = 1
    MaxQueue = 1
    MaxCommands = 3
    MaxLost = 2
    RvRoutes <- MCRvRoutes
    Identities <- MCIdentities
    PolicyKind = "gateway"
    RetryMax = 4
    MaxInFlight = 2
    MaxRrs = 3
    A = A
    B = B
    U = U
    V = V
    n1 = n1
    n2 = n2
    StratScenarios <- ScenariosValue
    Lifetime = 4
    InitialInterval = 1
    MaxInterval = 2
    MinRetxInterval = 1
    Rto = 2
    FirstProbe = {0, 2}
    ProbingInterval = 2
    MeasurementsLifetime = 3
    MaxSilentTimeouts = 2
    Linger = 1
    MaxPackets = 4
SPECIFICATION RibAloneSpec
INVARIANT KeepsCheapestOfFace
CHECK_DEADLOCK FALSE
