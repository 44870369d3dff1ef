\* Three events from outside the daemon; three faces for nfdc and two for
\* nfd-autoreg; three runs of the discovery procedure.  Programs end.
CONSTANTS
    Contents <- MCContents
    Unreadable = {10}
    StartFiles = {1, 2, 4, 7, 8, 9, 10}
    MgmtModules = {"fib", "cs"}
    Users = {"ndn", "nfd"}
    RibCert = "k1"
    DefaultCsLimit = 9
    MaxEvents = 3
    NoArg = NoArg
    Unresolved = Unresolved
    Launches <- MCLaunches
    FaceUris <- MCFaceUris
    NameOf <- MCNameOf
    NumberOf <- MCNumberOf
    RouteOrigins = {"static", "client"}
    Canon <- MCCanon
    SchemeOf <- MCSchemeOf
    Peers <- MCPeers
    DefaultEndpoint = "e1"
    Sections = {"face", "rib"}
    Strategies <- MCKnownStrategies
    MaxFaces = 3
    FaceKinds <- MCFaceKinds
    AutoregPrefixes = {"p"}
    AllFacesPrefixes = {"q"}
    Blacklist = {"black"}
    Whitelist = {"white", "black"}
    MaxAutoregFaces = 2
    HubPrefixes <- MCHubPrefixes
    MaxMcastFaces = 2
    MaxRuns = 3
SPECIFICATION MCSpec
INVARIANTS
    StopsLiveContext
    ServesAsConfigured
    ExitZeroMeansDone
    AutoregCoversFaces
    DaemonKeepsTrying
PROPERTY FailureEndsBoth
CHECK_DEADLOCK FALSE
