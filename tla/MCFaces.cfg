\* A transport with two packets to send, four handlers ready and three faults;
\* three faces from two create commands; two configurations and two changes of
\* the network; the scenarios of MCScenarios.  Each part stops at its bounds, and
\* a face that is freed has nothing left to do.
CONSTANTS
    MaxSendQueue = 2
    MaxReady = 4
    MaxFaults = 3
    ChannelSets = {{"tcp"}, {"udp", "unix"}, {"ether", "websocket"}}
    Remotes = {"lo", "r1"}
    Loopback = {"lo"}
    Multicast = {}
    LocalScope = {"lo"}
    CreateRequests <- MCCreateRequests
    UpdateRequests <- MCUpdateRequests
    MaxFaces = 3
    MaxCreates = 2
    MaxChannelFaults = 2
    NetifNames = {"lo", "eth0", "eth1"}
    StartNetifs <- MCStartNetifs
    FaceConfigs <- MCFaceConfigs
    Contended = {"9696"}
    MaxConfigs = 2
    MaxNetChanges = 2
    A = A
    B = B
    Nodes = {A, B}
    Senders = {A}
    Scenarios <- MCScenarios
    Overrides = {6}
    SeqRange = 16
    StartTx = 13
    LossThreshold = 1
    MaxFragments = 2
    AckSize = 2
SPECIFICATION MCSpec
INVARIANTS
    FreedIsNotTouched
    ChannelMapIsItsFaces
    NoFaceAfterFailure
    NoStaleMcastFace
    EachPacketSettlesOnce
    DeliversWhatWasSent
    AcksAreScheduled
PROPERTY ClosingEnds
CHECK_DEADLOCK FALSE
