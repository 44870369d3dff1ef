CONSTANTS
    Names <- MCNames
    Root = "/"
    Prefixes <- MCPrefixes
    Interests = {"a", "ad", "ab"}
    NteName <- MCNteName
    LongName <- MCLongName
    LargeInterests = {"ab"}
    Faces = {f1, f2}
    Strategies = {"best-route", "multicast"}
    TypeOf <- MCTypeOf
    DefaultStrategy = "best-route"
    PitCapacity = 2
    RoutedNames = {"/A/d"}
    MeasuredNames = {"/A/d"}
    ChosenNames = {"/A", "/A/d"}
    Stored <- MCStored
    Cuts <- MCCuts
    ComponentHash <- MCHash
    MinSize = 4
    ExpandLoad = 50
    ExpandFactor = 200
    ShrinkLoad = 20
    ShrinkFactor = 50
    Nonces = {n1, n2, n3, n4}
    MARK = MARK
    EXPECTED_MARK_COUNT = 2
    MIN_CAPACITY = 3
    INITIAL_CAPACITY = 4
    MAX_CAPACITY = 6
    CAPACITY_UP = 150
    CAPACITY_DOWN = 60
    EVICT_LIMIT = 2
SPECIFICATION MCSpec
INVARIANT FindMeetsNoEmptyNte
