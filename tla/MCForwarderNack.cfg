\* A Nack, and then another Interest to the same upstream.
CONSTANTS
    Interests = {"any", "fresh", "pub"}
    NameOf <- MCNameOf
    Scope <- MCScope
    MustBeFresh = {"fresh", "pub"}
    Data = {"lx", "x"}
    Matches <- MCMatches
    LocalhostData = {"lx"}
    ShortLived = {"lx", "x"}
    Faces = {"app", "remote", "adhoc", "up"}
    Local = {"app", "up"}
    PointToPoint = {"app", "remote", "up"}
    AdHoc = {"adhoc"}
    Downstreams = {"app", "remote", "adhoc"}
    Upstreams = {"up"}
    Removable = {"up"}
    Nonces = {"n1", "n2"}
    MaxLifetime = 2
    PitCapacity = 2
SPECIFICATION MCSpec
INVARIANT NackIsForLastInterest
