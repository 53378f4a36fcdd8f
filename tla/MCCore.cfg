\* Two services, a check and two faults; or two pools, two databases and two
\* kills; or the filters; or the credential store with crashes and power losses
\* at every step; or two subscriptions with two saves besides refreshes and
\* deletions.
CONSTANTS
    Services = {"a", "b"}
    Checks = {"check"}
    Nobody = Nobody
    MaxFaults = 2
    Pools = {"p1", "p2"}
    Versions = {"v1", "v2"}
    MaxKills = 2
    Refs = {"r1", "r2"}
    Materials = {"m", "big"}
    Ids = {i1, i2}
    Keys = {k1, k2}
    None = None
    MaxSecrets = 2
    Fits <- FitsVault
    DirSync = TRUE
    Subs = {"s1", "s2"}
    Links = {"a", "b"}
    Absent = Absent
    Deleted = Deleted
    MaxRevision = 2
    FeedLen = 2
    MaxStreams = 1
SPECIFICATION CoreSpec
INVARIANTS RoutesKept TokenOnDisk PoolMatches OnlyAllowedLeaves NeverRefused ViewCurrent
PROPERTIES OrphansEnd Implements
