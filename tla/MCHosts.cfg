SPECIFICATION HostsSpec
CONSTANTS
    Families <- OneFamily
    Others <- SomeOthers
    Legacy <- SomeLegacy
    MaxFaults = 2
    Pools <- TwoPools
    MaxBridgeFaults = 2
    MaxRenewals = 1
    Keys = {"split", "disorder"}
    MaxProxies = 2
    MaxRuns = 2
    MaxMisses = 1
    Servers = {"e1", "e2", "x1", "x2", "c", "o1", "o2", "b"}
    Requests <- SomeRequests
    Class <- ClassOf
    Batch <- BatchOf
    Concurrency = 1
    MaxRequests = 2
    MaxBusy = 2
    References <- SomeReferences
    Resolves <- ResolvesTo
    MaxHops = 2
    MaxBody = 2
INVARIANTS NoLoop CleanIsEmpty ShownIsTrue AllAnswered DialsChecked
PROPERTIES StoppedEnds
ACTION_CONSTRAINT RelaysKeepUp
