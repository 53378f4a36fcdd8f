\* One caller, two plans of which one owns a TUN adapter; or two events through a
\* history of one and queues of one.
CONSTANTS
    Callers = {"api"}
    Plans = {"tun", "proxy"}
    TunPlans = {"tun"}
    ReloadOutcomes = {"ok", "error", "unsupported"}
    RestartBudget = 1
    QueueLen = 0
    MaxProcs = 3
    Appenders = {"loop", "rpc"}
    MaxEvents = 2
    MaxFeeds = 2
    Capacity = 1
    Buffer = 1
SPECIFICATION EngineSpec
INVARIANTS OneEngine StopIsFinal AckedPlanRuns StopReleasesRoutes EventCovered NoRepeat
