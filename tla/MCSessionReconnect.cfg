\* Liveness of recovery: one restart.
CONSTANTS
    Callers = {"ctl", "loop", "select"}
    Plans = {"p"}
    TunPlans = {}
    ThePlan = "p"
    ReloadOutcomes = {"unsupported"}
    RestartBudget = 1
    QueueLen = 4
    MaxProcs = 2
    Networks = {"n"}
    TheNets = "n"
    Outcomes = {"ok"}
    MaxCopies = 1
    SelectCalls = 0
    KillCalls = {}
    Renewals = 1
SPECIFICATION SessionFairSpec
PROPERTIES ReconnectEnds EngineRecovers
