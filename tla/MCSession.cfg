\* Safety of one session of an engine whose Select applies the plan again.
CONSTANTS
    Callers = {"ctl", "loop", "select"}
    Plans = {"p"}
    TunPlans = {"p"}
    ThePlan = "p"
    ReloadOutcomes = {"ok", "error", "unsupported"}
    RestartBudget = 1
    QueueLen = 1
    MaxProcs = 2
    Networks = {"n"}
    TheNets = "n"
    Outcomes = {"ok", "refused"}
    MaxCopies = 1
    SelectCalls = 1
    KillCalls = {TRUE, FALSE}
    Renewals = 1
SPECIFICATION SessionSpec
INVARIANTS BlockHolds EngineBehindGuard StopCleans
