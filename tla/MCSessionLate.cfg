\* A Select that applies its plan after Stop.
CONSTANTS
    Callers = {"ctl", "loop", "select"}
    Plans = {"p"}
    TunPlans = {"p"}
    ThePlan = "p"
    ReloadOutcomes = {"unsupported"}
    RestartBudget = 1
    QueueLen = 4
    MaxProcs = 2
    Networks = {"n"}
    TheNets = "n"
    Outcomes = {"ok", "refused"}
    MaxCopies = 1
    SelectCalls = 1
    KillCalls = {TRUE, FALSE}
    Renewals = 1
SPECIFICATION SessionSpec
INVARIANT StopShutsDown
