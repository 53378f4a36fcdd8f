\* Liveness of one session: failures are reported and Stop returns.
CONSTANTS
    Callers = {"ctl", "loop", "select"}
    Plans = {"p"}
    TunPlans = {"p"}
    ThePlan = "p"
    ReloadOutcomes = {"unsupported"}
    RestartBudget = 1
    QueueLen = 4
    MaxProcs = 1
    Networks = {"n"}
    TheNets = "n"
    Outcomes = {"ok", "refused"}
    MaxCopies = 1
    SelectCalls = 0
    KillCalls = {TRUE, FALSE}
    Renewals = 1
SPECIFICATION SessionFairSpec
PROPERTIES FailureReported StopReturns
