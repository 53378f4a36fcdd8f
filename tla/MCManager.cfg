\* Two clients, two sessions, and a shutdown at any time.
CONSTANTS
    Networks = {"n"}
    Outcomes = {"ok", "refused"}
    MaxCopies = 1
    Clients = {"a", "b"}
    App = "app"
    MaxSessions = 2
    MaxLate = 1
ACTION_CONSTRAINT Division
SPECIFICATION ManagerFairSpec
INVARIANTS OneOwner OwnerReachable BlockOwned KillHitsNamed
PROPERTIES BusyEnds
