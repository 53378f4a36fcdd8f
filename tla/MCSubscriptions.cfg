\* Subscriptions with requests, deadlines, failures and a restart.
CONSTANTS
    Ids = {1, 2}
    Links = {"a", "b"}
    Servers = {"s", "t"}
    Payloads = {{"t"}, {"s", "t"}}
    MaxSubscriptions = 2
    ParallelUpdates = 1
    Crashes = TRUE
    None = None
    MaxEvents = 3
SPECIFICATION Spec
ACTION_CONSTRAINT DrawnInOrder
INVARIANTS VaultMatchesBook
PROPERTIES ListFromOwnLink DueIsAttempted
