\* One subscription whose link changes while a fetch is running.
CONSTANTS
    Ids = {1}
    Links = {"a", "b"}
    Servers = {"s"}
    Payloads = {{"s"}}
    MaxSubscriptions = 1
    ParallelUpdates = 1
    Crashes = FALSE
    None = None
    MaxEvents = 2
SPECIFICATION Spec
PROPERTY LinkIsFetched
