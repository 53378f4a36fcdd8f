SPECIFICATION PlansSpec
CONSTANTS
    MaxOutbounds = 10
    MaxGroups = 2
    MaxRules = 8
    MaxDNSServers = 2
    MaxItems = 3
    Hosts <- MCHosts
    Documents <- MCDocuments
    Requests <- MCRequests
    Settings <- MCSettings
    Picks <- MCPicks
    Messages <- SomeMessages
    Size <- SizeOf
    Hide <- Masked
    Filters <- SomeFilters
    SettingsIn <- SomeSettings
    DefaultEntries = 3
    DefaultBytes = 5
    WatchBuffer = 1
    PageLimit = 1
    MaxWrites = 3
    MaxRepeat = 2
INVARIANTS RoutesPreserved ChoiceSurvives LayersKept PagesAreWhole NothingSkipped
