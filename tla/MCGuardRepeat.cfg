\* The guard with nft runs that a deadline may cut short.
CONSTANTS
    Networks = {"a", "b"}
    Outcomes = {"ok", "refused", "cut"}
    MaxCopies = 2
SPECIFICATION GuardSpec
PROPERTY RestoreIsRepeatable
