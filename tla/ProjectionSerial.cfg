SPECIFICATION Spec
CONSTANTS
    Workers = {w1}
    Kind = "department"
    Statuses = {"ACTIVE", "INACTIVE"}
    Envelopes = {TRUE, FALSE}
    FailedCount = 2
    MaxVersion = 4
    MaxFaults = 2
    MaxCrashes = 1
    MaxRebalances = 1
INVARIANTS
    TypeOK
    StatusMatchesVersion
    AttrsLagOnlyBehindStatusEvents
    SettledIsReflected
PROPERTIES
    VersionNeverRegresses
CHECK_DEADLOCK FALSE
