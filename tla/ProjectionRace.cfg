SPECIFICATION Spec
CONSTANTS
    Workers = {w1, w2}
    Kind = "location"
    Statuses = {"ACTIVE", "INACTIVE"}
    Envelopes = {TRUE}
    FailedCount = 3
    MaxVersion = 3
    MaxFaults = 0
    MaxCrashes = 0
    MaxRebalances = 0
PROPERTIES
    VersionNeverRegresses
CHECK_DEADLOCK FALSE
