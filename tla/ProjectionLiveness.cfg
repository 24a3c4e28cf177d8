SPECIFICATION FairSpec
CONSTANTS
    Workers = {w1, w2}
    Kind = "jobTitle"
    Statuses = {"ACTIVE", "INACTIVE"}
    Envelopes = {TRUE}
    FailedCount = 2
    MaxVersion = 3
    MaxFaults = 1
    MaxCrashes = 1
    MaxRebalances = 0
PROPERTIES
    EventuallyReflected
CHECK_DEADLOCK FALSE
