SPECIFICATION Spec
CONSTANTS
    Workers = {w1}
    Kind = "grade"
    Statuses = {"ACTIVE", "INACTIVE"}
    Envelopes = {TRUE}
    FailedCount = 3
    MaxVersion = 2
    MaxFaults = 0
    MaxCrashes = 0
    MaxRebalances = 0
INVARIANTS
    StatusReflected
CHECK_DEADLOCK FALSE
