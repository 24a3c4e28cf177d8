SPECIFICATION Spec
CONSTANTS
    Workers = {w1, w2}
    Kind = "company"
    Statuses = {"ACTIVE", "INACTIVE", "PENDING"}
    Envelopes = {TRUE}
    FailedCount = 2
    MaxVersion = 3
    MaxFaults = 1
    MaxCrashes = 1
    MaxRebalances = 1
INVARIANTS
    ColumnsWerePublished
    VersionIsPublished
    StatusMatchesVersion
    AttrsLagOnlyBehindStatusEvents
    SettledIsReflected
PROPERTIES
    OnlyOvertakenWritesRegress
    UpsertsRepair
    ImplementsPromise
SYMMETRY MCReplicas
CHECK_DEADLOCK FALSE
