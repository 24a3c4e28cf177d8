SPECIFICATION Spec
CONSTANTS
    None = None
    Workers = {w1, w2}
    Statuses = {"ACTIVE", "INACTIVE"}
    FailedCount = 2
    MaxVersion = 3
    MaxFaults = 0
    MaxCrashes = 1
    MaxRebalances = 0
    Clients = {c1}
    Requests <- MCRequests
    MaxRequests = 1
    Updaters = {u1}
    Patches <- MCPatches
    MaxCalls = 1
    Department = "dep"
    Companies <- MCCompanies
    CompanyAt <- MCCompanyAt
    Others = {"grade"}
    MaxChanges = 4
INVARIANTS
    PlacementsWerePublished
    UpdatedUnitsBelong
    UntouchedReferencesKept
PROPERTIES
    ImplementsCreate
SYMMETRY MCReplicas
CHECK_DEADLOCK FALSE
