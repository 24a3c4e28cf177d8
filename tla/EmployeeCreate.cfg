SPECIFICATION FairSpec
CONSTANTS
    None = None
    Clients = {c1, c2}
    Entities <- MCEntities
    Homes <- MCHomes
    Projected <- MCProjected
    Staff <- MCStaff
    Requests <- MCRequests
    MaxRequests = 3
    MaxChanges = 1
    MaxFaults = 1
INVARIANTS
    TypeOK
    CodesUnique
    AllOrNothing
    ReferencesWereActive
    OneOrganization
    ManagersCanManage
PROPERTIES
    ImplementsRegistry
    EveryRequestEnds
CHECK_DEADLOCK FALSE
