SPECIFICATION Spec
CONSTANTS
    Null = Null
    None = None
    NoProfile = NoProfile
    Clients = {c1}
    Profiles = {"p1"}
    Initial <- ChainInitial
    Names <- ChainNames
    EmptyName = ""
    RawNames = {}
    Descriptions = {}
    Configs <- ChainConfigs
    Patches <- ChainPatches
    MaxRequests = 3
INVARIANTS
    Precedence
    CeilingsHold
CHECK_DEADLOCK FALSE
