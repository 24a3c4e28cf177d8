SPECIFICATION Spec
CONSTANTS
    Null = Null
    None = None
    NoProfile = NoProfile
    Clients = {c1, c2}
    Profiles = {"p1", "p2"}
    Initial <- RaceInitial
    Names <- RaceNames
    EmptyName = ""
    RawNames <- RaceRawNames
    Descriptions = {}
    Configs <- RaceConfigs
    Patches <- RacePatches
    MaxRequests = 3
INVARIANTS
    TypeOK
    NameUnique
    StatusAndContentAreSeparate
    StoredConfigValid
    JobReproducible
PROPERTIES
    VersionCountsChanges
SYMMETRY ClientSymmetry
CHECK_DEADLOCK FALSE
