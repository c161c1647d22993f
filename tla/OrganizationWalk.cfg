SPECIFICATION FairSpec
CONSTANTS
    a = a
    b = b
    u = u
    o = o
    f = f
    c = c
    DB1 = DB1
    DB2 = DB2
    None = None
    Instances = {a}
    Users = {}
    Orgs = {o}
    Features = {}
    Clients = {c}
    Databases = {DB1, DB2}
    DatabaseOf <- OwnDatabase
    LabelsOf <- AlwaysMatching
    PruneValues = {TRUE}
    SuspendValues = {TRUE, FALSE}
    Interval = {}
    Deletable <- AllButOrgs
    Secrets = {a, c}
    FreshReads = TRUE
    MaxOps = 2
    MaxFaults = 1
INVARIANTS
    PrunedWithInstance
    GoneInstanceHoldsNothing
PROPERTIES
    PublishedCatalogIsFound
    DeletedResourceGoes
    DeletedInstanceGoes
    SelectedResourceSynced
    StatusSettles
CHECK_DEADLOCK FALSE
