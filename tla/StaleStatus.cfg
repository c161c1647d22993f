SPECIFICATION FairSpec
CONSTANTS
    a = a
    b = b
    u = u
    o = o
    f = f
    c = c
    DB1 = DB1
    DB2 = DB2
    None = None
    Instances = {a}
    Users = {u}
    Orgs = {}
    Features = {}
    Clients = {}
    Databases = {DB1, DB2}
    DatabaseOf <- OwnDatabase
    LabelsOf <- AlwaysMatching
    PruneValues = {TRUE}
    SuspendValues = {FALSE}
    Interval = {}
    Deletable <- AllInstances
    Secrets = {}
    FreshReads = FALSE
    MaxOps = 1
    MaxFaults = 1
PROPERTIES
    StatusSettles
CHECK_DEADLOCK FALSE
