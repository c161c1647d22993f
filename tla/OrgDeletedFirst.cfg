SPECIFICATION Spec
CONSTANTS
    a = a
    b = b
    u = u
    o = o
    f = f
    c = c
    DB1 = DB1
    DB2 = DB2
    None = None
    Instances = {a}
    Users = {}
    Orgs = {o}
    Features = {f}
    Clients = {}
    Databases = {DB1, DB2}
    DatabaseOf <- OwnDatabase
    LabelsOf <- AlwaysMatching
    PruneValues = {TRUE}
    SuspendValues = {FALSE}
    Interval = {}
    Deletable <- AllObjects
    Secrets = {}
    FreshReads = TRUE
    MaxOps = 2
    MaxFaults = 0
INVARIANTS
    GoneInstanceHoldsNothing
CHECK_DEADLOCK FALSE
