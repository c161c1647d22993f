SPECIFICATION Spec
CONSTANTS
    a = a
    b = b
    u = u
    o = o
    f = f
    c = c
    DB1 = DB1
    DB2 = DB2
    None = None
    Instances = {a}
    Users = {u}
    Orgs = {}
    Features = {}
    Clients = {}
    Databases = {DB1, DB2}
    DatabaseOf <- OwnDatabase
    LabelsOf <- AnyLabels
    PruneValues = {TRUE}
    SuspendValues = {TRUE, FALSE}
    Interval = {}
    Deletable <- AllObjects
    Secrets = {u}
    FreshReads = FALSE
    MaxOps = 3
    MaxFaults = 1
INVARIANTS
    TypeOK
    FinalizerGuardsDocument
PROPERTIES
    NoLiveDocumentPruned
    ReadyIsHonest
    ImplementsGuardedDocument
CHECK_DEADLOCK FALSE
