SPECIFICATION FairSpec
CONSTANTS
    a = a
    b = b
    s = s
    c = c
    v = v
    w = w
    Short = Short
    None = None
    Instances = {a, b}
    Users = {}
    Clients = {c}
    Secrets = {s}
    Selectors = {"labels", "nil"}
    Labellings <- AllOrB
    Tokens = {v, w}
    AtFirst = {v}
    RootSecret <- OneRootSecret
    Interval = {b}
    MaxOps = 3
INVARIANTS
    TypeOK
    QuietIsIndexed
    QuietIsSynced
PROPERTIES
    PassesEnd
    TokenArrives
CHECK_DEADLOCK FALSE
