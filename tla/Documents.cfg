SPECIFICATION FairSpec
CONSTANTS
    v = v
    w = w
    dev = dev
    prod = prod
    secret = secret
    rotated = rotated
    m = m
    None = None
    Secrets = {secret, rotated}
    Users = {m}
    Kinds = {"users", "orgs", "features", "clients"}
    Specs <- OneOrBothEnvironments
    MaxOps = 3
    MaxFaults = 2
INVARIANTS
    TypeOK
    OneDocument
    SyncedDocument
    PayloadFreshWithoutFaults
PROPERTIES
    KeysKept
    ImplementsGuardedDocument
    KnownRulesKept
    Converges
    PrunedInTheEnd
CHECK_DEADLOCK FALSE
