SPECIFICATION FairSpec
CONSTANTS
    v = v
    w = w
    dev = dev
    prod = prod
    x = x
    y = y
    exp = exp
    None = None
    Specs <- SomeSpecs
    RuleIds = {x, y}
    MaxOps = 4
    MaxFaults = 1
INVARIANTS
    TypeOK
PROPERTIES
    WrittenOnce
    UserRulesKept
    FeatureSettles
    DeletedFeatureGoes
CHECK_DEADLOCK FALSE
