SPECIFICATION Spec
SYMMETRY Symmetry
CONSTANTS
    o = o
    g = g
    u = u
    v = v
    x = x
    y = y
    admin = admin
    None = None
    Guest = Guest
    Users = {u, v}
    Orgs = {o}
    Groups = {g}
    Labels <- SomeLabels
    Roles = {admin}
    Bindings <- OneGroup
    Ids = {x, y}
    MaxOps = 3
    MaxFaults = 1
INVARIANTS
    TypeOK
    MembersFollowBindings
    SelectedUsersHaveDocuments
    OrphansOnlyFromEdits
    GuestsKept
CHECK_DEADLOCK FALSE
