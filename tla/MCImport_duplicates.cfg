CONSTANTS
    k1 = k1
    k2 = k2
    payments = payments
    accounts = accounts
    f1 = f1
    Keys = {k1, k2}
    Services = {payments, accounts}
    Fields = {f1}
    RatioNum = 1
    RatioDen = 2
    Banks = {sber}
    Importers = {i1}
    Portals <- ConflictingPortals
    Keep = 2
    ConnectionDrops = FALSE
    MaxSnapshots = 3
SPECIFICATION Spec
INVARIANT UnchangedPortalIsSilent
