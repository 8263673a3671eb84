CONSTANTS
    k1 = k1
    k2 = k2
    payments = payments
    accounts = accounts
    f1 = f1
    Keys = {k1, k2}
    Services = {payments, accounts}
    Fields = {f1}
    RatioNum = 1
    RatioDen = 2
    Banks = {sber}
    Importers = {i1}
    Portals <- AllPortals
    Keep = 2
    ConnectionDrops = TRUE
    MaxSnapshots = 4
SPECIFICATION Spec
INVARIANTS
    FeedReplaysSurface
    FeedAlternates
    FeedHidesHidden
    OnlyConflictsAreReported
    SurfaceNeverCollapses
    ReturnsWhatWasStored
    KeepsLatestImports
PROPERTY ImplementsHistory
