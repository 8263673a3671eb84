CONSTANTS
    k1 = k1
    k2 = k2
    payments = payments
    accounts = accounts
    f1 = f1
    Keys = {k1, k2}
    Services = {payments, accounts}
    Fields = {f1}
    RatioNum = 1
    RatioDen = 2
    Banks = {sber, tochka}
    Importers = {i1, i2}
    Portals <- TwoPortals
    Keep = 2
    ConnectionDrops = FALSE
    MaxSnapshots = 4
SPECIFICATION Spec
PROPERTIES
    CurrentIsNeverPruned
    HistoryIsForever
SYMMETRY ImporterSymmetry
