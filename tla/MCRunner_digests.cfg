CONSTANTS
    k1 = k1
    k2 = k2
    payments = payments
    accounts = accounts
    tbank = tbank
    sber = sber
    Keys = {k1, k2}
    Services = {payments, accounts}
    Fields = {}
    RatioNum = 1
    RatioDen = 2
    Banks = {tbank, sber}
    Portals <- ThreePortals
    NoSnapshot <- Empty
    Order <- BankOrder
    Tasks = {t1}
    NoTask = NoTask
    Notifier = TRUE
    RunNow = TRUE
    ConnectionDrops = FALSE
    TelegramFails = TRUE
    DigestBreaks = FALSE
    Crashes = FALSE
    MaxImports = 2
SPECIFICATION FairSpec
INVARIANT DigestsTellHistory
PROPERTY EveryRunEnds
