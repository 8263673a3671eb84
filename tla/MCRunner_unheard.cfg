CONSTANTS
    k1 = k1
    k2 = k2
    payments = payments
    accounts = accounts
    tbank = tbank
    sber = sber
    Keys = {k1, k2}
    Services = {payments, accounts}
    Fields = {}
    RatioNum = 1
    RatioDen = 2
    Banks = {tbank, sber}
    Portals <- TwoPortals
    NoSnapshot <- Empty
    Order <- BankOrder
    Tasks = {t1, t2}
    NoTask = NoTask
    Notifier = TRUE
    RunNow = FALSE
    ConnectionDrops = FALSE
    TelegramFails = TRUE
    DigestBreaks = FALSE
    Crashes = FALSE
    MaxImports = 1
SPECIFICATION Spec
INVARIANT FailureWasHeard
