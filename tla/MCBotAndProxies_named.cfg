CONSTANTS
    Chats = {c1, c2}
    Fixed = {c2}
    Admin = {c2}
    Parts = 2
    Attempts = 2
    Faults = {"network", "limit", "reject", "db", "crash"}
    Callers = {u1, u2}
    Urls = {x1, x2, x3}
    MaxProxies = 2
    MaxListed = 1
    MaxId = 3
    MaxRepeats = 1
SPECIFICATION TwoSpec
INVARIANT EachIsNamed
SYMMETRY AnyAddress
