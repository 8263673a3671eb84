CONSTANTS
    Chats = {c1, c2}
    Fixed = {c2}
    Admin = {c2}
    Parts = 2
    Attempts = 2
    Faults = {"limit", "reject", "db", "crash"}
SPECIFICATION FairSpec
PROPERTY BroadcastEnds
