CONSTANTS
    Chats = {c1, c2}
    Fixed = {c2}
    Admin = {}
    Parts = 1
    Attempts = 1
    Faults = {"db"}
SPECIFICATION Spec
INVARIANT ReachesEveryone
