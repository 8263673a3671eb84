CONSTANTS
    Components = {"logins"}
    Admins = {u1, u2}
    Times = {"10:00", "11:00"}
    DefaultTime = "10:00"
    Addresses = {u1, u2}
    MaxFailures = 2
    Window = 3
    MaxNow = 5
    Starts = {u1, u2}
    Versions = {1, 2, 3}
    Blank = {2}
    MaxRuns = 3
    Chats = {c1, c2}
    Fixed = {c2}
    Admin = {}
    Parts = 2
    Attempts = 2
    Faults = {"network", "limit", "reject", "db", "crash"}
    Limit = 9
    MaxLines = 2
    Bulk = 3
    Lengths = {3, 10}
    Plain = {2}
    DashboardUrl = TRUE
    MaxBanks = 2
    MaxChanges = 4
    MaxImports = 3
    MaxDay = 1
    Batches = {0, 1, 2}
    SnapshotsKept = 2
    PageSize = 2
    LogPageSize = 2
    MaxEvents = 4
    MaxPruned = 1
    Users = {u1, u2}
    MaxEdits = 3
    MaxPollFailures = 2
    MaxParses = 2
SPECIFICATION AppSpec
INVARIANT EveryWindowIsBounded
CHECK_DEADLOCK FALSE
