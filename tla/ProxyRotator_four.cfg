CONSTANTS
    N = 4
    Workers = {w1}
    Cooldown = 2
    MaxAttempts = 3
    MaxTime = 1
SPECIFICATION Spec
INVARIANT DirectIsLastResort
