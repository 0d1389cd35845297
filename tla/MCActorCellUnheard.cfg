CONSTANTS
    g = g
    a = a
    b = b
    k = k
    Cells = {g, a, b, k}
    Root = g
    Parent <- MCParent
    Started = {g, a, k}
    AllForOne = {g}
    Directives = {"Resume", "Restart", "Stop", "Escalate"}
    MaxEvents = 3
SPECIFICATION Spec
CHECK_DEADLOCK FALSE
INVARIANT WatchersAlwaysTold
