CONSTANTS
    g = g
    a = a
    b = b
    k = k
    Cells = {g, a, b, k}
    Root = g
    Parent <- MCParent
    Started = {g, a, k}
    AllForOne = {g}
    Directives = {"Resume", "Restart", "Stop", "Escalate"}
    MaxEvents = 3
SPECIFICATION FairSpec
INVARIANTS HeldUntilDecided NobodyStuck WatchersTold
PROPERTIES ChildrenFirst SettlesDown
CHECK_DEADLOCK FALSE
