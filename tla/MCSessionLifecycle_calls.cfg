\* Two calls and two reconnection runs at a time; updates in any order.
SPECIFICATION Spec
CONSTANTS
    Engines = {e1, e2}
    Calls = {c1, c2}
    Runs = {r1, r2}
    Shutdown = shutdown
    None = None
    MaxAttempts = 1
    Ordered = FALSE
    MaxCalls = 2
    MaxStray = 1
    MaxWrites = 2
SYMMETRY Symmetry
INVARIANTS TypeOK  RestartResets
PROPERTIES DeletedStaysDeleted StoppedStaysStopped
