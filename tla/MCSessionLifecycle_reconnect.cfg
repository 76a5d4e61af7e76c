\* One start and every event after it: attempts, timers and runs; crashes.
SPECIFICATION FairSpec
CONSTANTS
    Engines = {e1, e2}
    Calls = {c1}
    Runs = {r1}
    Shutdown = shutdown
    None = None
    MaxAttempts = 2
    Ordered = TRUE
    MaxCalls = 1
    MaxStray = 1
    MaxWrites = 3
INVARIANTS NoStall
PROPERTIES ReconnectSettles
