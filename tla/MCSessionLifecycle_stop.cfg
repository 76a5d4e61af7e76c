\* A stop while a reconnection run destroys the old engine.
SPECIFICATION FairSpec
CONSTANTS
    Engines = {e1, e2}
    Calls = {c1, c2}
    Runs = {r1}
    Shutdown = shutdown
    None = None
    MaxAttempts = 1
    Ordered = TRUE
    MaxCalls = 2
    MaxStray = 1
    MaxWrites = 2
PROPERTY StopCancelsReconnect
