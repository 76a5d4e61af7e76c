\* One message to two webhooks, with three attempts each.
SPECIFICATION FairSpec
CONSTANTS
    Messages = {m1}
    Webhooks = {h1, h2}
    RetryCount = 3
    MaxStalls = 1
    None = None
INVARIANTS TypeOK BoundedPosts  EveryoneServed
PROPERTIES VerdictIsFinal Settles
