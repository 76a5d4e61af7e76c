\* Two messages, of either of two sessions, and a client.
SPECIFICATION FairSpec
CONSTANTS
    Messages = {m1, m2}
    Sessions = {s1, s2}
    Events = {"message.received"}
    Clients = {c1}
    Star = "*"
INVARIANT PlainInOrder
PROPERTY SubscribersHear
