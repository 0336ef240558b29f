SPECIFICATION FairSpec
CHECK_DEADLOCK FALSE
CONSTANTS
    c1 = c1
    c2 = c2
    Client = {c1, c2}
    Request <- MCRequest
    Category = {"tag", "client"}
    Tag = {1, 2}
    NoClient = NoClient
    NoRequest = NoRequest
    SockCap = 1
    MaxAsk <- MCMaxAsk
    MaxQueued = 0
INVARIANTS QueuedIffWatched
PROPERTIES ServiceKept EveryRequestAnswered
