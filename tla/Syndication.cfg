SPECIFICATION Spec
CONSTANTS
    a1 = a1  a2 = a2
    Agents = {a1}
    Entries = {2, 3}
    AgentOf <- MCAgentOf
    Tagged = {3}
    URLs <- AllURLs
    Procs = {p1}
    MaxFeedItems = 1
    MaxAge = 1
    MaxTime = 6
    NULL = NULL
INVARIANTS
    TypeOK
    TakenDownInTime
    NothingLost
