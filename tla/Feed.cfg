SPECIFICATION Spec
CONSTANTS
    a1 = a1  a2 = a2
    Ids = {1, 2, 3, 4}
    Agents = {a1, a2}
    AgentOf <- MCAgentOf
    Keys = {1, 2}
    Readers = {r1}
    MaxLimit = 2
    NoCursor = NoCursor
INVARIANTS
    WalkDescends
    WalkComplete
