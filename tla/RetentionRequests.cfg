SPECIFICATION Spec
CONSTANTS
    u1 = u1  a1 = a1  a2 = a2  e1 = e1  e2 = e2
    NoId = NoId
    Users = {u1}
    Agents = {a1, a2}
    Entries = {e1}
    OwnerOf <- MCOwnerOf
    AgentOf <- MCAgentOf
    Procs = {p1, p2}
    Workers = {}
    Grace = 2
    MaxTime = 2
    BinListLimit = 1
    ClientOps <- Ops
SYMMETRY ProcSymmetry
PROPERTIES
    VisibleGoesThroughBin
    BinDeadlineKept
    EmptyAllEmptiesBin
    DeletedAccountStaysDown
CHECK_DEADLOCK FALSE
