SPECIFICATION FairSpec
CONSTANTS
    u1 = u1  a1 = a1  a2 = a2  e1 = e1  e2 = e2
    NoId = NoId
    Users = {u1}
    Agents = {a1}
    Entries = {e1}
    OwnerOf <- MCOwnerOf
    AgentOf <- MCAgentOf
    Procs = {p1, p2}
    Workers = {w1}
    Grace = 2
    MaxTime = 3
    BinListLimit = 5
    ClientOps <- DeadlineOps
INVARIANTS
    TypeOK
    DeadlineInv
    QuietPassUnblocked
PROPERTIES
    WorkerKeepsWindow
    DeletedUserPurged
    DueRowsLeave
