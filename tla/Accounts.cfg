SPECIFICATION Spec
CONSTANTS
    People = {g1, g2}
    Addresses = {m1, m2, m3}
    Nonces = {n1, n2}
    Procs = {p1, p2}
    ClientOps <- Ops
    MaxUsers = 2
    MaxSessions = 2
    MaxTokens = 1
    None = None
SYMMETRY Symmetry
INVARIANTS
    TypeOK
    OwnAccount
    OneSessionPerState
    DeletedLockedOut
