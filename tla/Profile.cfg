SPECIFICATION Spec
CONSTANTS
    Users = {u1, u2}
    Handles = {h1}
    Bios = {b1}
    NULL = NULL
    Procs = {p1, p2}
    MaxAgents = 2
SYMMETRY Symmetry
INVARIANTS
    OperatorConsent
    OneAgentPerHandle
PROPERTIES
    OwnerPatches
