SPECIFICATION FairSpec
CONSTANTS
    Machines = {m1, m2}
    Loaded = {m1}
    Slots = {j1, j2}
    MaxConns = 1
    MaxSteps = 2
    Migrations = 2
    NULL = NULL
INVARIANTS
    TypeOK
    MigratedOnce
    ServesMigrated
PROPERTIES
    StopsOnSignal
    JobsEnd
