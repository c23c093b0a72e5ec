SPECIFICATION FaultFreeSpec
CONSTANTS
    r1 = r1
    r2 = r2
    r3 = r3
    u1 = u1
    u2 = u2
    None = None
    Requests = {r1, r2}
    Users = {u1}
    Roles = {FALSE}
    SessionTTL = 2
    CacheTTL = 1
    SelectedColumns = 25
    ScannedColumns = 24
    LastTick = 3
SYMMETRY Symmetry
PROPERTY ValidSessionIsServed
CHECK_DEADLOCK FALSE
