SPECIFICATION Spec
CONSTANTS
    r1 = r1
    r2 = r2
    r3 = r3
    u1 = u1
    u2 = u2
    None = None
    Requests = {r1, r2, r3}
    Users = {u1, u2}
    Roles = {FALSE}
    SessionTTL = 3
    CacheTTL = 2
    SelectedColumns = 25
    ScannedColumns = 25
    LastTick = 4
SYMMETRY Symmetry
INVARIANTS TypeOK OwnIdentity QuietLogoutIsFinal DeletedUserFadesOut
CHECK_DEADLOCK FALSE
