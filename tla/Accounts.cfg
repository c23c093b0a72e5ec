SPECIFICATION SystemSpec
CONSTANTS
    p1 = p1
    p2 = p2
    None = None
    Requests = {1, 2, 3, 4}
    Files = {"f1", "f2"}
    Lower <- MCLower
    MaxAttempts = 1
    Processes = {p1, p2}
    Migrations = 3
    Repeatable = {2}
    SeedEmail = "boss"
    SeedPassword = "seed"
    Bounds <- MCBounds
INVARIANTS AccountsTypeOK TriesBounded LockoutHasCause OneSuccessPerToken PasswordIsLastSet TemporaryPasswordMarked AvatarNotDeleted RecordedIsApplied
PROPERTIES GoogleLinkStays StartCompletes
CHECK_DEADLOCK FALSE
