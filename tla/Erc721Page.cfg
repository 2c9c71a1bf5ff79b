\* A page, its polls and its proofs while tokens are locked and unlocked.
SPECIFICATION PageSpec
CONSTANTS
    t1 = t1
    t2 = t2
    User = {alice}
    Token = {t1, t2}
    TokenId <- MCOneContract
    Hash = {h1, h2}
    Known = {h1}
    LockPeriod = 1
    Vault = Vault
    Unminted = Unminted
    MaxTime = 1
    MaxEvents = 4
    Capacity = 1
    Interval = 1
PROPERTIES
    OutputsAreBacked
    ListNeverGoesBack
    ListCatchesUp
CHECK_DEADLOCK FALSE
