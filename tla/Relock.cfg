\* A token is locked, unlocked and locked again.
SPECIFICATION ChainSpec
CONSTANTS
    t1 = t1
    t2 = t2
    t3 = t3
    User = {alice}
    Token = {t1, t2, t3}
    TokenId <- MCOneContract
    Hash = {h1}
    LockPeriod = 1
    Vault = Vault
    Unminted = Unminted
    MaxTime = 2
    MaxEvents = 4
INVARIANTS
    LockedAreEligible
CHECK_DEADLOCK FALSE
