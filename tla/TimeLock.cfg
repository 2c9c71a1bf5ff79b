\* Locks and unlocks of three tokens, two of which share an id, by two users.
SPECIFICATION ChainSpec
CONSTANTS
    t1 = t1
    t2 = t2
    t3 = t3
    User = {alice, bob}
    Token = {t1, t2, t3}
    TokenId <- MCSharedId
    Hash = {h1, h2}
    LockPeriod = 1
    Vault = Vault
    Unminted = Unminted
    MaxTime = 2
    MaxEvents = 4
SYMMETRY MCSymmetry
INVARIANTS
    ChainTypeOK
    Custody
    EventsTellTheLists
    FirstLockIsEligible
PROPERTIES
    KeepsPromise
CHECK_DEADLOCK FALSE
