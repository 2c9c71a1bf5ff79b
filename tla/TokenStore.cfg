\* Four calls about two refresh tokens on a fresh database.
SPECIFICATION Spec
CONSTANTS
    Call = {c1, c2, c3, c4}
    FirstToken = k1
    Token = {k1, k2}
INVARIANTS
    StoredRowsStay
    FailuresOnlyAtStart
CHECK_DEADLOCK FALSE
