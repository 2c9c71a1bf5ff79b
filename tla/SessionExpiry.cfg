\* Time: JWTs expire and outputs are revoked while requests are in flight; the output is falsy.
SPECIFICATION Spec
CONSTANTS
    Request = {r1, r2, r3}
    Plugin = {p1}
    Output = {o1}
    Falsy = {o1}
    Role = {"user"}
    RoleMap <- MCPartlyMapped
    Unmapped = {}
    Left = Left
    JwtExpiresIn = 1
    MaxTime = 2
    Outages = FALSE
SYMMETRY MCSymmetry
INVARIANTS
    ExpelledOnlyIfRevoked
PROPERTIES
    AccessWindow
    ImplementsPromise
CHECK_DEADLOCK FALSE
