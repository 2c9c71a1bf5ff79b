\* Races: a login and two more requests against two plugins, the plugin server going up and down.
SPECIFICATION Spec
CONSTANTS
    Request = {r1, r2, r3}
    Plugin = {p1, p2}
    Output = {o1}
    Falsy = {}
    Role = {"user"}
    RoleMap <- MCPartlyMapped
    Unmapped = {}
    Left = Left
    JwtExpiresIn = 2
    MaxTime = 0
    Outages = TRUE
SYMMETRY MCSymmetry
INVARIANTS
    TypeOK
    SignedOutputsWereValid
    ExpelledTokensStayGone
    SignedInTokensAreStored
    RefreshKeepsOutputs
CHECK_DEADLOCK FALSE
