\* Every request ends, with one plugin missing from the roleMap.
SPECIFICATION FairSpec
CONSTANTS
    Request = {r1, r2}
    Plugin = {p1, p2}
    Output = {o1}
    Falsy = {}
    Role = {"user"}
    RoleMap <- MCPartlyMapped
    Unmapped = {p2}
    Left = Left
    JwtExpiresIn = 1
    MaxTime = 0
    Outages = TRUE
PROPERTIES
    EveryRequestEnds
CHECK_DEADLOCK FALSE
