\* Either host; a plugin server that comes and goes, and tables that change.
SPECIFICATION HostSpec
CONSTANTS
    p1 = p1
    p2 = p2
    h1 = h1
    h2 = h2
    Undefined = Undefined
    Left = Left
    Broken = Broken
    Plugin = {p1, p2}
    Instance = {p1, p2}
    Hash = {h1, h2}
    RoleName = {"a", "b"}
    Table <- MCTable
    Configs <- MCConfigs
    DefaultConfig <- MCDefaultConfig
    Output <- MCOutput
    Falsy = {Undefined}
    Role = {"user", "admin", "auditor"}
    RoleMap <- MCRoleMap
    Claims <- MCClaims
    Hosts = {"proxy", "memory"}
INVARIANTS
    TypeOK
    RolesAreBacked
    ServesAllOrNothing
PROPERTIES
    NoneIsFinal
    StartsFromConfig
    PromiseKept
    AcceptedWereAdmitted
    RefusalsHaveCause
    CallsEnd
