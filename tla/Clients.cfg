\* Commands and clicks that overlap with each other and with crashes.
SPECIFICATION ClientSpec
CONSTANTS
    Request = {r1, r2, r3}

INVARIANTS
    PageIsOfOneLogin
    FilesAreOfOneLogin
    RefreshRefusalIsDue
PROPERTIES
    ClientsEnd
CHECK_DEADLOCK FALSE
