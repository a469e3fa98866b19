CONSTANTS
    a1 = a1
    a2 = a2
    a3 = a3
    k1 = k1
    k2 = k2
    r1 = r1
    r2 = r2
    r3 = r3
    l1 = l1
    l2 = l2
    l3 = l3
    NoWindow = NoWindow
    NoKey = NoKey
    NoCursor = NoCursor
    NoRow = NoRow
    Client <- MCClient
    ApiKey <- MCApiKey
    Request <- MCRequest
    License <- MCLicense
    Limit = 2
    WindowTime = 2
    MaxClients = 2
    Quota = 2
    LastDay = 1
    MaxId = 4
    PageLimit = 1
SPECIFICATION Spec
INVARIANTS
    KeyFailureIs401
CHECK_DEADLOCK FALSE
