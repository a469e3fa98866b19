CONSTANTS
    j1 = j1
    w1 = w1
    w2 = w2
    k1 = k1
    k2 = k2
    Nobody = Nobody
    NoJob = NoJob
    MaxAttempts = 2
    StaleAfter = 1
    Worker <- MCWorker
    Job <- MCJob
    Key <- MCKey
    Rows <- MCRows
    Faults = {"statement"}
SPECIFICATION ImportSpec
PROPERTIES
    RetryKeepsManifest
