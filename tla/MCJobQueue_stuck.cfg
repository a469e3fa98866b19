CONSTANTS
    j1 = j1
    j2 = j2
    w1 = w1
    w2 = w2
    Nobody = Nobody
    NoJob = NoJob
    MaxAttempts = 2
    StaleAfter = 1
    Worker <- MCWorker
    Job <- MCOneJob
SPECIFICATION RecoverySpec
PROPERTIES
    AbandonedJobIsSettled
