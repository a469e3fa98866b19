CONSTANTS
    c1 = c1
    Missing = Missing
    Broken = Broken
    Caller <- MCCaller
    Free <- MCFree
    Thresholds <- MCThresholds
    MaxAge = 1
    MaxSkew = 0
    MaxBack = 1
    p1 = p1
    p2 = p2
    s1 = s1
    s2 = s2
    k1 = k1
    k2 = k2
    f1 = f1
    b1 = b1
    b2 = b2
    None = None
    Process <- MCProcess
    Source <- MCSource
    Key <- MCKey
    File <- MCFile
    Bytes <- MCBytes
SPECIFICATION Spec
SYMMETRY MCSymmetry
INVARIANTS
    TypeOK
    RegisteredIsArchived
    PublishedIsRegistered
    OnlyConflictsAreRefused
PROPERTIES
    GateIsSound
