CONSTANTS
    s1 = s1
    s2 = s2
    r1 = r1
    f1 = f1
    f2 = f2
    f3 = f3
    Nothing = Nothing
    Session <- MCSession
    Run <- MCRun
    Fingerprint <- MCFingerprint
    Content <- MCContent
    Interval <- MCInterval
    n1 = n1
    n2 = n2
    declared = declared
    other = other
    loopback = loopback
    SourceRow <- MCSourceRow
    Revised <- MCRevised
    Retention <- MCRetention
    Redaction <- MCRedaction
    LastDay = 1
    SourceText <- MCText
    Limit = 1
    Host <- MCHost
    Declared <- MCDeclared
    Loopback = loopback
    MaxRedirects = 2
    MaxBytes = 1
    LicenseNumber <- MCNumber
    NoNumber = NoNumber
    SourceFile <- MCSourceFile
SPECIFICATION Spec
CONSTRAINT MCBound
SYMMETRY MCSymmetry
INVARIANT
    UnusualStatusIsWarnedOf
CHECK_DEADLOCK FALSE
