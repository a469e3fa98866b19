CONSTANTS
    m1 = m1
    m2 = m2
    m3 = m3
    s1 = s1
    k1 = k1
    k2 = k2
    f1 = f1
    f2 = f2
    b1 = b1
    b2 = b2
    Absent = Absent
    NoManifest = NoManifest
    Untouched = Untouched
    NoBackend = NoBackend
    Backend <- MCBackend
    Fingerprint <- MCFingerprint
    Manifest <- MCManifest
    Source <- MCSource
    Key <- MCKey
    SourceOf <- MCSourceOf
SPECIFICATION FairSpec
CONSTRAINT MCCanonical
INVARIANTS
    TypeOK
    CurrentIsOneManifest
    ChangeLogReplays
    FailedPublishesNothing
PROPERTIES
    ImplementsDataset
    PromotionEnds
CHECK_DEADLOCK FALSE
