SPECIFICATION MCSpec
CONSTANTS
    None = None
    Revisions = {t1, t2}
    Loose = loose
    Release = rel
    Requester = "req"
    Policies <- MCPolicies
    Owner <- MCOwner
    Outcomes = {"pass", "skipped"}
    RequestLives = {1}
    MAX_LIFE = 2
    TokenLife = 1
    CertificateLife = 1
    MaxTime = 1
    MaxUpsets = 1
    Actors = {a1, a2}
    Things = {t1, t2}
    Names = {n1, n2}
INVARIANTS
    TypesOK
    PublishedOnOneRequest
    DutiesAreSeparated
    SuitePassIsBound
    LedgerIsBacked
    ChainVerifies
    PublishedWasReviewed
    EqualPrioritiesAgree
    RollbackRestores
    SyncedIsStored
    IntervalsExecuteOnce
    SessionIsReplay
    AcceptedWritesHold
    WithdrawnKeysExpire
PROPERTY LifecycleIsFinal
SYMMETRY MCSymmetries
CHECK_DEADLOCK FALSE
