\* Two handlers, two keys, two L2 actions of two plans, one approval.
\* With every key used up and the approval decided the API only serves reads.
SPECIFICATION FairSpec
CONSTANTS
    Approvals = {a1}
    Plans = {p1, p2}
    Actors = {ann, bob}
    Roles = {ops}
    Durable = TRUE
    NoRequest = NoRequest
    Threads = {t1, t2}
    Actions = {act1, act2}
    Keys = {k1, k2}
    Parameters = {x}
    RiskInputs = {2}
    Times = {0, 1}
    Counts = {1}
    MaxTries = 2
    MaxCrashes = 1
    NoRow = NoRow
INVARIANTS
    ExecutedWasApproved
    CancelledNeverRuns
    AppliedOncePerAttempt
PROPERTY
    StartedSettles
CHECK_DEADLOCK FALSE
