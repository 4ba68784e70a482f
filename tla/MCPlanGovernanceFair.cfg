\* A plan of risk L1 or L2 drafted twice, two actors, two handlers in progress,
\* on the in-memory stores, which have no life after a crash.
\* Everything decided and no draft left is a state in which the API only serves reads.
SPECIFICATION FairSpec
CONSTANTS
    Approvals <- MCApprovals
    Plans = {plan}
    Actors = {author, ann}
    Roles = {ops}
    Durable = FALSE
    NoRequest = NoRequest
    Threads = {t1, t2}
    PlanRisks = {1, 2}
    Counts = {1}
    Expiries = {1}
    Times = {0, 1}
    MaxDrafts = 2
    MaxCrashes = 0
PROPERTY
    GrantedPlanMovesOn
CHECK_DEADLOCK FALSE
