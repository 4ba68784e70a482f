\* An approval requested for an earlier version of the plan is granted late.
SPECIFICATION Spec
CONSTANTS
    Approvals <- MCApprovals
    Plans = {plan}
    Actors = {author, ann, bob}
    Roles = {ops}
    Durable = TRUE
    NoRequest = NoRequest
    Threads = {t1, t2}
    PlanRisks = {2}
    Counts = {1}
    Expiries = {1}
    Times = {0, 1}
    MaxDrafts = 2
    MaxCrashes = 0
INVARIANT
    StaleApprovalRejected
CHECK_DEADLOCK FALSE
