\* An L3 plan drafted twice, three actors, two handlers in progress.
\* Everything decided and no draft left is a state in which the API only serves reads.
SPECIFICATION Spec
SYMMETRY Symmetry
CONSTANTS
    Approvals <- MCApprovals
    Plans = {plan}
    Actors = {author, ann, bob}
    Roles = {ops}
    Durable = TRUE
    NoRequest = NoRequest
    Threads = {t1, t2}
    PlanRisks = {3}
    Counts = {2}
    Expiries = {1}
    Times = {0, 1}
    MaxDrafts = 2
    MaxCrashes = 1
INVARIANTS
    TypeOK
    RoleSeparation
    ApprovedPlanIsBacked
PROPERTIES
    PlanMovesAreLegal
CHECK_DEADLOCK FALSE
