\* One job, two racing callers with different requests, two workers that crash
\* and lose connections: the safety of one job.
SPECIFICATION Spec
SYMMETRY Symmetry
CONSTANTS
    Keys = {k1}
    Requests = {r1, r2}
    Limits = {1, 2}
    Callers = {c1, c2}
    Workers = {w1, w2}
    LeaseSeconds = 5
    AgeCap = 1
    AttemptCap = 3
    CrashCap = 2
    Null = Null
INVARIANTS
    TypeOK
    AttemptFenced
    EnqueueIdempotent
PROPERTIES
    SettledIsFinal
    ImplementsLifecycle
