\* One job with one attempt and two workers: max_attempts as a bound.
SPECIFICATION Spec
CONSTANTS
    Keys = {k1}
    Requests = {r1}
    Limits = {1}
    Callers = {c1}
    Workers = {w1, w2}
    LeaseSeconds = 5
    AgeCap = 1
    AttemptCap = 3
    CrashCap = 1
    Null = Null
INVARIANTS
    AttemptsWithinLimit
