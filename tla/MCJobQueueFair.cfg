\* Two jobs that compete for two workers under fairness: recovery and progress.
SPECIFICATION FairSpec
CONSTANTS
    Keys = {k1, k2}
    Requests = {r1}
    Limits = {2}
    Callers = {c1}
    Workers = {w1, w2}
    LeaseSeconds = 5
    AgeCap = 1
    AttemptCap = 2
    CrashCap = 1
    Null = Null
INVARIANTS
    OutcomeOfLastAttempt
PROPERTIES
    NoAttemptIsStuck
    PendingIsClaimed
