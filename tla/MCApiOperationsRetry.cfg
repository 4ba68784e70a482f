\* Three calls with the same plain key.
SPECIFICATION Spec
CONSTANTS
    Requests = {p1, p2, p3}
    Keys = {plain}
    Keyed = {}
    Intents = {i1}
    None = None
INVARIANTS
    RetriesAgree
CHECK_DEADLOCK FALSE
