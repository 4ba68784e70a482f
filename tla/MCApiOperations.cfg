\* Three calls, one plain key, one keyed effect, two intents.
SPECIFICATION Spec
SYMMETRY Symmetry
CONSTANTS
    Requests = {p1, p2, p3}
    Keys = {plain, keyed}
    Keyed = {keyed}
    Intents = {i1, i2}
    None = None
INVARIANTS
    AnswersAreBacked
    LeaseExcludes
    AnswersAgree
CHECK_DEADLOCK FALSE
