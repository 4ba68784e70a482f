SPECIFICATION Spec
CONSTANTS
    None = None
    Processes = {p1}
    Results = {c1}
    Certified = {c1}
    MaxEvents = 1
INVARIANT RevocationBlocks
CHECK_DEADLOCK FALSE
