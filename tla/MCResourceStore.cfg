\* Two connections, two keys, two resources of up to three versions.
\* With every version used up and every record expired no put is left to make.
SPECIFICATION Spec
SYMMETRY Symmetry
CONSTANTS
    Transactions = {c1, c2}
    Resources = {r1, r2}
    Keys = {k1, k2}
    Bodies = {b1, b2}
    MaxVersion = 3
    None = None
INVARIANTS
    TypeOK
    HistoryIsComplete
    NoLostUpdate
    RequestAppliedOnce
PROPERTY
    ImplementsRegister
CHECK_DEADLOCK FALSE
