\* Emissions interleave with each other and with a request; the bounds on
\* events and webhooks stop them.
SPECIFICATION Spec
CONSTANTS
    NULL = NULL
    Rule = {r1}
    Request = {q1}
    Emitter = {v1, v2}
    Limit = 1
    MaxHook = 2
    MaxRow = 4
    MaxFault = 1
CHECK_DEADLOCK FALSE
SYMMETRY EmitterSymmetry
INVARIANTS
    TypeOK
    HistoryBounded
    NotifiesChosen
PROPERTY
    LatestKept
