\* One rule, followed far: two incidents, an edit, one fault.
SPECIFICATION Spec
CONSTANTS
    NULL = NULL
    Slot = {s1, s2}
    MaxRule = 1
    Interval = 1
    For = 2
    MaxTime = 6
    MaxDef = 1
    MaxFault = 1
SYMMETRY SlotSymmetry
INVARIANTS
    TypeOK
    OneEvaluationPerRule
    EventsMatchState
    FiringEarned
PROPERTIES
    LastEvaluatedMonotone
    Lifecycle
