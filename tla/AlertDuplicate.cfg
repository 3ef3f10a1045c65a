\* No fault, no edit: a pass that read its snapshot while an evaluation ran.
SPECIFICATION Spec
CONSTANTS
    NULL = NULL
    Slot = {s1, s2}
    MaxRule = 1
    Interval = 1
    For = 0
    MaxTime = 2
    MaxDef = 0
    MaxFault = 0
INVARIANT
    OneFiringPerTransition
