\* One rule, every fault and an edit, under fairness: no symmetry.
SPECIFICATION FairSpec
CONSTANTS
    NULL = NULL
    Slot = {s1, s2}
    MaxRule = 1
    Interval = 1
    For = 1
    MaxTime = 2
    MaxDef = 1
    MaxFault = 2
PROPERTIES
    EvaluationEnds
    DueIsServed
