\* The bounds on sessions and crashes leave a system that may stop.
SPECIFICATION Spec
CONSTANTS
    NULL = NULL
    e1 = e1
    p1 = p1
    p2 = p2
    Alias <- MCAlias
    EnvSeq <- MCEnvSeq
    Session = {s1, s2}
    Request = {q1, q2}
    MaxVersion = 2
    MaxCrash = 1
CHECK_DEADLOCK FALSE
SYMMETRY Symmetry
INVARIANTS
    TypeOK
    ActiveClusterExists
    RegistryAgrees
PROPERTIES
    DroppedStaysDropped
    Directory
