\* The bound on audit records stops the system, so it may run out of steps.
SPECIFICATION Spec
CONSTANTS
    NULL = NULL
    User = {root, ann}
    Root = root
    Request = {q1, q2}
    MaxAudits = 2
    MaxWrites = 4
    MaxFault = 2
CHECK_DEADLOCK FALSE
SYMMETRY RequestSymmetry
INVARIANTS
    TypeOK
    ActiveAdminRemains
    MemoryOnDisk
    AuditTrail
