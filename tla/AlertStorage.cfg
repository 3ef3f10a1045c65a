\* The bound on repositories stops the changes.
SPECIFICATION Spec
CONSTANTS
    NULL = NULL
    sqlite = sqlite
    postgres = postgres
    d1 = d1
    d2 = d2
    Driver = {sqlite, postgres}
    Dsn = {d1, d2}
    Opens <- OneEach
    Limits = {10, 300}
    DefaultLimit = 300
    Request = {q1, q2}
    MaxHandle = 3
    MaxCrash = 1
CHECK_DEADLOCK FALSE
INVARIANTS
    TypeOK
    RepositoriesOwned
    RunningMatchesFile
PROPERTY FollowsChanges
SYMMETRY RequestSymmetry
