\* Two databases share an id, two repositories in turn; the evaluations of
\* rule 1 may hang, and the process may crash once.
SPECIFICATION HungSpec
CONSTANTS
    NULL = NULL
    sqlite = sqlite
    d1 = d1
    d2 = d2
    Driver = {sqlite}
    Dsn = {d1, d2}
    Opens <- OneDriver
    Limits = {300}
    DefaultLimit = 300
    Request = {q1}
    MaxHandle = 2
    MaxCrash = 1
    MaxEval = 2
    MaxRule = 2
    Rows <- TwoAndOne
INVARIANTS
    ServiceTypeOK
    RowHasOneWriter
    ResultsStayHome
PROPERTY
    OthersServed
