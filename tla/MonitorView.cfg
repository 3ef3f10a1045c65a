SPECIFICATION FairSpec
CONSTANTS
    Cluster = {a, b}
    First = a
    NULL = NULL
    MaxFetch = 2
    Queries = 2
INVARIANTS
    TypeOK
    CacheOwn
    FlagHasFetch
    ButtonReturns
    SettledShowsActive
PROPERTIES
    FetchesEnd
