\* One tag, absent or present, without a length or with one below the headroom, between
\* headroom and ceiling, or above the ceiling.  Two routes race to fetch the catalog.  No symmetry, which is unsound for liveness.
SPECIFICATION Spec
CONSTANTS
    r1 = r1
    r2 = r2
    t1 = t1
    Requests = {r1, r2}
    Tags = {t1}
    Lengths = {0, 1, 5, 9}
    MaxCatalogs = 2
    Ceiling = 6
    Headroom = 2
    SsmMayFail = TRUE
INVARIANTS
    TypeOK
    CacheIsReal
    UnknownWasAbsent
    WindowFits
PROPERTIES
    CachedIsNotFetched
    Discovered
