\* Expected to be violated: SSM fails after boot.
SPECIFICATION Spec
CONSTANTS
    r1 = r1
    r2 = r2
    t1 = t1
    Requests = {r1, r2}
    Tags = {t1}
    Lengths = {9}
    MaxCatalogs = 2
    Ceiling = 6
    Headroom = 2
    SsmMayFail = TRUE
INVARIANTS
    TowerResolvedAtBoot
