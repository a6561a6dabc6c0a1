SPECIFICATION Spec
CONSTANTS
    Requests = {r1}
    Valid = {r1}
    Passes = {p1, p2}
    Half = 1
    Full = 2
    MaxObjects = 2
    MaxFailures = 1
    MaxCrashes = 1
INVARIANTS
    TypeOK
    ProcessedIsSwept
    ResultIsLast
PROPERTIES
    EveryRequestLeaves
    KeepsContract
