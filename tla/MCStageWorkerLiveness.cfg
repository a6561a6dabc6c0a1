SPECIFICATION Spec
CONSTANTS
    Requests = {r1, r2}
    Valid = {r1}
    Passes = {p1}
    Half = 1
    Full = 2
    MaxObjects = 1
    MaxFailures = 1
    MaxCrashes = 0
PROPERTIES
    EveryRequestFinishes
