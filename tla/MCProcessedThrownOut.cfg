SPECIFICATION Spec
CONSTANTS
    Requests = {r1}
    Valid = {r1}
    Passes = {p1}
    Half = 1
    Full = 2
    MaxObjects = 2
    MaxFailures = 0
    MaxCrashes = 0
PROPERTIES
    OnlyProcessedThrownOut
