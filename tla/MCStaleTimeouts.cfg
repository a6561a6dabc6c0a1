SPECIFICATION Spec
CONSTANTS
    Requests = {r1}
    Paths = {p1}
    Reasons = {denied}
    Null = null
    Progress = {0}
    FailedPublishReaches <- NoWorkers
    MaxTimers = 2
PROPERTIES
    OwnTimeoutsEnd
CHECK_DEADLOCK FALSE
