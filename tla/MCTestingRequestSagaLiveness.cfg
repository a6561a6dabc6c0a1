SPECIFICATION Spec
CONSTANTS
    Requests = {r1}
    Paths = {p1}
    Reasons = {denied}
    Null = null
    Progress = {0, 50}
    FailedPublishReaches <- NoWorkers
    MaxTimers = 2
INVARIANTS
    WaitsForAskedWorker
PROPERTIES
    CancelledIsResolved
    TestsDoNotHang
    ImplementsLifecycle
CHECK_DEADLOCK FALSE
