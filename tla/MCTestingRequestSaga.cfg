SPECIFICATION Spec
CONSTANTS
    Requests = {r1}
    Paths = {p1, p2}
    Reasons = {denied}
    Null = null
    Progress = {0, 50}
    FailedPublishReaches <- FewWorkers
    MaxTimers = 2
INVARIANTS
    TypeOK
    RecordMatchesState
    TimeoutIsPending
    AskedOncePerRun
PROPERTIES
    RevivedOnlyByUser
    StageFedByPredecessor
CHECK_DEADLOCK FALSE
