SPECIFICATION PipelineSpec
CONSTANTS
    Requests = {r1}
    Paths = {p1}
    Reasons = {denied}
    Null = null
    Progress = {0}
    FailedPublishReaches <- AllOrNothing
    MaxTimers = 1
    Passes = {t1}
    FewestStatuses = 1
    MostStatuses = 1
    Running = {1, 2}
    Prompt = FALSE
    MaxInTransit = 1
    MaxCancels = 1
    MaxRestarts = 1
    MaxFailures = 1
    MaxCrashes = 1
INVARIANTS
    PipelineTypeOK
    NobodyDeclines
PROPERTIES
    OnlyWorkersOrphan
CHECK_DEADLOCK FALSE
