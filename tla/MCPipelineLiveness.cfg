SPECIFICATION PipelineSpec
CONSTANTS
    Requests = {r1}
    Paths = {p1}
    Reasons = {denied}
    Null = null
    Progress = {0, 1, 2}
    FailedPublishReaches <- AllOrNothing
    MaxTimers = 1
    Passes = {t1}
    FewestStatuses = 2
    MostStatuses = 3
    Running = {1, 2}
    Prompt = TRUE
    MaxInTransit = 2
    MaxCancels = 1
    MaxRestarts = 0
    MaxFailures = 0
    MaxCrashes = 0
PROPERTIES
    StagesEnd
CHECK_DEADLOCK FALSE
