SPECIFICATION PortalSpec
CONSTANTS
    Requests = {r1}
    Paths = {p1}
    Reasons = {denied}
    Null = null
    Progress = {0}
    FailedPublishReaches <- AllOrNothing
    MaxTimers = 1
    Tables = {t1}
    MaxCommands = 1
    MaxInbox = 2
    MaxInTransit = 1
    MaxFailures = 1
INVARIANTS
    PortalTypeOK
    SiteFollowsSaga
PROPERTIES
    TableCatchesUp
CHECK_DEADLOCK FALSE
