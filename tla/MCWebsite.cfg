SPECIFICATION Spec
CONSTANTS
    Requests = {r1}
    Reasons = {denied}
    Null = null
    Progress = {0}
    Seen <- EndedOrFailed
    Tables = {t1}
    Dashboards = {d1}
    ChartSize = 3
    MaxInbox = 1
    MaxInTransit = 1
    MaxFailures = 2
    MaxRefreshes = 1
INVARIANTS
    TypeOK
    TableFollows
    ChartLagsByOne
PROPERTIES
    RequestsReachTables
