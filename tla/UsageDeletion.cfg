SPECIFICATION MCSpec
CONSTANTS
    Machines = {m1, m2}
    Requests = {r1, r2}
    MaxCount = 2
    MaxKeys = 2
    MaxReports = 2
    Invocations = {r1, r2}
    KeptDays = 3
    MaxDay = 4
    MaxEvents = 1
    Batches = {r1, r2}
    MaxBatch = 2
    MaxRetryQueue = 2
    EndpointMax = 2
    MaxEmitted = 3
    MaxFailures = 1
    LastDay = 2
    Forms = {r1, r2}
    NoForm = NoForm
    MaxPersons = 2
    MaxNotes = 2
    LastSecond = 1
CHECK_DEADLOCK FALSE
INVARIANT AnalyticsEventsDeleted
