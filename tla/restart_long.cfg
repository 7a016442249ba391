SPECIFICATION Spec
CONSTANTS
    j1 = j1
    j2 = j2
    c1 = c1
    c2 = c2
    e1 = e1
    e2 = e2
    Jobs = {j1}
    Short = {}
    Clients = {c1}
    Executors = {e1}
    Cleaner = Cleaner
    NoOne = NoOne
    NoJob = NoJob
    Requests = {"schedule", "restart"}
    Outcomes = {"none"}
    MaxJobsQueueBuffer = 1
    JobsCleanupMaxFetch = 0
    CleanupActive = FALSE
INVARIANTS NoLostLongJob
CHECK_DEADLOCK FALSE
