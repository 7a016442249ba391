SPECIFICATION FairSpec
CONSTANTS
    j1 = j1
    j2 = j2
    c1 = c1
    c2 = c2
    e1 = e1
    e2 = e2
    Jobs = {j1}
    Short = {j1}
    Clients = {c1, c2}
    Executors = {e1}
    Cleaner = Cleaner
    NoOne = NoOne
    NoJob = NoJob
    Requests = {"schedule", "stop", "restart", "restartall"}
    Outcomes = {"none"}
    MaxJobsQueueBuffer = 1
    JobsCleanupMaxFetch = 0
    CleanupActive = FALSE
INVARIANTS TypeOK IInv NoLostJob
PROPERTIES JobsComplete RequestsReturnUnlessStuck
CHECK_DEADLOCK FALSE
