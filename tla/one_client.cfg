SPECIFICATION Spec
CONSTANTS
    j1 = j1
    j2 = j2
    c1 = c1
    c2 = c2
    e1 = e1
    e2 = e2
    Jobs = {j1, j2}
    Short = {j1}
    Clients = {c1}
    Executors = {e1, e2}
    Cleaner = Cleaner
    NoOne = NoOne
    NoJob = NoJob
    Requests = {"schedule", "stop", "stopall", "restart", "restartall", "fetch", "status"}
    Outcomes = {"none"}
    MaxJobsQueueBuffer = 1
    JobsCleanupMaxFetch = 0
    CleanupActive = FALSE
SYMMETRY ControlSymmetry
INVARIANTS AtMostOneRun
CHECK_DEADLOCK FALSE
