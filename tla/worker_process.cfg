SPECIFICATION FairSpec
CONSTANTS
    j1 = j1
    j2 = j2
    d1 = d1
    d2 = d2
    Jobs = {j1, j2}
    Diags = {d1}
    MaxJobsQueueBuffer = 1
    SignalsBuffer = 2
    Cleaner = Cleaner
    Stuck = Stuck
    NoOne = NoOne
INVARIANTS TypeOK OneDump OrderlyExit
PROPERTIES ImplementsLife WorkerStops DiagAnswered
CHECK_DEADLOCK FALSE
