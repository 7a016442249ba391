SPECIFICATION FairSpec
CONSTANTS
    Timeouts = {0, 1}
    MaxLines = 4
    PipeCapacity = 2
INVARIANTS TypeOK  UncutIsComplete
PROPERTIES HandlerReturns
CHECK_DEADLOCK FALSE
