SPECIFICATION Spec
CONSTANTS
    Numbers <- MCNumbers
    MaxCommands = 2
    ShortJobTimeout = 4
    LongJobTimeout = 3
    CpuLimitDefaultPercentage = 1
    CpuLimitMaxPercentage = 2
    MemoryLimitDefaultMegaBytes = 2
    MemoryLimitMaxMegaBytes = 3
INVARIANTS JobsAreBounded AskedIsGranted
CHECK_DEADLOCK FALSE
