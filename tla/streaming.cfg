SPECIFICATION FairSpec
CONSTANTS
    v1 = v1
    v2 = v2
    Viewers = {v1, v2}
    MaxBytes = 3
    Newlines = {2, 3}
    PipeCapacity = 2
    ShortJobTimeout = 3600
    LongJobTimeout = 1440
    CpuLimitDefaultPercentage = 10
    CpuLimitMaxPercentage = 25
    MemoryLimitDefaultMegaBytes = 100
    MemoryLimitMaxMegaBytes = 1000
INVARIANTS TypeOK FlagHasStreamer SessionsSplitTheOutput CompletedMeansAll SentIsDumped NoFalseEnd BytesInv
PROPERTIES StreamsEnd JobEnds
CHECK_DEADLOCK FALSE
