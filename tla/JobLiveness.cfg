SPECIFICATION FairSpec

CONSTANTS
    MaxJobs = 2
    Resource = {r1}
    NoResource = NoResource
    Key = {}
    NoKey = NoKey
    MaxHistory = 2
    MaxConcurrent = 1
    CompactAt = 1
    Faults = {}

PROPERTIES
    CancelTakesEffect
    ShutdownEnds
    JobsEnd
